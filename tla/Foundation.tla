------------------------------ MODULE Foundation ------------------------------
(***************************************************************************)
(* The foundation resources of concurrent live runs that were given the    *)
(* same names: bucket, vector store and data sync connector, each created, *)
(* reused or (the connector) skipped, in this order                        *)
(* (ObjectStorageBucketManager, VectorStoreManager and                     *)
(* VectorStoreConnectorManager in resources.py).  Every call to the cloud  *)
(* is a step, so that the runs interleave between a lookup and the         *)
(* creation that relies on it.                                             *)
(*                                                                         *)
(* The cloud is external.  A bucket name is unique; vector stores and      *)
(* connectors of one name are told apart by who created them, and a        *)
(* listing gives them in any order.  What was created is not readable at   *)
(* once, then in transition, then active or failed ("FAILED" stands for    *)
(* deleted and deleting as well).  A state is what the service tells:      *)
(* "ACTIVE" is every answer that is neither transitional nor failed, one   *)
(* without a state included, as it is for the code (_is_resource_ready).   *)
(***************************************************************************)
EXTENDS Naturals, FiniteSets

CONSTANTS
  Runs,   \* live runs, one background thread each
  Old,    \* vector stores and connectors that exist already
  Modes,  \* the resource modes a payload may ask for
  None    \* no resource

AllModes == [bucket : {"create", "reuse"}, store : {"create", "reuse", "id"},
             connector : {"create", "reuse", "id", "skip"}]

ASSUME ModesAssumption == Modes \subseteq AllModes
ASSUME NamesAssumption == Runs \cap Old = {} /\ None \notin Runs \cup Old

VARIABLES
  mode,          \* run -> its modes
  pc,            \* run -> the call it makes next
  why,           \* run -> why it failed
  bucket,        \* cloud: state of the bucket
  store,         \* cloud: creator -> state of its vector store
  connector,     \* cloud: creator -> state of its connector
  newBucket,     \* runs that report their bucket as created
  gotStore,      \* run -> vector store it resolved
  newStore,      \* runs that report their vector store as created
  gotConnector,  \* run -> connector it read last
  newConnector   \* runs that report their connector as created

cloudVars  == <<bucket, store, connector>>
resultVars == <<newBucket, gotStore, newStore, gotConnector, newConnector>>
vars       == <<mode, pc, why, cloudVars, resultVars>>

Creators == Runs \cup Old
State    == {"absent", "hidden", "CREATING", "ACTIVE", "FAILED"}

(* What a get or a listing answers with; a get of what is hidden is a 404. *)
Readable == {"CREATING", "ACTIVE", "FAILED"}
Listed(resources) == {c \in Creators : resources[c] \in Readable}

Waits  == {"bucket_wait", "store_wait", "connector_wait"}
Points == {"bucket_lookup", "bucket_create", "store_lookup", "store_create",
           "connector_lookup", "connector_create", "done", "failed"} \cup Waits
Reasons == {"none", "not_found", "conflict", "failed_state", "timeout", "api_error"}

TypeOK ==
  /\ mode \in [Runs -> Modes] /\ pc \in [Runs -> Points] /\ why \in [Runs -> Reasons]
  /\ bucket \in State
  /\ store \in [Creators -> State] /\ connector \in [Creators -> State]
  /\ newBucket \subseteq Runs /\ newStore \subseteq Runs /\ newConnector \subseteq Runs
  /\ gotStore \in [Runs -> Creators \cup {None}]
  /\ gotConnector \in [Runs -> Creators \cup {None}]

Init ==
  /\ mode \in [Runs -> Modes]
  /\ pc = [r \in Runs |-> "bucket_lookup"] /\ why = [r \in Runs |-> "none"]
  /\ bucket \in State
  /\ store \in {s \in [Creators -> State] : \A r \in Runs : s[r] = "absent"}
  /\ connector \in {s \in [Creators -> State] : \A r \in Runs : s[r] = "absent"}
  /\ newBucket = {} /\ newStore = {} /\ newConnector = {}
  /\ gotStore = [r \in Runs |-> None] /\ gotConnector = [r \in Runs |-> None]

At(r, point)   == pc[r] = point
Goto(r, point) == pc' = [pc EXCEPT ![r] = point] /\ UNCHANGED why
Fail(r, reason) ==
  pc' = [pc EXCEPT ![r] = "failed"] /\ why' = [why EXCEPT ![r] = reason]

-------------------------------------------------------------------------------
(* The bucket *)

BucketLookup(r) ==
  /\ At(r, "bucket_lookup")
  /\ \/ bucket \in Readable /\ Goto(r, "store_lookup")
     \/ bucket \notin Readable /\ mode[r].bucket = "reuse" /\ Fail(r, "not_found")
     \/ bucket \notin Readable /\ mode[r].bucket = "create" /\ Goto(r, "bucket_create")
  /\ UNCHANGED <<mode, cloudVars, resultVars>>

BucketCreate(r) ==
  /\ At(r, "bucket_create")
  /\ \/ bucket = "absent" /\ bucket' = "hidden" /\ Goto(r, "bucket_wait")
     \/ bucket # "absent" /\ Fail(r, "conflict") /\ UNCHANGED bucket
  /\ UNCHANGED <<mode, store, connector, resultVars>>

(* _wait_for_bucket_ready: a bucket that cannot be read yet, or is in transition, is polled *)
(* again.                                                                                   *)
BucketPoll(r) ==
  /\ At(r, "bucket_wait")
  /\ \/ bucket = "FAILED" /\ Fail(r, "failed_state") /\ UNCHANGED newBucket
     \/ bucket = "ACTIVE" /\ Goto(r, "store_lookup") /\ newBucket' = newBucket \cup {r}
  /\ UNCHANGED <<mode, cloudVars, gotStore, newStore, gotConnector, newConnector>>

-------------------------------------------------------------------------------
(* The vector store *)

(* _find_vector_store_by_name takes the first match, in whatever state; _retrieve_vector_store *)
(* takes the one of the given id.                                                              *)
StoreLookup(r) ==
  /\ At(r, "store_lookup")
  /\ LET found == Listed(store) \cap (IF mode[r].store = "id" THEN Old ELSE Creators)
     IN \/ /\ \E c \in found : gotStore' = [gotStore EXCEPT ![r] = c]
           /\ Goto(r, "connector_lookup")
        \/ /\ found = {}
           /\ IF mode[r].store = "create" THEN Goto(r, "store_create") ELSE Fail(r, "not_found")
           /\ UNCHANGED gotStore
  /\ UNCHANGED <<mode, cloudVars, newBucket, newStore, gotConnector, newConnector>>

StoreCreate(r) ==
  /\ At(r, "store_create")
  /\ store' = [store EXCEPT ![r] = "hidden"]
  /\ Goto(r, "store_wait")
  /\ UNCHANGED <<mode, bucket, connector, resultVars>>

(* Mutant of StorePoll: readable is taken for ready. *)
StorePollReadable(r) ==
  /\ At(r, "store_wait")
  /\ \/ store[r] = "FAILED" /\ Fail(r, "failed_state") /\ UNCHANGED <<gotStore, newStore>>
     \/ /\ store[r] \in {"CREATING", "ACTIVE"}
        /\ gotStore' = [gotStore EXCEPT ![r] = r] /\ newStore' = newStore \cup {r}
        /\ Goto(r, "connector_lookup")
  /\ UNCHANGED <<mode, cloudVars, newBucket, gotConnector, newConnector>>

(* _wait_for_vector_store_ready: polled by the id in the answer of the creation. *)
StorePoll(r) ==
  /\ At(r, "store_wait")
  /\ \/ store[r] = "FAILED" /\ Fail(r, "failed_state") /\ UNCHANGED <<gotStore, newStore>>
     \/ /\ store[r] = "ACTIVE"
        /\ gotStore' = [gotStore EXCEPT ![r] = r] /\ newStore' = newStore \cup {r}
        /\ Goto(r, "connector_lookup")
  /\ UNCHANGED <<mode, cloudVars, newBucket, gotConnector, newConnector>>
-------------------------------------------------------------------------------
(* The connector *)

ConnectorSkipped(r) ==
  /\ At(r, "connector_lookup") /\ mode[r].connector = "skip"
  /\ Goto(r, "done")
  /\ UNCHANGED <<mode, cloudVars, resultVars>>

(* Mutant of ConnectorLookup: the state of the match is not looked at. *)
ConnectorLookupAnyState(r) ==
  /\ At(r, "connector_lookup") /\ mode[r].connector # "skip"
  /\ \/ \E c \in Listed(connector) :
          gotConnector' = [gotConnector EXCEPT ![r] = c] /\ Goto(r, "done")
     \/ /\ Listed(connector) = {}
        /\ IF mode[r].connector = "create" THEN Goto(r, "connector_create")
                                           ELSE Fail(r, "not_found")
        /\ UNCHANGED gotConnector
  /\ UNCHANGED <<mode, cloudVars, newBucket, gotStore, newStore, newConnector>>

(* The first match of the name, or the connector of the given id.  A failed one is refused, *)
(* unless the mode is create: then a new one is made beside it.                             *)
ConnectorLookup(r) ==
  /\ At(r, "connector_lookup") /\ mode[r].connector # "skip"
  /\ LET found == Listed(connector) \cap (IF mode[r].connector = "id" THEN Old ELSE Creators)
     IN \/ \E c \in found :
             /\ gotConnector' = [gotConnector EXCEPT ![r] = c]
             /\ CASE connector[c] # "FAILED"       -> Goto(r, "done")
                  [] connector[c] = "FAILED" /\ mode[r].connector = "create"
                                                   -> Goto(r, "connector_create")
                  [] OTHER                         -> Fail(r, "failed_state")
        \/ /\ found = {}
           /\ IF mode[r].connector = "create" THEN Goto(r, "connector_create")
                                              ELSE Fail(r, "not_found")
           /\ UNCHANGED gotConnector
  /\ UNCHANGED <<mode, cloudVars, newBucket, gotStore, newStore, newConnector>>

ConnectorCreate(r) ==
  /\ At(r, "connector_create")
  /\ connector' = [connector EXCEPT ![r] = "hidden"]
  /\ Goto(r, "connector_wait")
  /\ UNCHANGED <<mode, bucket, store, resultVars>>

(* _read_connector_after_create: by id, and by name when the id is not found (yet). *)
ReadAfterCreate(r) == IF connector[r] = "hidden" THEN Listed(connector) ELSE {r}

ConnectorPoll(r) ==
  /\ At(r, "connector_wait")
  /\ \E c \in ReadAfterCreate(r) :
       /\ gotConnector' = [gotConnector EXCEPT ![r] = c]
       /\ \/ connector[c] = "FAILED" /\ Fail(r, "failed_state") /\ UNCHANGED newConnector
          \/ connector[c] = "ACTIVE" /\ Goto(r, "done") /\ newConnector' = newConnector \cup {r}
  /\ UNCHANGED <<mode, cloudVars, newBucket, gotStore, newStore>>

-------------------------------------------------------------------------------
(* Failures of the calls *)

(* The deadline is looked at after a poll that did not find the resource ready; the store's *)
(* poll also takes an error for "not ready".                                                *)
TimesOut(r) ==
  /\ \/ At(r, "bucket_wait") /\ bucket \in {"hidden", "CREATING"}
     \/ At(r, "store_wait")
     \/ /\ At(r, "connector_wait")
        /\ \/ ReadAfterCreate(r) = {}
           \/ \E c \in ReadAfterCreate(r) : connector[c] = "CREATING"
  /\ Fail(r, "timeout")
  /\ UNCHANGED <<mode, cloudVars, resultVars>>

(* A call is refused or does not reach the cloud. *)
ApiError(r) ==
  /\ pc[r] \notin {"done", "failed", "store_wait"}
  /\ At(r, "connector_lookup") => mode[r].connector # "skip"
  /\ Fail(r, "api_error")
  /\ UNCHANGED <<mode, cloudVars, resultVars>>

-------------------------------------------------------------------------------
(* The cloud on its own: what is hidden becomes readable, what is in transition settles. *)

Moves(from, to) ==
  \/ from = "hidden" /\ to \in {"CREATING", "ACTIVE"}
  \/ from = "CREATING" /\ to \in {"ACTIVE", "FAILED"}

Cloud ==
  /\ \/ /\ \E to \in State : Moves(bucket, to) /\ bucket' = to
        /\ UNCHANGED <<store, connector>>
     \/ /\ \E c \in Creators, to \in State :
             Moves(store[c], to) /\ store' = [store EXCEPT ![c] = to]
        /\ UNCHANGED <<bucket, connector>>
     \/ /\ \E c \in Creators, to \in State :
             Moves(connector[c], to) /\ connector' = [connector EXCEPT ![c] = to]
        /\ UNCHANGED <<bucket, store>>
  /\ UNCHANGED <<mode, pc, why, resultVars>>

Run(r) ==
  \/ BucketLookup(r) \/ BucketCreate(r) \/ BucketPoll(r)
  \/ StoreLookup(r) \/ StoreCreate(r) \/ StorePoll(r)
  \/ ConnectorSkipped(r) \/ ConnectorLookup(r) \/ ConnectorCreate(r) \/ ConnectorPoll(r)
  \/ TimesOut(r) \/ ApiError(r)

Next == Cloud \/ \E r \in Runs : Run(r)

Spec == Init /\ [][Next]_vars

-------------------------------------------------------------------------------
(* The dry run: preflight of the same managers, which reads but does not write *)

PreflightBucket(r) == mode[r].bucket = "create" \/ bucket \in Readable

PreflightStore(r) ==
  IF mode[r].store = "id" THEN Listed(store) \cap Old # {}
  ELSE Listed(store) # {} \/ mode[r].store = "create"

(* Mutant of PreflightConnector: a failed connector is good enough to reuse. *)
PreflightAnyConnector(r) ==
  \/ mode[r].connector \in {"skip", "create"}
  \/ Listed(connector) # {}

PreflightConnector(r) ==
  CASE mode[r].connector = "skip"   -> TRUE
    [] mode[r].connector = "create" -> TRUE
    [] mode[r].connector = "id"     -> \E c \in Listed(connector) \cap Old : connector[c] # "FAILED"
    [] mode[r].connector = "reuse"  -> \E c \in Listed(connector) : connector[c] # "FAILED"

-------------------------------------------------------------------------------
(* Properties *)

(* No run starts a connector before its bucket and its vector store are there: those it    *)
(* made itself are active, whatever the other runs do meanwhile (0010-agent-factory.md:264).*)
ConnectorRestsOnReadyResources ==
  \A r \in Runs : connector[r] # "absent" =>
    /\ bucket \in Readable /\ (r \in newBucket => bucket = "ACTIVE")
    /\ gotStore[r] # None /\ store[gotStore[r]] \in Readable
    /\ r \in newStore => gotStore[r] = r
    /\ store[r] # "absent" => store[r] = "ACTIVE" /\ r \in newStore

(* A run is only done with a connector that has not failed, and with an active one when it *)
(* says that it created it; a connector that lingers in transition is only ever reused.    *)
HandedOutConnectorIsLive ==
  [][\A r \in Runs : pc[r] # "done" /\ pc'[r] = "done" /\ mode[r].connector # "skip" =>
       /\ gotConnector'[r] # None
       /\ connector[gotConnector'[r]] \in
            (IF r \in newConnector' THEN {"ACTIVE"} ELSE {"ACTIVE", "CREATING"})]_vars

(* What a dry run accepted is not refused by the lookups of a live run while the cloud     *)
(* stays as it is: the two are written separately.  It takes names that are not ambiguous. *)
LookupAgreesWithPreflight ==
  [][\A r \in Runs : pc'[r] = "failed" /\ why'[r] \in {"not_found", "failed_state"} =>
       /\ At(r, "bucket_lookup") => ~PreflightBucket(r)
       /\ At(r, "store_lookup") => ~PreflightStore(r)
       /\ At(r, "connector_lookup") /\ (\A c, d \in Listed(connector) : c = d) =>
            ~PreflightConnector(r)]_vars
===============================================================================
