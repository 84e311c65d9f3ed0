---------------------------- MODULE FoundationProof ----------------------------
(***************************************************************************)
(* Proofs for Foundation, for every set of runs, of existing resources and *)
(* of modes.  The invariant says of every run what its program point tells *)
(* about its resources; that it survives the other runs is because each    *)
(* creates under its own identity and because what is readable stays so.   *)
(***************************************************************************)
EXTENDS Foundation, TLAPS

AtBucket    == {"bucket_lookup", "bucket_create", "bucket_wait"}
AtStore     == {"store_lookup", "store_create", "store_wait"}
AtConnector == {"connector_lookup", "connector_create", "connector_wait"}

(* What run r can say of the bucket. *)
BucketInv(r) ==
  /\ pc[r] \in AtStore \cup AtConnector \cup {"done"} => bucket \in Readable
  /\ r \in newBucket => bucket = "ACTIVE" /\ pc[r] \notin AtBucket

(* What it can say of its vector store. *)
StoreInv(r) ==
  /\ pc[r] \in AtBucket \cup {"store_lookup", "store_create"} => store[r] = "absent"
  /\ pc[r] \in AtConnector \cup {"done"} =>
       /\ gotStore[r] # None /\ store[gotStore[r]] \in Readable
       /\ store[r] # "absent" => store[r] = "ACTIVE" /\ r \in newStore
  /\ r \in newStore => gotStore[r] = r /\ pc[r] \in AtConnector \cup {"done", "failed"}
  /\ pc[r] = "store_create" \/ store[r] # "absent" => mode[r].store = "create"

(* What it can say of its connector, also after it failed. *)
ConnectorInv(r) ==
  /\ pc[r] \in AtBucket \cup AtStore \cup {"connector_lookup", "connector_create"} =>
       connector[r] = "absent"
  /\ r \in newConnector => pc[r] = "done"
  /\ pc[r] = "connector_create" \/ connector[r] # "absent" => mode[r].connector = "create"
  /\ connector[r] # "absent" =>
       /\ bucket \in Readable
       /\ gotStore[r] # None /\ store[gotStore[r]] \in Readable
       /\ store[r] # "absent" => store[r] = "ACTIVE" /\ r \in newStore

IInv ==
  /\ TypeOK
  /\ \A r \in Runs : BucketInv(r) /\ StoreInv(r) /\ ConnectorInv(r)

-------------------------------------------------------------------------------
(* The cloud keeps what is readable readable, what is active active, and what is *)
(* not there absent.                                                             *)
LEMMA CloudSteps ==
  ASSUME TypeOK, Cloud
  PROVE  /\ TypeOK'
         /\ bucket \in Readable => bucket' \in Readable
         /\ bucket = "ACTIVE" => bucket' = "ACTIVE"
         /\ \A c \in Creators :
              /\ store[c] \in Readable => store'[c] \in Readable
              /\ store[c] = "ACTIVE" => store'[c] = "ACTIVE"
              /\ store[c] = "absent" <=> store'[c] = "absent"
              /\ connector[c] = "absent" <=> connector'[c] = "absent"
         /\ UNCHANGED <<mode, pc, why, resultVars>>
BY DEF Cloud, Moves, TypeOK, State, Readable, resultVars

(* Every step of a run keeps the types. *)
LEMMA TypeStep ==
  ASSUME TypeOK, NEW r \in Runs, Run(r)
  PROVE  TypeOK'
<1> USE NamesAssumption DEF TypeOK, At, Goto, Fail, Creators, State, Points, Waits, Reasons, Listed,
                            Readable, cloudVars, resultVars
<1>1. CASE BucketLookup(r)
  BY <1>1 DEF BucketLookup
<1>2. CASE BucketCreate(r)
  BY <1>2 DEF BucketCreate
<1>3. CASE BucketPoll(r)
  BY <1>3 DEF BucketPoll
<1>4. CASE StoreLookup(r)
  BY <1>4 DEF StoreLookup
<1>5. CASE StoreCreate(r)
  BY <1>5 DEF StoreCreate
<1>6. CASE StorePoll(r)
  BY <1>6 DEF StorePoll
<1>7. CASE ConnectorSkipped(r)
  BY <1>7 DEF ConnectorSkipped
<1>8. CASE ConnectorLookup(r)
  BY <1>8 DEF ConnectorLookup
<1>9. CASE ConnectorCreate(r)
  BY <1>9 DEF ConnectorCreate
<1>10. CASE ConnectorPoll(r)
  BY <1>10 DEF ConnectorPoll, ReadAfterCreate
<1>11. CASE TimesOut(r)
  BY <1>11 DEF TimesOut
<1>12. CASE ApiError(r)
  BY <1>12 DEF ApiError
<1> QED
  BY <1>1, <1>2, <1>3, <1>4, <1>5, <1>6, <1>7, <1>8, <1>9, <1>10, <1>11, <1>12 DEF Run

(* Every step of a run keeps what every run can say of its resources. *)
LEMMA RunStep ==
  ASSUME IInv, NEW r \in Runs, Run(r), NEW q \in Runs
  PROVE  BucketInv(q)' /\ StoreInv(q)' /\ ConnectorInv(q)'
<1> USE NamesAssumption DEF IInv, TypeOK, At, Goto, Fail, Creators, Points, Waits, Listed, State,
          Readable, AtBucket, AtStore, AtConnector, BucketInv, StoreInv, ConnectorInv,
          cloudVars, resultVars
<1>1. CASE BucketLookup(r)
  BY <1>1 DEF BucketLookup
<1>2. CASE BucketCreate(r)
  BY <1>2 DEF BucketCreate
<1>3. CASE BucketPoll(r)
  BY <1>3 DEF BucketPoll
<1>4. CASE StoreLookup(r)
  BY <1>4 DEF StoreLookup
<1>5. CASE StoreCreate(r)
  BY <1>5 DEF StoreCreate
<1>6. CASE StorePoll(r)
  BY <1>6 DEF StorePoll
<1>7. CASE ConnectorSkipped(r)
  BY <1>7 DEF ConnectorSkipped
<1>8. CASE ConnectorLookup(r)
  BY <1>8 DEF ConnectorLookup
<1>9. CASE ConnectorCreate(r)
  BY <1>9 DEF ConnectorCreate
<1>10. CASE ConnectorPoll(r)
  BY <1>10 DEF ConnectorPoll, ReadAfterCreate
<1>11. CASE TimesOut(r)
  BY <1>11 DEF TimesOut
<1>12. CASE ApiError(r)
  BY <1>12 DEF ApiError
<1> QED
  BY <1>1, <1>2, <1>3, <1>4, <1>5, <1>6, <1>7, <1>8, <1>9, <1>10, <1>11, <1>12 DEF Run

(* The invariant holds of every reachable state. *)
THEOREM Invariant == Spec => []IInv
<1>1. Init => IInv
  BY NamesAssumption DEF Init, IInv, TypeOK, BucketInv, StoreInv, ConnectorInv, AtBucket, AtStore,
     AtConnector, Points, Reasons, Waits, Creators, State
<1>2. IInv /\ [Next]_vars => IInv'
  <2> SUFFICES ASSUME IInv, [Next]_vars  PROVE IInv'
    OBVIOUS
  <2>1. CASE Cloud
    <3>1. TypeOK'
      BY <2>1, CloudSteps DEF IInv
    <3>2. ASSUME NEW q \in Runs  PROVE BucketInv(q)' /\ StoreInv(q)' /\ ConnectorInv(q)'
      <4>1. q \in Creators /\ gotStore[q] \in Creators \cup {None}
        BY DEF IInv, TypeOK, Creators
      <4> QED
        BY <2>1, <4>1, CloudSteps
           DEF IInv, BucketInv, StoreInv, ConnectorInv, resultVars
    <3> QED
      BY <3>1, <3>2 DEF IInv
  <2>2. ASSUME NEW r \in Runs, Run(r)  PROVE IInv'
    BY <2>2, TypeStep, RunStep DEF IInv
  <2>3. CASE UNCHANGED vars
    BY <2>3 DEF vars, cloudVars, resultVars, IInv, TypeOK, BucketInv, StoreInv, ConnectorInv,
                Listed
  <2> QED
    BY <2>1, <2>2, <2>3 DEF Next
<1> QED
  BY <1>1, <1>2, PTL DEF Spec

(* A connector rests on a bucket and a vector store that are there, and active if new. *)
THEOREM ConnectorsRestOnReadyResources == Spec => []ConnectorRestsOnReadyResources
<1>1. IInv => ConnectorRestsOnReadyResources
  BY DEF IInv, BucketInv, StoreInv, ConnectorInv, ConnectorRestsOnReadyResources
<1> QED
  BY <1>1, Invariant, PTL

(* A run that is done has a connector that did not fail, and an active one if it is new. *)
THEOREM HandedOutConnectorsAreLive == Spec => HandedOutConnectorIsLive
<1>1. ASSUME IInv, Next, NEW q \in Runs, pc[q] # "done", pc'[q] = "done",
             mode[q].connector # "skip"
      PROVE  /\ gotConnector'[q] # None
             /\ connector[gotConnector'[q]] \in
                  (IF q \in newConnector' THEN {"ACTIVE"} ELSE {"ACTIVE", "CREATING"})
  <2>1. PICK r \in Runs : Run(r)
    BY <1>1 DEF Next, Cloud
  <2>2. r = q
    BY <1>1, <2>1 DEF IInv, TypeOK, Run, BucketLookup, BucketCreate, BucketPoll, StoreLookup,
       StoreCreate, StorePoll, ConnectorSkipped, ConnectorLookup, ConnectorCreate,
       ConnectorPoll, TimesOut, ApiError, Goto, Fail
  <2>3. ConnectorLookup(q) \/ ConnectorPoll(q)
    BY <1>1, <2>1, <2>2 DEF IInv, TypeOK, Run, BucketLookup, BucketCreate, BucketPoll,
       StoreLookup, StoreCreate, StorePoll, ConnectorSkipped, ConnectorCreate, TimesOut,
       ApiError, Goto, Fail
  <2>4. CASE ConnectorLookup(q)
    BY <1>1, <2>4, NamesAssumption
       DEF ConnectorLookup, IInv, TypeOK, Goto, Fail, Listed, Readable, Creators, At,
           ConnectorInv
  <2>5. CASE ConnectorPoll(q)
    BY <1>1, <2>5, NamesAssumption
       DEF ConnectorPoll, IInv, TypeOK, Goto, Fail, ReadAfterCreate, Listed, Readable, Creators
  <2> QED
    BY <2>3, <2>4, <2>5
<1>2. IInv /\ [Next]_vars =>
        [\A r \in Runs : pc[r] # "done" /\ pc'[r] = "done" /\ mode[r].connector # "skip" =>
           /\ gotConnector'[r] # None
           /\ connector[gotConnector'[r]] \in
                (IF r \in newConnector' THEN {"ACTIVE"} ELSE {"ACTIVE", "CREATING"})]_vars
  BY <1>1
<1> QED
  BY <1>2, Invariant, PTL DEF Spec, HandedOutConnectorIsLive

(* Type correctness, for every set of runs, of existing resources and of modes. *)
THEOREM TypeInvariant == Spec => []TypeOK
<1>1. IInv => TypeOK
  BY DEF IInv
<1> QED
  BY <1>1, Invariant, PTL

(* A lookup refuses only what the preflight of a dry run refuses in the same state. *)
THEOREM LookupsAgreeWithPreflight == Spec => LookupAgreesWithPreflight
<1>1. ASSUME IInv, Next, NEW q \in Runs, pc'[q] = "failed", why'[q] \in {"not_found", "failed_state"}
      PROVE  /\ At(q, "bucket_lookup") => ~PreflightBucket(q)
             /\ At(q, "store_lookup") => ~PreflightStore(q)
             /\ At(q, "connector_lookup") /\ (\A c, d \in Listed(connector) : c = d) =>
                  ~PreflightConnector(q)
  <2> SUFFICES ASSUME pc[q] \in {"bucket_lookup", "store_lookup", "connector_lookup"}
               PROVE  /\ At(q, "bucket_lookup") => ~PreflightBucket(q)
                      /\ At(q, "store_lookup") => ~PreflightStore(q)
                      /\ At(q, "connector_lookup") /\ (\A c, d \in Listed(connector) : c = d) =>
                           ~PreflightConnector(q)
    BY DEF At
  <2>1. PICK r \in Runs : Run(r)
    BY <1>1 DEF Next, Cloud
  <2>2. r = q
    BY <1>1, <2>1 DEF IInv, TypeOK, Run, BucketLookup, BucketCreate, BucketPoll, StoreLookup,
       StoreCreate, StorePoll, ConnectorSkipped, ConnectorLookup, ConnectorCreate,
       ConnectorPoll, TimesOut, ApiError, Goto, Fail
  <2>3. mode[q] \in AllModes
    BY <1>1, ModesAssumption DEF IInv, TypeOK
  <2>4. BucketLookup(q) \/ StoreLookup(q) \/ ConnectorLookup(q)
    BY <1>1, <2>1, <2>2 DEF IInv, TypeOK, Run, BucketCreate, BucketPoll, StoreCreate, StorePoll,
       ConnectorSkipped, ConnectorCreate, ConnectorPoll, TimesOut, ApiError, Goto, Fail, At
  <2>5. CASE BucketLookup(q)
    BY <1>1, <2>5 DEF BucketLookup, PreflightBucket, IInv, TypeOK, Goto, Fail, At
  <2>6. CASE StoreLookup(q)
    BY <1>1, <2>3, <2>6
       DEF StoreLookup, PreflightStore, IInv, TypeOK, Goto, Fail, At, Creators, Listed, AllModes
  <2>7. CASE ConnectorLookup(q)
    BY <1>1, <2>3, <2>7
       DEF ConnectorLookup, PreflightConnector, IInv, TypeOK, Goto, Fail, At, Creators, Listed,
           AllModes
  <2> QED
    BY <2>4, <2>5, <2>6, <2>7
<1>2. IInv /\ [Next]_vars =>
        [\A r \in Runs : pc'[r] = "failed" /\ why'[r] \in {"not_found", "failed_state"} =>
           /\ At(r, "bucket_lookup") => ~PreflightBucket(r)
           /\ At(r, "store_lookup") => ~PreflightStore(r)
           /\ At(r, "connector_lookup") /\ (\A c, d \in Listed(connector) : c = d) =>
                ~PreflightConnector(r)]_vars
  BY <1>1
<1> QED
  BY <1>2, Invariant, PTL DEF Spec, LookupAgreesWithPreflight
===============================================================================
