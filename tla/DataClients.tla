---------------------------- MODULE DataClients ----------------------------
(***************************************************************************)
(* The clients of crud/ and cache/ that talk to a store, in five parts:    *)
(* the search clients (Elasticsearch, OpenSearch), the database clients    *)
(* that wrap a driver (ClickHouse, MongoDB, InfluxDB, Cassandra, Doris),   *)
(* the helpers that run a function in a transaction, ClickHouse's batch    *)
(* inserter, and the key-value caches.                                     *)
(* The parts share no state; each has its own variables and specification. *)
(* Definitions named Mutant... are faulty variants of the one after them.  *)
(***************************************************************************)
EXTENDS Naturals, Sequences, FiniteSets, Functions

(***************************************************************************)
(* The search clients: what a method sends, what the server may answer     *)
(* (carry the request out, refuse it, not be reached, have its answer lost *)
(* or cut short) and what the method makes of the answer: the error it     *)
(* returns and whether it closes the body of the response.  Index creation *)
(* and deletion check first and act after, while another client may do the *)
(* same; the bulk methods send their items in chunks.  Contents of         *)
(* requests and answers are left out.                                      *)
(***************************************************************************)

CONSTANTS Documents,        \* 1 .. n: the items of a bulk call, in order
          MaxBatchSize      \* maxBatchSize

VARIABLES search,           \* the method called
          stage,            \* "check", "send" or "returned"
          index,            \* does the index exist on the server?
          rival,            \* has another client created or deleted it?
          executed,         \* did the server carry out this call's request?
          open,             \* responses whose body nobody has closed
          result,           \* "nil", "error" or "partial"
          sent,             \* items of the chunks sent so far
          encodable,        \* items that json can encode and that have an id
          indexed,          \* items the server stored
          failedIDs         \* PartialFailureError.FailedIDs

searchVars == <<search, stage, index, rival, executed, open, result, sent,
                encodable, indexed, failedIDs>>

(* A method: what it asks, who closes the body ("defer": the method on all *)
(* paths, "onError": only ParseErrorMessage, "library": the client         *)
(* library), whether an error status is returned as an error and whether   *)
(* the method itself decodes the answer.                                   *)
Request(api, kind, closes) ==
    [api |-> api, kind |-> kind, closes |-> closes, checks |-> TRUE, decodes |-> FALSE, chunks |-> FALSE]
Ask(api, closes) == [Request(api, "ask", closes) EXCEPT !.decodes = TRUE]
Tell(api, closes) == Request(api, "tell", closes)
Probe(api, closes) == Request(api, "exists", closes)
Create(api, closes) == Request(api, "createIndex", closes)
Drop(api, closes) == Request(api, "deleteIndex", closes)
Bulk(api, reads) == [Request(api, "bulk", IF reads THEN "defer" ELSE "library")
                     EXCEPT !.decodes = reads, !.chunks = reads]
Unchecked(m) == [m EXCEPT !.checks = FALSE]

(* crud/elasticsearch, in the order of the file.  A method that delegates  *)
(* to another one is recorded as what that one does.                       *)
ESIndexCalls == {
    Ask("ES.CheckConnectStatus", "defer"), Probe("ES.IndexExists", "defer"),
    Create("ES.CreateIndex", "onError"), Drop("ES.DeleteIndex", "onError")}
ESDocumentCalls == {Unchecked(Tell("ES.DeleteDocument", "defer")), Tell("ES.InsertDocument", "defer")}
ESBatchInsertDocument == Bulk("ES.BatchInsertDocument", TRUE)
ESMultiGet == Ask("ES.MultiGet", "defer")
ESBatchUpdateDocument == Bulk("ES.BatchUpdateDocument", TRUE)
ESBatchDeleteDocument == Bulk("ES.BatchDeleteDocument", TRUE)
ESUpdateCalls == {
    Tell("ES.UpdateByQuery", "defer"), Tell("ES.DeleteByQuery", "defer"),
    Unchecked(Tell("ES.UpdateDocument", "defer")), Ask("ES.GetDocument", "defer")}
ESSearchCalls == {Ask("ES.Search", "defer"), Ask("ES.search", "defer")}
ESTemplateCalls == {
    Tell("ES.CreateIndexTemplate", "defer"), Probe("ES.ExistsIndexTemplate", "defer"),
    Tell("ES.CreateILMPolicy", "defer"), Tell("ES.DeleteILMPolicy", "defer")}
ESQueryCalls == {
    Ask("ES.SearchWithHighlight", "defer"), Ask("ES.SearchBySQL", "defer"),
    Ask("ES.SearchBySQLTo", "defer")}
ESAliasCalls == {
    Tell("ES.CreateAlias", "defer"), Tell("ES.DeleteAlias", "defer"), Ask("ES.GetAlias", "defer"),
    Probe("ES.ExistsAlias", "defer"), Ask("ES.GetMapping", "defer")}
MutantPutMapping == Unchecked(Tell("ES.PutMapping", "defer"))
ESPutMapping == Tell("ES.PutMapping", "defer")
ESSettingsCalls == {
    Ask("ES.GetSettings", "defer"), Tell("ES.PutSettings", "defer"), Tell("ES.OpenIndex", "defer"),
    Tell("ES.CloseIndex", "defer"), Tell("ES.RefreshIndex", "defer"), Tell("ES.FlushIndex", "defer")}
ESScrollCalls == {
    Ask("ES.SearchWithBody", "defer"), Ask("ES.Count", "defer"), Ask("ES.SearchScroll", "defer"),
    Tell("ES.ClearScroll", "defer")}
ESClusterCalls == {
    Ask("ES.ClusterHealth", "defer"), Ask("ES.ClusterInfo", "defer"), Ask("ES.GetILMPolicy", "defer"),
    Tell("ES.CreateSnapshot", "defer"), Ask("ES.GetSnapshot", "defer")}
ESRepositoryCalls == {
    Tell("ES.DeleteSnapshot", "defer"), Tell("ES.CreateSnapshotRepository", "defer"),
    Tell("ES.DeleteSnapshotRepository", "defer"), Ask("ES.GetSnapshotRepository", "defer")}
ESVectorCalls == {
    Create("ES.CreateVectorIndex", "onError"), Ask("ES.KnnSearch", "defer"),
    Ask("ES.SearchWithKnn", "defer")}

(* crud/opensearch *)
OSIndexCalls == {
    Ask("OS.CheckConnectStatus", "library"), Probe("OS.IndexExists", "library"),
    Create("OS.CreateIndex", "library"), Drop("OS.DeleteIndex", "library")}
OSDocumentCalls == {Tell("OS.DeleteDocument", "library"), Tell("OS.InsertDocument", "library")}
OSBatchInsertDocument == Bulk("OS.BatchInsertDocument", FALSE)
OSMultiGet == Ask("OS.MultiGet", "library")
OSBatchUpdateDocument == Bulk("OS.BatchUpdateDocument", FALSE)
OSBatchDeleteDocument == Bulk("OS.BatchDeleteDocument", FALSE)
OSUpdateCalls == {
    Tell("OS.UpdateByQuery", "library"), Tell("OS.DeleteByQuery", "library"),
    Tell("OS.UpdateDocument", "library"), Ask("OS.GetDocument", "library")}
OSTemplateCalls == {
    Tell("OS.CreateIndexTemplate", "library"), Probe("OS.ExistsIndexTemplate", "library"),
    Tell("OS.DeleteIndexTemplate", "library"), Tell("OS.CreateComponentTemplate", "library"),
    Tell("OS.DeleteComponentTemplate", "library"), Probe("OS.ExistsComponentTemplate", "library")}
OSPolicyCalls == {Tell("OS.CreateISMPolicy", "defer"), Tell("OS.DeleteISMPolicy", "defer")}
OSSearchCalls == {Ask("OS.Search", "library"), Ask("OS.SearchWithHighlight", "library")}
OSQueryCalls == {
    Ask("OS.SearchBySQL", "defer"), Ask("OS.SearchBySQLTo", "defer"),
    Unchecked(Ask("OS.SQLToDSL", "defer")),
    Unchecked(Ask("OS.SearchBySQLWithHighlight", "defer"))}
OSPagingCalls == {
    Tell("OS.RefreshIndex", "defer"), Ask("OS.QueryWithSQLPagination", "defer"),
    Ask("OS.QueryWithSQLPaginationTo", "defer")}
OSAliasCalls == {
    Tell("OS.CreateAlias", "library"), Tell("OS.DeleteAlias", "library"), Ask("OS.GetAlias", "library"),
    Probe("OS.ExistsAlias", "library"), Ask("OS.GetMapping", "library"), Tell("OS.PutMapping", "library")}
OSSettingsCalls == {
    Ask("OS.GetSettings", "library"), Tell("OS.PutSettings", "library"), Tell("OS.OpenIndex", "library"),
    Tell("OS.CloseIndex", "library"), Tell("OS.FlushIndex", "library"), Ask("OS.SearchWithBody", "library")}
OSScrollCalls == {
    Ask("OS.Count", "library"), Ask("OS.SearchScroll", "library"), Tell("OS.ClearScroll", "library"),
    Ask("OS.ClusterHealth", "library"), Ask("OS.ClusterInfo", "library")}
OSSnapshotCalls == {
    Ask("OS.GetISMPolicy", "defer"), Tell("OS.CreateSnapshot", "library"),
    Ask("OS.GetSnapshot", "library"), Tell("OS.DeleteSnapshot", "library"),
    Tell("OS.CreateSnapshotRepository", "library")}
OSRepositoryCalls == {
    Tell("OS.DeleteSnapshotRepository", "library"), Ask("OS.GetSnapshotRepository", "library")}
OSVectorCalls == {
    Create("OS.CreateVectorIndex", "library"), Ask("OS.KnnSearch", "library"),
    Ask("OS.SearchWithKnn", "library")}

AllCalls ==
    ESIndexCalls \cup ESDocumentCalls \cup ESUpdateCalls \cup ESSearchCalls \cup ESTemplateCalls
    \cup ESQueryCalls \cup ESAliasCalls \cup ESSettingsCalls \cup ESScrollCalls \cup ESClusterCalls
    \cup ESRepositoryCalls \cup ESVectorCalls \cup OSIndexCalls \cup OSDocumentCalls
    \cup OSUpdateCalls \cup OSTemplateCalls \cup OSPolicyCalls \cup OSSearchCalls \cup OSQueryCalls
    \cup OSPagingCalls \cup OSAliasCalls \cup OSSettingsCalls \cup OSScrollCalls \cup OSSnapshotCalls
    \cup OSRepositoryCalls \cup OSVectorCalls
    \cup {ESBatchInsertDocument, ESMultiGet, ESBatchUpdateDocument, ESBatchDeleteDocument,
          ESPutMapping, OSBatchInsertDocument, OSMultiGet, OSBatchUpdateDocument,
          OSBatchDeleteDocument}

SearchInit ==
    /\ search \in AllCalls
    /\ stage = (IF search.kind \in {"createIndex", "deleteIndex"} THEN "check" ELSE "send")
    /\ index \in BOOLEAN
    /\ rival = FALSE
    /\ executed = FALSE
    /\ open = 0
    /\ result = "none"
    /\ sent = {}
    /\ encodable \in IF search.kind = "bulk" THEN SUBSET Documents ELSE {Documents}
    /\ indexed = {}
    /\ failedIDs = {}

Settle(r) == stage' = "returned" /\ result' = r

(* IndexExists inside CreateIndex and DeleteIndex: any error status counts *)
(* as "no such index".                                                     *)
CheckIndex ==
    /\ stage = "check"
    /\ \/ Settle("error")                                     \* not reached
       \/ \E found \in {index, FALSE} :
            IF found = (search.kind = "deleteIndex")
            THEN stage' = "send" /\ UNCHANGED result
            ELSE Settle("error")
    /\ UNCHANGED <<search, index, rival, executed, open, sent, encodable, indexed, failedIDs>>

(* Another client creates or deletes the index between the two requests.   *)
Rival ==
    /\ stage = "send"
    /\ search.kind \in {"createIndex", "deleteIndex"}
    /\ ~rival
    /\ rival' = TRUE
    /\ index' = ~index
    /\ UNCHANGED <<search, stage, executed, open, result, sent, encodable, indexed, failedIDs>>

(* How the body of a response that arrived is left.                        *)
Closed(refused) == \/ search.closes \in {"defer", "library"}
                   \/ search.closes = "onError" /\ refused /\ search.checks
Receive(refused) == open' = open + (IF Closed(refused) THEN 0 ELSE 1)

Unreachable == Settle("error") /\ UNCHANGED open
Refused == /\ Receive(TRUE)
           /\ Settle(IF search.checks /\ search.kind # "exists" THEN "error" ELSE "nil")
Accepted == /\ Receive(FALSE)
            /\ \/ Settle("nil")
               \/ search.decodes /\ Settle("error")            \* cut short

Acceptable == CASE search.kind = "createIndex" -> ~index
                [] search.kind = "deleteIndex" -> index
                [] OTHER -> TRUE

Send ==
    /\ stage = "send"
    /\ search.kind # "bulk"
    /\ \/ Unreachable /\ UNCHANGED <<index, executed>>
       \/ Refused /\ UNCHANGED <<index, executed>>
       \/ /\ Acceptable
          /\ executed' = TRUE
          /\ index' = (IF search.kind \in {"createIndex", "deleteIndex"} THEN ~index ELSE index)
          /\ Accepted \/ Unreachable                          \* answer lost
    /\ UNCHANGED <<search, rival, sent, encodable, indexed, failedIDs>>

(* One chunk of a bulk call.  Items that cannot be encoded, or have no id, *)
(* are skipped; the Elasticsearch methods look at every item's status.     *)
(* The OpenSearch ones send one chunk and do not; they write an item's     *)
(* meta line before they encode the item, so that a skipped item can spoil *)
(* its neighbours: any of them may be rejected.                            *)
Chunk == IF search.chunks
         THEN {i \in Documents \ sent : Cardinality({j \in Documents \ sent : j < i}) < MaxBatchSize}
         ELSE Documents \ sent
SendChunk ==
    /\ stage = "send"
    /\ search.kind = "bulk"
    /\ LET items == Chunk \cap encodable IN
       \/ /\ items = {}
          /\ \/ Settle("error")
             \/ ~search.decodes /\ Settle("nil")    \* meta lines without documents
          /\ UNCHANGED <<open, indexed, failedIDs, sent>>
       \/ /\ items # {}
          /\ sent' = sent \cup Chunk
          /\ \/ (Unreachable \/ Refused) /\ UNCHANGED <<indexed, failedIDs>>
             \/ \E rejected \in SUBSET items :
                  /\ indexed' = indexed \cup (items \ rejected)
                  /\ Receive(FALSE)
                  /\ \/ search.decodes /\ Settle("error") /\ UNCHANGED failedIDs
                     \/ /\ search.decodes /\ rejected # {}
                        /\ Settle("partial")
                        /\ failedIDs' = rejected
                     \/ /\ ~search.decodes \/ rejected = {}
                        /\ IF sent' = Documents THEN Settle("nil") ELSE UNCHANGED <<stage, result>>
                        /\ UNCHANGED failedIDs
    /\ UNCHANGED <<search, index, rival, executed, encodable>>

SearchNext == CheckIndex \/ Rival \/ Send \/ SendChunk
SearchSpec == SearchInit /\ [][SearchNext]_searchVars

(* The methods whose nil, or whose response, does not mean what it says    *)
(* (see the README): Elasticsearch CreateIndex and DeleteIndex keep the    *)
(* response open, DeleteDocument and UpdateDocument ignore the status, as  *)
(* do the two OpenSearch SQL helpers; OpenSearch bulks ignore item errors. *)
Quirks == {"ES.CreateIndex", "ES.DeleteIndex", "ES.CreateVectorIndex", "ES.DeleteDocument",
           "ES.UpdateDocument", "OS.SQLToDSL", "OS.SearchBySQLWithHighlight",
           "OS.BatchInsertDocument", "OS.BatchUpdateDocument", "OS.BatchDeleteDocument"}

(* When a method has returned, no response is left open; nil means that    *)
(* the server carried the request out (for CreateIndex: that this call     *)
(* created the index, although another client may have done so since the   *)
(* check, opensearch_client.go CreateIndex), for a bulk call that every    *)
(* item it sent is stored; a PartialFailureError names exactly the items   *)
(* sent and not stored (elasticsearch_client.go:371-389).                  *)
SearchCallsSettle ==
    (stage = "returned" /\ search.api \notin Quirks) =>
        /\ open = 0
        /\ (result = "nil" /\ search.kind \notin {"exists", "bulk"}) => executed
        /\ (result = "nil" /\ search.kind = "bulk") => indexed = Documents \cap encodable
        /\ result = "partial" => failedIDs = (sent \cap encodable) \ indexed

-----------------------------------------------------------------------------
(***************************************************************************)
(* The database clients.  One goroutine runs one method of a client,       *)
(* another one may Close the client meanwhile.  A method is the sequence   *)
(* of its steps:                                                           *)
(*   "guard"  the nil test of the driver field       "live"  Cassandra's   *)
(*            session.Closed() test as well                                *)
(*   "input"  arguments that are refused             "timer" a context     *)
(*            with the client's timeout, cancelled by a defer              *)
(*   "call"   the field is read again and the driver is asked              *)
(*   "cursor" the same, and the answer is a cursor closed by a defer       *)
(*   "stream" the same, and nobody in the method closes the cursor         *)
(*   "read"   the rows of the cursor are read                              *)
(*   "batch"  a batch is prepared    "append" the items are added to it    *)
(*   "send"   the items go to the server, in one piece                     *)
(*   "http"   the items go to the server past the driver                   *)
(***************************************************************************)

CONSTANT MaxItems   \* how many items an insert is given at most

VARIABLES client, method, bad,     \* the client, the method run, which item is malformed (0: none)
          field, driver,           \* the client's driver field; the driver itself
          at, held, applied,       \* the next step; what is open; items the server stored
          answer, crashed,
          closing, late, overlap   \* Close; the call began after Close; it met a Close

dbVars == <<client, method, bad, field, driver, at, held, applied, answer, crashed,
            closing, late, overlap>>

Method(name, steps) == [name |-> name, steps |-> steps]
Methods(names, steps) == {Method(name, steps) : name \in names}

\* ClickHouse: the field is never reset, and QueryRow has no nil test.
ClickHouseReads ==
  Methods({"version", "ping", "select", "exec"}, <<"guard", "call">>)
  \cup {Method("query", <<"guard", "input", "cursor", "read">>), Method("queryRow", <<"call">>)}
\* A malformed item (not a pointer, no tagged field) is refused.
prepareInsertData == "input"
ClickHouseInsert == Method("insert", <<"guard", prepareInsertData, "send">>)
\* Every item is prepared, and its columns compared with the first one's, before the
\* one statement is sent.
MutantInsertMany == Method("insertMany", <<"guard", "send", prepareInsertData>>)
ClickHouseInsertMany == Method("insertMany", <<"guard", prepareInsertData, "send">>)
\* asyncInsert tests the field again.
ClickHouseAsyncInserts ==
  Methods({"asyncInsert", "asyncInsertMany"}, <<"guard", prepareInsertData, "guard", "send">>)
ClickHouseBatches ==
  {Method("batchInsert", <<"guard", prepareInsertData, "batch", "append", "send">>),
   Method("batchStructs", <<"guard", "batch", "append", "send">>)}

\* MongoDB: every method runs under the client's own timeout.
MongoLookups == Methods({"ping", "findOne"}, <<"guard", "timer", "call">>)
MutantFind == Method("find", <<"timer", "cursor", "read">>)
MongoFind == Method("find", <<"guard", "timer", "cursor", "read">>)
MongoWrites ==
  {Method("aggregate", <<"guard", "timer", "cursor", "read">>)}
  \cup Methods({"insertOne", "insertMany"}, <<"guard", "timer", "send">>)
  \cup Methods({"updateOne", "updateMany"}, <<"guard", "timer", "call">>)
MongoOthers ==
  Methods({"findOneAndUpdate", "deleteOne", "deleteMany", "count", "exist"},
          <<"guard", "timer", "call">>)

\* InfluxDB: the helpers ExecInfluxQLQuery and WritePointsStrict test the field again.
\* WritePoints refuses points that cannot be converted before the first test of it.
InfluxCalls ==
  {Method("version", <<"guard", "call">>),
   Method("insert", <<"guard", "input", "guard", "send">>),
   Method("batchInsert", <<"guard", "guard", "send">>)}
  \cup Methods({"query", "queryParams"}, <<"guard", "guard", "stream">>)
InfluxHelpers ==
  {Method("sql", <<"guard", "stream">>), Method("writePoints", <<"input", "guard", "send">>)}
  \cup Methods({"count", "exist"}, <<"guard", "guard", "stream", "read">>)

\* Cassandra: a closed session is told from an open one; the field stays.
CassandraCalls ==
  {Method("exec", <<"live", "input", "call">>), Method("query", <<"live", "input", "stream">>)}
  \cup Methods({"execBatch", "execBatchBound"}, <<"live", "input", "send">>)

\* Doris: database/sql, most calls without a test.
DorisCalls ==
  {Method("query", <<"guard", "cursor", "read">>)}
  \cup Methods({"batchInsert", "insert"}, <<"input", "send">>)
  \cup Methods({"batchInsertStruct", "batchInsertProto"}, <<"input", "input", "send">>)
StreamLoad == Method("streamLoad", <<"input", "http">>)

ClientMethods == [
  clickhouse |-> ClickHouseReads \cup {ClickHouseInsert, ClickHouseInsertMany}
                 \cup ClickHouseAsyncInserts \cup ClickHouseBatches,
  mongodb |-> MongoLookups \cup {MongoFind} \cup MongoWrites \cup MongoOthers,
  influxdb |-> InfluxCalls \cup InfluxHelpers,
  cassandra |-> CassandraCalls,
  doris |-> DorisCalls \cup {StreamLoad}]

\* What Close leaves in the field when the driver closed without, and with, an error.
ClickHouseClose == [ok |-> "set", failed |-> "set"]
MongoClose == [ok |-> "nil", failed |-> "nil"]
InfluxClose == [ok |-> "nil", failed |-> "set"]
CassandraClose == [ok |-> "set", failed |-> "set"]
DorisClose == [ok |-> "set", failed |-> "set"]

ClientClose == [clickhouse |-> ClickHouseClose, mongodb |-> MongoClose, influxdb |-> InfluxClose,
                cassandra |-> CassandraClose, doris |-> DorisClose]

Steps == method.steps
Step == IF at \in 1..Len(Steps) THEN Steps[at] ELSE "end"

\* The methods an item can be malformed for: the others take typed arguments.
TakesItems ==
  \/ {"input", "append"} \cap Range(Steps) # {}
  \/ client = "mongodb" /\ "send" \in Range(Steps)

\* The client is built (the driver opened), or NewClient failed and there is no client.
ClientInit ==
  /\ client \in DOMAIN ClientMethods /\ method \in ClientMethods[client]
  /\ bad \in 0..MaxItems /\ (bad # 0 => TakesItems)
  /\ field = "set" /\ driver = "open"
  /\ at = 0 /\ held = {} /\ applied = 0 /\ answer = "none" /\ crashed = FALSE
  /\ closing = "no" /\ late = FALSE /\ overlap = FALSE

CallUnchanged == UNCHANGED <<client, method, bad, field, driver, closing, late>>

BeginCall ==
  /\ at = 0 /\ ~crashed
  /\ at' = 1 /\ late' = (closing = "done")
  /\ overlap' = (closing = "disconnecting")
  /\ UNCHANGED <<client, method, bad, field, driver, held, applied, answer, crashed, closing>>

\* The deferred cancel and cursor.Close run on every return.
Deferred == held \ {"timer", "cursor"}
ReturnCall(said) ==
  /\ answer' = said /\ held' = Deferred /\ at' = Len(Steps) + 1
Goes == answer = "none" /\ at' = at + 1 /\ UNCHANGED answer

Refuses(step) ==
  CASE step = "guard" -> field = "nil"
    [] step = "live"  -> field = "nil" \/ driver = "closed"
    [] step = "input" -> bad # 0
    [] step = "append" -> bad # 0
    [] OTHER -> FALSE

\* The steps that ask no server.
LocalStep ==
  /\ answer = "none" /\ ~crashed
  /\ Step \in {"guard", "live", "input", "timer", "append"}
  /\ IF Refuses(Step)
     THEN ReturnCall("error")
     ELSE Goes /\ held' = held \cup (IF Step = "timer" THEN {"timer"} ELSE {})
  /\ CallUnchanged /\ UNCHANGED <<applied, crashed, overlap>>

\* The steps that ask the server read the field again: nil here ends the process.
\* Mongo inserts the documents in order and stops at the first it refuses.
Stored(ok) ==
  IF Step # "send" THEN {0}
  ELSE IF client = "mongodb" /\ bad # 0 THEN {bad - 1}
  ELSE IF ok THEN {MaxItems} ELSE {0, MaxItems}
Opens == [cursor |-> "cursor", stream |-> "stream", batch |-> "batch"]
AskServer(ok) ==
  /\ answer = "none" /\ ~crashed
  /\ Step \in {"call", "cursor", "stream", "batch", "send", "read"}
  /\ IF field = "nil" /\ Step # "read"
     THEN crashed' = TRUE /\ UNCHANGED <<answer, held, at, applied>>
     ELSE /\ ok => driver = "open" /\ (Step = "send" => bad = 0)
          /\ \E n \in IF driver = "open" THEN Stored(ok) ELSE {0} : applied' = applied + n
          /\ IF ok
             THEN Goes /\ held' = (held \cup (IF Step \in DOMAIN Opens THEN {Opens[Step]} ELSE {}))
                                  \ (IF Step = "send" THEN {"batch"} ELSE {})
             ELSE ReturnCall("error")
          /\ UNCHANGED crashed
  /\ CallUnchanged /\ UNCHANGED overlap

\* Doris' stream load goes over HTTP and does not use the connection pool; the body of
\* the answer is closed by a defer.
LoadStream(ok) ==
  /\ answer = "none" /\ Step = "http"
  /\ IF ok THEN Goes /\ applied' = MaxItems ELSE ReturnCall("error") /\ applied' \in {0, MaxItems}
  /\ IF ok THEN UNCHANGED held ELSE TRUE
  /\ CallUnchanged /\ UNCHANGED <<crashed, overlap>>

EndCall ==
  /\ answer = "none" /\ ~crashed /\ Step = "end" /\ at > 0
  /\ ReturnCall("ok")
  /\ CallUnchanged /\ UNCHANGED <<applied, crashed, overlap>>

\* Close tests the field, closes the driver, and then may reset the field.
Disconnect ==
  /\ closing = "no" /\ field = "set"
  /\ closing' = "disconnecting" /\ driver' = "closed"
  /\ overlap' = (overlap \/ (at > 0 /\ answer = "none"))
  /\ UNCHANGED <<client, method, bad, field, at, held, applied, answer, crashed, late>>
ResetField(outcome) ==
  /\ closing = "disconnecting"
  /\ closing' = "done" /\ field' = ClientClose[client][outcome]
  /\ UNCHANGED <<client, method, bad, driver, at, held, applied, answer, crashed, late, overlap>>

ClientNext ==
  \/ BeginCall \/ LocalStep \/ EndCall
  \/ \E ok \in BOOLEAN : AskServer(ok) \/ LoadStream(ok)
  \/ Disconnect
  \/ \E outcome \in {"ok", "failed"} : ResetField(outcome)

ClientSpec == ClientInit /\ [][ClientNext]_dbVars

ClientTypeOK ==
  /\ client \in DOMAIN ClientMethods /\ method \in ClientMethods[client] /\ bad \in 0..MaxItems
  /\ field \in {"set", "nil"} /\ driver \in {"open", "closed"}
  /\ at \in Nat /\ held \subseteq {"timer", "cursor", "stream", "batch"}
  /\ applied \in Nat /\ answer \in {"none", "ok", "error"} /\ crashed \in BOOLEAN
  /\ closing \in {"no", "disconnecting", "done"} /\ late \in BOOLEAN /\ overlap \in BOOLEAN

\* A batch with a malformed item is refused as a whole before anything is stored, except
\* by MongoDB, whose server keeps the documents before it (crud/clickhouse/client.go:333-349,
\* crud/doris/client.go:158-163, crud/mongodb/client.go:160-176).  A call that answers nil
\* found every item well-formed and stored all of them.  A returning call leaves no timer
\* and no cursor of its own behind (the deferred cancel and Close of
\* crud/mongodb/client.go:105-119).  A call that begins after Close has returned is
\* answered with an error and stores nothing, and a call can die on the reset field only
\* if a Close ran during it, in the clients that reset it (crud/mongodb/client.go:63).
ClientCallsAreWhole ==
  /\ answer = "ok" /\ "send" \in Range(Steps) => bad = 0 /\ applied = MaxItems
  /\ bad # 0 /\ client # "mongodb" => applied = 0
  /\ answer # "none" => held \cap {"timer", "cursor"} = {}
  /\ late /\ method.name # "streamLoad" => answer # "ok" /\ applied = 0 /\ ~crashed
  /\ crashed => overlap /\ client \in {"mongodb", "influxdb"}

-----------------------------------------------------------------------------
(***************************************************************************)
(* The helpers that run a caller's function inside a transaction or on a   *)
(* connection of its own: Doris' WithTx, WithTxWithSession, RunWithSession *)
(* and Entgo's MakeTxCleanup, over a pool of connections (database/sql).   *)
(* Each runner drives one helper; every step may fail, and the function    *)
(* may return nil, return an error or panic.                               *)
(***************************************************************************)

CONSTANTS Runners, Conns, MaxRuns, None

\* None stands for "nobody" and "nothing yet": it is neither a runner, a connection nor an
\* outcome.

VARIABLES run,        \* runner -> [helper, at, conn, body, ended, answer, saw]
          conn,       \* connection -> [user, tx, vars]
          runs        \* how many helpers have been called

txVars == <<run, conn, runs>>

\* What a helper sets up and how it ends.  onError, onPanic, onNil: what the transaction
\* is told when the function returns an error, panics, returns nil; "none" where there is
\* no transaction.  tells: whether a failed Commit reaches the caller.  session: the
\* session variables are set first.
WithTx == [name |-> "WithTx", session |-> FALSE, tx |-> TRUE,
           onError |-> "rollback", onPanic |-> "rollback", onNil |-> "commit", tells |-> TRUE]
RunInTx == WithTx
MutantWithTxWithSession ==
  [name |-> "WithTxWithSession", session |-> TRUE, tx |-> TRUE,
   onError |-> "rollback", onPanic |-> "none", onNil |-> "commit", tells |-> TRUE]
WithTxWithSession ==
  [name |-> "WithTxWithSession", session |-> TRUE, tx |-> TRUE,
   onError |-> "rollback", onPanic |-> "rollback", onNil |-> "commit", tells |-> TRUE]
WithSessionConn == [name |-> "WithSessionConn", session |-> TRUE, tx |-> FALSE,
                    onError |-> "none", onPanic |-> "none", onNil |-> "none", tells |-> TRUE]
\* The variable names are tested before a connection is taken.
RunWithSession == [name |-> "RunWithSession", session |-> TRUE, tx |-> FALSE,
                   onError |-> "none", onPanic |-> "none", onNil |-> "none", tells |-> TRUE]
\* Entgo: the cleanup is deferred by the caller, with or without the address of its error.
MakeTxCleanup ==
  {[name |-> "cleanup", session |-> FALSE, tx |-> TRUE,
    onError |-> "rollback", onPanic |-> "rollback", onNil |-> "commit", tells |-> TRUE],
   [name |-> "cleanupNil", session |-> FALSE, tx |-> TRUE,
    onError |-> "commit", onPanic |-> "rollback", onNil |-> "commit", tells |-> FALSE]}

AllHelpers == {WithTx, WithTxWithSession, WithSessionConn, RunWithSession} \cup MakeTxCleanup

NoRun == [helper |-> None, at |-> "idle", conn |-> None, body |-> None,
          ended |-> None, answer |-> None, saw |-> FALSE]
FreeConn == [user |-> None, tx |-> FALSE, vars |-> FALSE]

TxInit ==
  /\ run = [r \in Runners |-> NoRun]
  /\ conn = [c \in Conns |-> FreeConn]
  /\ runs = 0

SetRun(r, rec) == run' = [run EXCEPT ![r] = rec]
\* Returning puts the connection back as it is: the pool does not reset what SET SESSION
\* changed.  An error of the pool's own Close is not modelled: it means "already closed".
TxReturn(r, said, ended) ==
  /\ SetRun(r, [run[r] EXCEPT !.at = "done", !.answer = said, !.ended = ended])
  /\ conn' = IF run[r].conn = None THEN conn
             ELSE [conn EXCEPT ![run[r].conn] = [@ EXCEPT !.user = None, !.tx = FALSE]]

CallHelper(r, h) ==
  /\ run[r].at \in {"idle", "done"} /\ runs < MaxRuns
  /\ runs' = runs + 1
  /\ SetRun(r, [NoRun EXCEPT !.helper = h, !.at = "acquire"])
  /\ UNCHANGED conn

\* isSafeIdent and formatSessionValue: a name that is no identifier is refused, by
\* RunWithSession before the connection is taken, by BeginTxWithSession after.
Acquire(r) ==
  /\ run[r].at = "acquire"
  /\ \E c \in Conns :
       /\ conn[c].user = None
       /\ conn' = [conn EXCEPT ![c].user = r]
       /\ SetRun(r, [run[r] EXCEPT !.conn = c,
                                   !.at = IF run[r].helper.session THEN "vars" ELSE "begin"])
  /\ UNCHANGED runs
AcquireFails(r) ==
  /\ run[r].at = "acquire"
  /\ TxReturn(r, "error", None)
  /\ UNCHANGED runs

\* The session statements run on the connection that was taken; a failing one returns.
SetSessionVars(r, ok) ==
  /\ run[r].at = "vars"
  /\ IF ok
     THEN /\ SetRun(r, [run[r] EXCEPT !.at = IF run[r].helper.tx THEN "begin" ELSE "body"])
          /\ conn' = [conn EXCEPT ![run[r].conn].vars = TRUE]
     ELSE \E vars \in {conn[run[r].conn].vars, TRUE} :
          /\ SetRun(r, [run[r] EXCEPT !.at = "done", !.answer = "error"])
          /\ conn' = [conn EXCEPT ![run[r].conn] = [@ EXCEPT !.user = None, !.vars = vars]]
  /\ UNCHANGED runs

BeginTx(r, ok) ==
  /\ run[r].at = "begin"
  /\ IF ok
     THEN /\ SetRun(r, [run[r] EXCEPT !.at = "body"])
          /\ conn' = [conn EXCEPT ![run[r].conn].tx = TRUE]
     ELSE TxReturn(r, "error", None)
  /\ UNCHANGED runs

\* The caller's function.
Body(r, body) ==
  /\ run[r].at = "body"
  /\ SetRun(r, [run[r] EXCEPT !.at = "end", !.body = body, !.saw = conn[run[r].conn].vars])
  /\ UNCHANGED <<conn, runs>>

Ends(r) ==
  CASE run[r].body = "nil" -> run[r].helper.onNil
    [] run[r].body = "error" -> run[r].helper.onError
    [] run[r].body = "panic" -> run[r].helper.onPanic

\* TxWithConn.Commit and Rollback close the connection whatever the transaction answered.
\* A transaction whose Commit or Rollback failed is over for the pool as well.
Finish(r, ok) ==
  /\ run[r].at = "end"
  /\ (Ends(r) = "none" => ok)
  /\ LET told == IF Ends(r) = "commit" /\ ~ok THEN "commitFailed" ELSE Ends(r)
         said == CASE run[r].body = "panic" -> "panic"
                   [] run[r].body = "error" -> "error"
                   [] OTHER -> IF ok \/ ~run[r].helper.tells THEN "nil" ELSE "error"
     IN IF Ends(r) = "none" /\ run[r].helper.tx
        THEN \* nothing ends the transaction: the connection stays taken
             SetRun(r, [run[r] EXCEPT !.at = "done", !.answer = said]) /\ UNCHANGED conn
        ELSE TxReturn(r, said, told)
  /\ UNCHANGED runs

TxNext ==
  \E r \in Runners :
     \/ \E h \in AllHelpers : CallHelper(r, h)
     \/ Acquire(r) \/ AcquireFails(r)
     \/ \E ok \in BOOLEAN : SetSessionVars(r, ok) \/ BeginTx(r, ok) \/ Finish(r, ok)
     \/ \E b \in {"nil", "error", "panic"} : Body(r, b)

TxSpec == TxInit /\ [][TxNext]_txVars

TxTypeOK ==
  /\ runs \in 0..MaxRuns
  /\ \A r \in Runners : run[r].conn \in Conns \cup {None}
  /\ \A c \in Conns : conn[c].user \in Runners \cup {None}

\* Whatever fails, a helper that has returned has given its connection back with no
\* transaction open on it, and two runners never hold one connection.  A function that
\* failed is never committed, and a nil answer means that Commit succeeded; the one
\* exception is the cleanup without an error pointer, which commits on every return that
\* is not a panic and keeps a failed Commit to itself.  The function of a session helper
\* runs on a connection that has the session variables.
\* (crud/doris/client.go:223-247, 302-390, crud/doris/conn.go:16-45,
\*  crud/entgo/client.go:150-195)
TransactionsEnd ==
  /\ \A c \in Conns : conn[c].user = None => ~conn[c].tx
  /\ \A r \in Runners :
       /\ run[r].at = "done" => \A c \in Conns : conn[c].user # r
       /\ run[r].conn # None /\ run[r].at # "done" => conn[run[r].conn].user = r
       /\ run[r].at = "done" /\ run[r].helper.name # "cleanupNil" =>
            /\ run[r].body \in {"error", "panic"} => run[r].ended \notin {"commit", "commitFailed"}
            /\ run[r].answer = "nil" => run[r].ended = "commit" \/ ~run[r].helper.tx
            /\ run[r].ended = "commit" => run[r].answer = "nil"
       /\ run[r].at = "end" /\ run[r].helper.session => run[r].saw

-----------------------------------------------------------------------------
(***************************************************************************)
(* ClickHouse's BatchInserter: Add buffers a row and flushes when the      *)
(* buffer is full, Flush sends it, Close sends it and then cancels the     *)
(* context.  The three hold the mutex, so each is one step, except that    *)
(* Close gives the mutex back before its deferred cancel runs.             *)
(***************************************************************************)

CONSTANTS InsertedRows,    \* the rows the callers add, in any order
          MalformedRows,   \* those of them that lack a column
          BatchSize,       \* positive: NewBatchInserter replaces any other (crud/clickhouse/batch.go:36-38)
          MaxSendFaults, MaxAdds

VARIABLES rows, ctx,       \* the buffer; the context
          kept,            \* what the server holds, in the order it came
          told,            \* row -> what Add said: "none", "nil", "error", "refused"
          adds,            \* row -> how often it was added
          closer, closed,  \* where Close is; the rows it had to send, and its answer
          hidden, faults   \* batches stored although Send failed; faults so far

inserterVars == <<rows, ctx, kept, told, adds, closer, closed, hidden, faults>>

InserterInit ==
  /\ rows = <<>> /\ ctx = "live" /\ kept = <<>>
  /\ told = [r \in InsertedRows |-> "none"] /\ adds = [r \in InsertedRows |-> 0]
  /\ closer = "open" /\ closed = [rows |-> {}, answer |-> "none"]
  /\ hidden = 0 /\ faults = 0

\* A row is appended if every column has a field (tag "ch", tag "json" or the name).
appendStructToBatch(item) == item \notin MalformedRows

\* The outcomes of flush on a buffer: what is left, what the server gets, whether Send
\* hid a success, the answer, and the faults it took.
Outcome(left, out, hid, said, f) ==
  [left |-> left, sent |-> out, hid |-> hid, answer |-> said, faults |-> f]
MutantFlush(buffer) ==
  IF buffer = <<>> THEN {Outcome(<<>>, <<>>, 0, "nil", 0)}
  ELSE {Outcome(<<>>, <<>>, 0, "error", 1), Outcome(<<>>, buffer, 0, "nil", 0)}
flush(buffer) ==
  IF buffer = <<>> THEN {Outcome(<<>>, <<>>, 0, "nil", 0)}
  ELSE IF ctx = "cancelled" THEN {Outcome(buffer, <<>>, 0, "error", 0)}
  ELSE \* PrepareBatch fails, or one row cannot be appended: nothing is sent
       {Outcome(buffer, <<>>, 0, "error", 1)} \cup
       (IF \E i \in DOMAIN buffer : ~appendStructToBatch(buffer[i])
        THEN {Outcome(buffer, <<>>, 0, "error", 0)}
        ELSE \* Send fails after or before the server took the batch, or succeeds
             {Outcome(buffer, buffer, 1, "error", 1), Outcome(<<>>, buffer, 0, "nil", 0)})

Settled(o) ==
  /\ faults + o.faults <= MaxSendFaults
  /\ rows' = o.left /\ kept' = kept \o o.sent
  /\ hidden' = hidden + o.hid /\ faults' = faults + o.faults

\* A caller whose Add failed may add the row again.
Add(item) ==
  /\ adds[item] < MaxAdds /\ told[item] \in {"none", "error"}
  /\ adds' = [adds EXCEPT ![item] = @ + 1]
  /\ IF ctx = "cancelled"
     THEN /\ told' = [told EXCEPT ![item] = "refused"]
          /\ UNCHANGED <<rows, kept, hidden, faults>>
     ELSE LET buffer == Append(rows, item) IN
          IF Len(buffer) < BatchSize
          THEN /\ rows' = buffer /\ told' = [told EXCEPT ![item] = "nil"]
               /\ UNCHANGED <<kept, hidden, faults>>
          ELSE \E o \in flush(buffer) :
                 Settled(o) /\ told' = [told EXCEPT ![item] = o.answer]
  /\ UNCHANGED <<ctx, closer, closed>>

Flush ==
  /\ \E o \in flush(rows) : Settled(o)
  /\ UNCHANGED <<ctx, told, adds, closer, closed>>

CloseInserter ==
  /\ closer = "open"
  /\ \E o \in flush(rows) :
       Settled(o) /\ closed' = [rows |-> Range(rows), answer |-> o.answer]
  /\ closer' = "unlocked"
  /\ UNCHANGED <<ctx, told, adds>>
CancelContext ==
  /\ closer = "unlocked"
  /\ closer' = "closed" /\ ctx' = "cancelled"
  /\ UNCHANGED <<rows, kept, told, adds, closed, hidden, faults>>

InserterNext ==
  \/ \E item \in InsertedRows : Add(item)
  \/ Flush \/ CloseInserter \/ CancelContext

InserterSpec == InserterInit /\ [][InserterNext]_inserterVars

InserterTypeOK ==
  /\ rows \in Seq(InsertedRows) /\ kept \in Seq(InsertedRows) /\ ctx \in {"live", "cancelled"}
  /\ told \in [InsertedRows -> {"none", "nil", "error", "refused"}]
  /\ closer \in {"open", "unlocked", "closed"} /\ hidden \in Nat /\ faults \in 0..MaxSendFaults

Copies(item) == Cardinality({i \in DOMAIN kept : kept[i] = item})

\* No row that Add took is lost: it is on the server or still in the buffer, also when a
\* flush failed, and Close leaves none of the rows it found behind when it answers nil
\* (crud/clickhouse/batch.go:100-137).  A row is stored more often than it was added only
\* if a Send failed although the server had the batch.  A batch with a row that lacks a
\* column is never sent, so no such row reaches the server.  The buffer outgrows its size
\* only after a flush has failed.
RowsAreKept ==
  /\ \A r \in InsertedRows :
       /\ told[r] \in {"nil", "error"} => r \in Range(rows) \cup Range(kept)
       /\ Copies(r) <= adds[r] * (hidden + 1)
       /\ r \in MalformedRows => r \notin Range(kept)
  /\ closed.answer = "nil" => closed.rows \subseteq Range(kept)
  /\ faults = 0 /\ Range(rows) \cap MalformedRows = {} /\ ctx = "live" => Len(rows) < BatchSize

-----------------------------------------------------------------------------
(***************************************************************************)
(* cache/local (FreeCache) and cache/redis behind the one Cache interface: *)
(* Get, Has, Set, SetNX, Delete, GetMulti, SetMulti and Close, called by   *)
(* several goroutines.  Time is counted in half seconds; FreeCache expires *)
(* in whole seconds.                                                       *)
(***************************************************************************)

CONSTANTS StoreCallers, \* goroutines that use the cache
          StoreKeys,
          Ttls,         \* time to live arguments, in half seconds
          MaxTime,      \* bound on the clock
          MaxCalls      \* bound on the calls

VARIABLES store,        \* "local" or "redis"
          defaultTTL,   \* the option of cache/local, 0 when not given
          now, calls,
          entry,        \* key -> [by, until]: who stored it, when it expires (0: never), or Empty
          busy,         \* per caller: the call under way
          lives,        \* key -> the callers whose SetNX won since the key was last free
          crossed       \* keys two SetNX of which overlapped

storeVars == <<store, defaultTTL, now, calls, entry, busy, lives, crossed>>

Empty == [by |-> "none", until |-> 0, due |-> 0]
Rest == [pc |-> "rest", keys |-> <<>>, ttl |-> 0, answer |-> <<>>, err |-> "nil"]

StoreInit ==
    /\ store \in {"local", "redis"}
    /\ defaultTTL \in (IF store = "local" THEN {0} \cup Ttls ELSE {0})
    /\ now = 1 /\ calls = 0
    /\ entry = [k \in StoreKeys |-> Empty]
    /\ busy = [c \in StoreCallers |-> Rest]
    /\ lives = [k \in StoreKeys |-> {}] /\ crossed = {}

Live(k) == entry[k] # Empty /\ (entry[k].until = 0 \/ now < entry[k].until)

(* When an entry stored now expires.  local: no ttl is the default one, and*)
(* both are cut to whole seconds, 0 of which never expire.  redis keeps    *)
(* the ttl.  due: when the caller was told it would, 0 for never.          *)
LocalTTL(ttl) == IF ttl = 0 THEN defaultTTL ELSE ttl
Until(d) == IF d = 0 THEN 0 ELSE now + d
LocalSet(c, ttl) == LET d == LocalTTL(ttl) IN [by |-> c, until |-> Until(2 * (d \div 2)), due |-> Until(d)]
RedisSet(c, ttl) == [by |-> c, until |-> Until(ttl), due |-> Until(ttl)]
Entry(c, ttl) == IF store = "local" THEN LocalSet(c, ttl) ELSE RedisSet(c, ttl)

Counted == calls < MaxCalls /\ calls' = calls + 1
Same == UNCHANGED <<store, defaultTTL, now>>

(* SetNX: one command for redis; Get, then Set for local.                  *)
Won(k, c) == lives' = [lives EXCEPT ![k] = (IF Live(k) THEN @ ELSE {}) \cup {c}]
RedisSetNX(c) ==
    /\ store = "redis" /\ busy[c].pc = "rest" /\ Counted /\ Same
    /\ \E k \in StoreKeys, ttl \in Ttls \cup {0} :
        IF Live(k) THEN UNCHANGED <<entry, lives>>
        ELSE Won(k, c) /\ entry' = [entry EXCEPT ![k] = Entry(c, ttl)]
    /\ UNCHANGED <<busy, crossed>>
LocalSetNXCheck(c) ==
    /\ store = "local" /\ busy[c].pc = "rest" /\ Counted /\ Same
    /\ \E k \in StoreKeys, ttl \in Ttls \cup {0} :
        /\ ~Live(k)
        /\ busy' = [busy EXCEPT ![c] = [Rest EXCEPT !.pc = "setnx", !.keys = <<k>>, !.ttl = ttl]]
        /\ crossed' = IF \E d \in StoreCallers : busy[d].pc = "setnx" /\ busy[d].keys = <<k>> THEN crossed \cup {k} ELSE crossed
    /\ UNCHANGED <<entry, lives>>
LocalSetNXSet(c) ==
    /\ busy[c].pc = "setnx" /\ Same
    /\ LET k == busy[c].keys[1]
       IN Won(k, c) /\ entry' = [entry EXCEPT ![k] = Entry(c, busy[c].ttl)]
    /\ busy' = [busy EXCEPT ![c] = Rest] /\ UNCHANGED <<calls, crossed>>

(* SetMulti sets one item after the other, a redis pipeline too: others may*)
(* come between.  An item that fails ends the call for local, while redis  *)
(* carries on or has lost the connection.  Set is SetMulti of one item.    *)
KeyLists == UNION {{s \in [1 .. n -> StoreKeys] : \A i, j \in 1 .. n : s[i] = s[j] => i = j} :
                      n \in 1 .. Cardinality(StoreKeys)}
BeginSetMulti(c) ==
    /\ busy[c].pc = "rest" /\ Counted /\ Same
    /\ \E ks \in KeyLists : busy' = [busy EXCEPT ![c] = [Rest EXCEPT !.pc = "set", !.keys = ks]]
    /\ UNCHANGED <<entry, lives, crossed>>
SetMulti(c) ==
    /\ busy[c].pc = "set" /\ Same
    /\ LET k == Head(busy[c].keys)
           next == IF Len(busy[c].keys) = 1 THEN Rest ELSE [busy[c] EXCEPT !.keys = Tail(@)]
       IN \/ /\ \E ttl \in Ttls \cup {0} : entry' = [entry EXCEPT ![k] = Entry(c, ttl)]
             /\ lives' = [lives EXCEPT ![k] = {}]
             /\ busy' = [busy EXCEPT ![c] = next]
          \/ /\ \E b \in IF store = "local" THEN {Rest} ELSE {Rest, next} : busy' = [busy EXCEPT ![c] = b]
             /\ UNCHANGED <<entry, lives>>
    /\ UNCHANGED <<calls, crossed>>
Delete(c) ==
    /\ busy[c].pc = "rest" /\ Counted /\ Same
    /\ \E k \in StoreKeys : entry' = [entry EXCEPT ![k] = Empty] /\ lives' = [lives EXCEPT ![k] = {}]
    /\ UNCHANGED <<busy, crossed>>
(* Close empties the local cache; the redis client is the caller's.        *)
LocalClose ==
    /\ store = "local" /\ Counted /\ Same
    /\ entry' = [k \in StoreKeys |-> Empty] /\ lives' = [k \in StoreKeys |-> {}]
    /\ UNCHANGED <<busy, crossed>>

(* GetMulti: key by key for local, one MGET for redis; the answers stand   *)
(* at the place of their key, and ErrNotFound says one is missing.  Get    *)
(* and Has are GetMulti of one key.                                        *)
BeginGetMulti(c) ==
    /\ busy[c].pc = "rest" /\ Counted /\ Same
    /\ \E ks \in {s \in KeyLists : Len(s) = Cardinality(StoreKeys)} :
        busy' = [busy EXCEPT ![c] = [Rest EXCEPT !.pc = "get", !.keys = ks]]
    /\ UNCHANGED <<entry, lives, crossed>>
Found(k) == IF Live(k) THEN entry[k].by ELSE "nil"
MutantLocalGetMulti(c) ==
    /\ LET k == busy[c].keys[Len(busy[c].answer) + 1]
       IN busy' = [busy EXCEPT ![c].answer = IF Live(k) THEN Append(@, Found(k)) ELSE @,
                           ![c].err = IF Live(k) THEN @ ELSE "ErrNotFound",
                           ![c].keys = IF Live(k) THEN @ ELSE SelectSeq(@, LAMBDA x : x # k)]
LocalGetMulti(c) ==
    /\ LET k == busy[c].keys[Len(busy[c].answer) + 1]
       IN busy' = [busy EXCEPT ![c].answer = Append(@, Found(k)), ![c].err = IF Live(k) THEN @ ELSE "ErrNotFound"]
RedisGetMulti(c) ==
    busy' = [busy EXCEPT ![c].answer = [i \in DOMAIN busy[c].keys |-> Found(busy[c].keys[i])],
                     ![c].err = IF \A i \in DOMAIN busy[c].keys : Live(busy[c].keys[i]) THEN "nil" ELSE "ErrNotFound"]
GetMulti(c) ==
    /\ busy[c].pc = "get" /\ Len(busy[c].answer) < Len(busy[c].keys)
    /\ IF store = "local" THEN LocalGetMulti(c) ELSE RedisGetMulti(c)
    /\ UNCHANGED <<store, defaultTTL, now, calls, entry, lives, crossed>>
Return(c) ==
    /\ busy[c].pc = "get" /\ Len(busy[c].answer) = Len(busy[c].keys)
    /\ busy' = [busy EXCEPT ![c] = Rest]
    /\ UNCHANGED <<store, defaultTTL, now, calls, entry, lives, crossed>>

Tick == now < MaxTime /\ now' = now + 1 /\ UNCHANGED <<store, defaultTTL, calls, entry, busy, lives, crossed>>

StoreNext ==
    \/ Tick \/ LocalClose
    \/ \E c \in StoreCallers :
        \/ RedisSetNX(c) \/ LocalSetNXCheck(c) \/ LocalSetNXSet(c) \/ Delete(c)
        \/ BeginSetMulti(c) \/ SetMulti(c)
        \/ BeginGetMulti(c) \/ GetMulti(c) \/ Return(c)
StoreSpec == StoreInit /\ [][StoreNext]_storeVars

(* A key won by SetNX has one winner until it is freed, except when two    *)
(* SetNX of the local cache overlapped (cache/local/local.go:82-104); an   *)
(* entry is gone when its time is up, except one of the local cache whose  *)
(* time is under a second, which stays (cache/local/local.go:71); and      *)
(* GetMulti puts every answer at the place of its key, with ErrNotFound    *)
(* exactly when one is missing (cache/redis/redis.go:92-131).              *)
StoreKeepsItsWord ==
    /\ \A k \in StoreKeys : \A c, d \in lives[k] : c # d => store = "local" /\ k \in crossed
    /\ \A k \in StoreKeys : Live(k) /\ entry[k].due # 0 /\ now >= entry[k].due =>
            store = "local" /\ entry[k].until = 0
    /\ \A c \in StoreCallers : busy[c].pc = "get" /\ Len(busy[c].answer) = Len(busy[c].keys) =>
            /\ Len(busy[c].answer) = Cardinality(StoreKeys)
            /\ (busy[c].err = "ErrNotFound") = (\E i \in DOMAIN busy[c].answer : busy[c].answer[i] = "nil")
=============================================================================
