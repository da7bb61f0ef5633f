----------------------------- MODULE Repository -----------------------------
(***************************************************************************)
(* The generic repositories of crud/: gorm, entgo, mongodb, clickhouse,    *)
(* doris, influxdb, cassandra, neo4j, qdrant, milvus and weaviate.  Every  *)
(* method is the sequence of statements it sends to its database, together *)
(* with what it does on the client before and after them; one call runs    *)
(* its statements one by one while another session may write a row in      *)
(* between (Interfere) and the connection may fail (Break).                *)
(*                                                                         *)
(* A row is its tenant, one column (value), a deleted_at mark and the      *)
(* number of copies stored under its key; the filter of a request selects  *)
(* the rows whose value is Wanted, an update writes Updated.  Conversion   *)
(* of columns, masks and DTOs is left out.  Definitions named Mutant...    *)
(* are faulty variants of the one after them.                              *)
(***************************************************************************)
EXTENDS Naturals, FiniteSets, Sequences, FiniteSetsExt

CONSTANTS MaxWrites,        \* rows other sessions write during the call
          MaxBreaks,        \* statements lost to the connection
          PageSize,         \* rows of the requested page
          NoPagingMaxLimit  \* paginator.NoPagingMaxLimit

VARIABLES repo,             \* the repository called
          method,           \* its method
          request,          \* viewer, key (two in a batch), paging, filter
          table,            \* the rows of the database
          lazy,             \* ALTER TABLE ... UPDATE accepted, not yet applied
          pc,               \* the next statement; 0 once the call returned
          seen,             \* keys a preliminary read selected
          answer,           \* what the method will return
          before,           \* the table when the call began
          written,          \* keys other sessions wrote since
          breaks            \* statements lost

repoVars == <<repo, method, request, table, lazy, pc, seen, answer, before,
              written, breaks>>

Ids == 1 .. 6
Wanted == 1
Updated == 2
Platform == 0                             \* a platform or system view
Missing == 9                              \* no viewer in the context
Tenants == {1, 2}
Row(t) == [copies |-> 1, tenant |-> t, value |-> Wanted, deleted |-> FALSE]
NoRow == [copies |-> 0, tenant |-> Platform, value |-> 0, deleted |-> FALSE]
StartTable == <<Row(1), Row(2), Row(1), [Row(1) EXCEPT !.value = 3], NoRow, NoRow>>

-----------------------------------------------------------------------------
(* Statements.  own: the statement carries the viewer's tenant             *)
(* (EnforceTenant and its injectors); without a viewer such a call fails.  *)
Stmt(op, own) == [op |-> op, own |-> own]
Own(op) == Stmt(op, TRUE)
Any(op) == Stmt(op, FALSE)

(* viewer.EnforceTenant: no viewer is an error, platform and system views  *)
(* are not restricted, a tenant is restricted to its own rows.             *)
EnforceTenant(v) == [ok |-> v # Missing, enforce |-> v \in Tenants]
InTenant(s, v, r) == (s.own /\ EnforceTenant(v).enforce) => r.tenant = v

(* EnforceOnScopedInstance: the tenant a created row gets.                 *)
EnforceOnScopedInstance(s, v) == IF s.own /\ EnforceTenant(v).enforce THEN v ELSE Platform

(* A method: its name, which rows the request asks for ("id" or "filter"), *)
(* its statements, what it promises, whether its list query is cut to the  *)
(* page, and which filter errors are only logged.                          *)
Method(api, promise, asks, prog) ==
    [api |-> api, promise |-> promise, asks |-> asks, prog |-> prog,
     ignores |-> {}, uncapped |-> FALSE]
Lists(api, prog, ignores, uncapped) ==
    [api |-> api, promise |-> "list", asks |-> "filter", prog |-> prog,
     ignores |-> ignores, uncapped |-> uncapped]

-----------------------------------------------------------------------------
(* crud/gorm.  Its callbacks put the tenant into every query, update and   *)
(* delete; creates set it in a hook.  Lists read, then count; a filter     *)
(* that cannot be built is only logged.                                    *)
GormTenant(op) == Own(op)
GormCount == Method("Count", "count", "filter", <<GormTenant("count")>>)
GormCountWithOptions == [GormCount EXCEPT !.api = "CountWithOptions"]
GormListWithPaging == Lists("ListWithPaging", <<GormTenant("page"), GormTenant("count")>>, {"unbuildable"}, FALSE)
GormListWithPagination == Lists("ListWithPagination", <<GormTenant("page"), GormTenant("count")>>, {"unbuildable"}, FALSE)
GormGet == Method("Get", "get", "id", <<GormTenant("first")>>)
GormGetWithFilters == Method("GetWithFilters", "get", "filter", <<GormTenant("first")>>)
GormOnly == [GormGet EXCEPT !.api = "Only"]
GormCreate == Method("Create", "create", "id", <<Own("insert")>>)
GormCreateX == [GormCreate EXCEPT !.api = "CreateX"]
GormCreateXWithFilters == [GormCreate EXCEPT !.api = "CreateXWithFilters"]
GormBatchCreate == Method("BatchCreate", "batch", "id", <<Own("insert"), Own("insert2")>>)
MutantGormUpdate == Method("Update", "update", "both", <<GormTenant("update"), GormTenant("first")>>)
GormUpdate == Method("Update", "update", "both", <<GormTenant("update"), GormTenant("reread")>>)
GormUpdateWithFilters == Method("UpdateWithFilters", "update", "both", <<GormTenant("update"), GormTenant("first")>>)
GormUpdateX == Method("UpdateX", "updateN", "filter", <<GormTenant("update")>>)
GormUpdateXWithFilters == [GormUpdateX EXCEPT !.api = "UpdateXWithFilters"]
GormUpsert == Method("Upsert", "upsert", "id", <<GormTenant("replace")>>)
GormUpsertWithFilters == [GormUpsert EXCEPT !.api = "UpsertWithFilters"]
GormUpsertX == [GormUpsert EXCEPT !.api = "UpsertX"]
GormUpsertXWithFilters == [GormUpsert EXCEPT !.api = "UpsertXWithFilters"]
GormDelete == Method("Delete", "delete", "filter", <<GormTenant("delete")>>)
GormDeleteWithFilters == Method("DeleteWithFilters", "delete", "filter", <<GormTenant("soft")>>)
GormSoftDelete == Method("SoftDelete", "delete", "filter", <<GormTenant("soft")>>)
GormExists == Method("Exists", "exists", "filter", <<GormTenant("count")>>)
GormExistsWithFilters == [GormExists EXCEPT !.api = "ExistsWithFilters"]

Gorm == [name |-> "gorm", onDuplicate |-> {"reject"}, hidesDeleted |-> TRUE, scoped |-> TRUE, nilIfNone |-> FALSE,
    methods |->
   {GormCount, GormCountWithOptions, GormListWithPaging, GormListWithPagination, GormGet,
    GormGetWithFilters, GormOnly, GormCreate, GormCreateX, GormCreateXWithFilters,
    GormBatchCreate, GormUpdate, GormUpdateWithFilters, GormUpdateX, GormUpdateXWithFilters,
    GormUpsert, GormUpsertWithFilters, GormUpsertX, GormUpsertXWithFilters, GormDelete,
    GormDeleteWithFilters, GormSoftDelete, GormExists, GormExistsWithFilters}]

(* crud/entgo.  The tenant condition comes from the privacy rule on        *)
(* queries and creates and from InjectTenantWhereIntoBuilder on updates    *)
(* and deletes.  ListWithPagination builds its query without the filter.   *)
EntgoTenant(op) == Own(op)
EntgoCount == Method("Count", "count", "filter", <<EntgoTenant("count")>>)
EntgoExists == Method("Exists", "exists", "filter", <<EntgoTenant("count")>>)
EntgoBuildListSelectorWithPaging == <<EntgoTenant("page"), EntgoTenant("count")>>
EntgoListWithPaging == Lists("ListWithPaging", EntgoBuildListSelectorWithPaging, {"unconvertible", "unbuildable"}, FALSE)
EntgoListTreeWithPaging == Lists("ListTreeWithPaging", EntgoBuildListSelectorWithPaging, {"unconvertible", "unbuildable"}, FALSE)
EntgoBuildListSelectorWithPagination == <<EntgoTenant("pageUnfiltered"), EntgoTenant("count")>>
EntgoListWithPagination == Lists("ListWithPagination", EntgoBuildListSelectorWithPagination, {"unconvertible", "unbuildable"}, FALSE)
EntgoListTreeWithPagination == Lists("ListTreeWithPagination", EntgoBuildListSelectorWithPagination, {"unconvertible", "unbuildable"}, FALSE)
EntgoGet == Method("Get", "get", "id", <<EntgoTenant("first")>>)
EntgoOnly == [EntgoGet EXCEPT !.api = "Only"]
EntgoCreate == Method("Create", "create", "id", <<Own("insert")>>)
EntgoCreateX == [EntgoCreate EXCEPT !.api = "CreateX"]
EntgoBatchCreate == Method("BatchCreate", "batch", "id", <<Own("bulk")>>)
EntgoUpdateOne == Method("UpdateOne", "update", "id", <<EntgoTenant("updateRead")>>)
EntgoUpdateX == Method("UpdateX", "updateN", "filter", <<EntgoTenant("update")>>)
EntgoDelete == Method("Delete", "delete", "filter", <<EntgoTenant("delete")>>)

Entgo == [name |-> "entgo", onDuplicate |-> {"reject"}, hidesDeleted |-> FALSE, scoped |-> TRUE, nilIfNone |-> FALSE,
    methods |->
   {EntgoCount, EntgoExists, EntgoListWithPaging, EntgoListTreeWithPaging, EntgoListWithPagination,
    EntgoListTreeWithPagination, EntgoGet, EntgoOnly, EntgoCreate, EntgoCreateX,
    EntgoBatchCreate, EntgoUpdateOne, EntgoUpdateX, EntgoDelete}]

(* crud/mongodb.  Lists count, then find; the options built with the query *)
(* (limit, skip, sort, projection) are dropped.                            *)
MongoTenant(op) == Own(op)
MongoListWithPaging == Lists("ListWithPaging", <<MongoTenant("count"), MongoTenant("page")>>, {}, TRUE)
MongoListWithPagination == Lists("ListWithPagination", <<MongoTenant("count"), MongoTenant("page")>>, {}, TRUE)
MongoGet == Method("Get", "get", "id", <<MongoTenant("first")>>)
MongoCreate == Method("Create", "create", "id", <<Own("insert")>>)
MongoBatchCreate == Method("BatchCreate", "batch", "id", <<Own("prefix")>>)
MongoUpdate == Method("Update", "update", "both", <<MongoTenant("updateRead")>>)
MongoDelete == Method("Delete", "delete", "filter", <<MongoTenant("delete")>>)
MongoCount == Method("Count", "count", "filter", <<MongoTenant("count")>>)
MongoExists == Method("Exists", "exists", "filter", <<MongoTenant("count")>>)

Mongo == [name |-> "mongodb", onDuplicate |-> {"reject"}, hidesDeleted |-> FALSE, scoped |-> TRUE, nilIfNone |-> FALSE,
    methods |->
   {MongoListWithPaging, MongoListWithPagination, MongoGet, MongoCreate, MongoBatchCreate,
    MongoUpdate, MongoDelete, MongoCount, MongoExists}]

(* crud/clickhouse.  Lists count, then read.  An update or a soft delete   *)
(* is ALTER TABLE ... UPDATE, which the server applies later; the soft     *)
(* delete has no condition but the tenant, the hard one truncates.  A read *)
(* of one row that finds none answers nil without an error.                *)
ClickHouseTenant(op) == Own(op)
ClickHouseCount == Method("Count", "count", "filter", <<ClickHouseTenant("count")>>)
ClickHouseListWithPaging == Lists("ListWithPaging", <<ClickHouseTenant("count"), ClickHouseTenant("page")>>, {}, FALSE)
ClickHouseListWithPagination == Lists("ListWithPagination", <<ClickHouseTenant("count"), ClickHouseTenant("page")>>, {}, FALSE)
ClickHouseGet == Method("Get", "get", "id", <<ClickHouseTenant("first")>>)
ClickHouseOnly == [ClickHouseGet EXCEPT !.api = "Only"]
ClickHouseCreate == Method("Create", "create", "id", <<Own("insert")>>)
ClickHouseCreateX == [ClickHouseCreate EXCEPT !.api = "CreateX"]
ClickHouseBatchCreate == Method("BatchCreate", "batch", "id", <<Own("bulk")>>)
ClickHouseUpdate == Method("Update", "mutation", "id", <<ClickHouseTenant("mutate"), ClickHouseTenant("reread")>>)
ClickHouseUpdateX == Method("UpdateX", "updateN", "id", <<Any("mutate")>>)
ClickHouseUpsert == Method("Upsert", "upsert", "id", <<Any("try"), Any("mutate"), Any("reread")>>)
ClickHouseUpsertX == Method("UpsertX", "upsert", "id", <<Any("try"), Any("mutate")>>)
ClickHouseDelete == Method("Delete", "delete", "filter", <<ClickHouseTenant("truncate")>>)
ClickHouseSoftDelete == Method("SoftDelete", "delete", "filter", <<ClickHouseTenant("softAll")>>)
ClickHouseExists == Method("Exists", "exists", "filter", <<ClickHouseTenant("count")>>)

ClickHouse == [name |-> "clickhouse", onDuplicate |-> {"keep both"}, hidesDeleted |-> FALSE, scoped |-> TRUE, nilIfNone |-> TRUE,
    methods |->
   {ClickHouseCount, ClickHouseListWithPaging, ClickHouseListWithPagination, ClickHouseGet,
    ClickHouseOnly, ClickHouseCreate, ClickHouseCreateX, ClickHouseBatchCreate, ClickHouseUpdate,
    ClickHouseUpdateX, ClickHouseUpsert, ClickHouseUpsertX, ClickHouseDelete, ClickHouseSoftDelete,
    ClickHouseExists}]

(* crud/doris: as ClickHouse, but deletes are immediate and carry the      *)
(* caller's condition.                                                     *)
DorisTenant(op) == Own(op)
DorisCount == ClickHouseCount
DorisListWithPaging == Lists("ListWithPaging", <<DorisTenant("count"), DorisTenant("page")>>, {}, FALSE)
DorisListWithPagination == ClickHouseListWithPagination
DorisGet == ClickHouseGet
DorisOnly == ClickHouseOnly
DorisCreate == ClickHouseCreate
DorisCreateX == ClickHouseCreateX
DorisBatchCreate == ClickHouseBatchCreate
MutantDorisUpdate == Method("Update", "mutation", "id", <<DorisTenant("mutate"), Any("reread")>>)
DorisUpdate == Method("Update", "mutation", "id", <<DorisTenant("mutate"), DorisTenant("reread")>>)
DorisUpdateX == Method("UpdateX", "updateN", "id", <<Any("mutate")>>)
DorisUpsert == Method("Upsert", "upsert", "id", <<Any("try"), Any("mutate"), Any("reread")>>)
DorisDelete == Method("Delete", "delete", "filter", <<DorisTenant("delete")>>)
DorisSoftDelete == Method("SoftDelete", "delete", "filter", <<DorisTenant("soft")>>)
DorisExists == ClickHouseExists
DorisInsert == [DorisCreate EXCEPT !.api = "Insert"]
DorisBatchInsert == [DorisBatchCreate EXCEPT !.api = "BatchInsert"]
DorisBatchInsertStruct == [DorisBatchCreate EXCEPT !.api = "BatchInsertStruct"]

Doris == [name |-> "doris", onDuplicate |-> {"keep both", "replace"}, hidesDeleted |-> FALSE, scoped |-> TRUE, nilIfNone |-> TRUE,
    methods |->
   {DorisCount, DorisListWithPaging, DorisListWithPagination, DorisGet, DorisOnly, DorisCreate,
    DorisCreateX, DorisBatchCreate, DorisUpdate, DorisUpdateX, DorisUpsert, DorisDelete,
    DorisSoftDelete, DorisExists, DorisInsert, DorisBatchInsert, DorisBatchInsertStruct}]

(* crud/influxdb: lists only count, creates do nothing, no tenant.         *)
InfluxListWithPaging == Lists("ListWithPaging", <<Any("count")>>, {}, FALSE)
InfluxListWithPagination == Lists("ListWithPagination", <<Any("count")>>, {}, FALSE)
InfluxCreate == Method("Create", "create", "id", <<Any("noop")>>)
InfluxBatchCreate == Method("BatchCreate", "batch", "id", <<Any("noop")>>)
InfluxCount == Method("Count", "count", "filter", <<Any("count")>>)
InfluxExists == Method("Exists", "exists", "filter", <<Any("count")>>)

Influx == [name |-> "influxdb", onDuplicate |-> {"replace"}, hidesDeleted |-> FALSE, scoped |-> FALSE, nilIfNone |-> FALSE,
    methods |->
   {InfluxListWithPaging, InfluxListWithPagination, InfluxCreate, InfluxBatchCreate, InfluxCount,
    InfluxExists}]

(* crud/cassandra: an insert replaces the row of the same key, a batch is  *)
(* logged (all or nothing), reads by key check the tenant of the row they  *)
(* got, deletes first select the keys the viewer may delete.               *)
CassandraTenant(op) == Own(op)
CassandraVerifyTenantOnRow == Own("check")
CassandraCreate == Method("Create", "create", "id", <<Own("insert")>>)
CassandraBatchCreate == Method("BatchCreate", "batch", "id", <<Own("bulk")>>)
CassandraGetByPK == <<Any("first"), CassandraVerifyTenantOnRow>>
CassandraGet == Method("Get", "get", "id", CassandraGetByPK)
CassandraGetByUUID == Method("GetByUUID", "get", "id", CassandraGetByPK)
CassandraQuery == Method("Query", "query", "filter", <<CassandraTenant("all"), CassandraVerifyTenantOnRow>>)
CassandraCount == Method("Count", "count", "filter", <<CassandraTenant("count")>>)
CassandraExists == Method("Exists", "exists", "filter", <<CassandraTenant("count")>>)
CassandraDeleteByPKValues == <<CassandraTenant("pick"), Any("drop")>>
CassandraDeleteByIDs == Method("DeleteByIDs", "delete", "id", CassandraDeleteByPKValues)
CassandraDeleteByUUIDs == Method("DeleteByUUIDs", "delete", "id", CassandraDeleteByPKValues)
CassandraDeleteByWhere == Method("DeleteByWhere", "delete", "filter", <<CassandraTenant("pick"), Any("drop")>>)

Cassandra == [name |-> "cassandra", onDuplicate |-> {"replace"}, hidesDeleted |-> FALSE, scoped |-> TRUE, nilIfNone |-> FALSE,
    methods |->
   {CassandraCreate, CassandraBatchCreate, CassandraGet, CassandraGetByUUID, CassandraQuery,
    CassandraCount, CassandraExists, CassandraDeleteByIDs, CassandraDeleteByUUIDs,
    CassandraDeleteByWhere}]

(* crud/neo4j: node ids are strings the server assigns, so the numeric     *)
(* methods refuse; deletes count first and return that number.             *)
Neo4jTenant(op) == Own(op)
Neo4jVerifyTenantOnNode == Own("check")
Neo4jCreate == Method("Create", "create", "id", <<Own("insert")>>)
Neo4jBatchCreate == Method("BatchCreate", "batch", "id", <<Own("bulk")>>)
Neo4jGet == Method("Get", "get", "id", <<Any("refuse")>>)
Neo4jGetByUUID == Method("GetByUUID", "get", "id", <<Neo4jTenant("first"), Neo4jVerifyTenantOnNode>>)
Neo4jQuery == Method("Query", "query", "filter", <<Neo4jTenant("all"), Neo4jVerifyTenantOnNode>>)
Neo4jCount == Method("Count", "count", "filter", <<Neo4jTenant("count")>>)
Neo4jExists == Method("Exists", "exists", "filter", <<Neo4jTenant("count")>>)
Neo4jDeleteByIDs == Method("DeleteByIDs", "delete", "id", <<Any("refuse")>>)
Neo4jDeleteByUUIDs == Method("DeleteByUUIDs", "delete", "id", <<Neo4jTenant("tally"), Neo4jTenant("wipe")>>)
Neo4jDeleteByWhere == Method("DeleteByWhere", "delete", "filter", <<Neo4jTenant("tally"), Neo4jTenant("wipe")>>)

Neo4j == [name |-> "neo4j", onDuplicate |-> {"keep both"}, hidesDeleted |-> FALSE, scoped |-> TRUE, nilIfNone |-> FALSE,
    methods |->
   {Neo4jCreate, Neo4jBatchCreate, Neo4jGet, Neo4jGetByUUID, Neo4jQuery, Neo4jCount, Neo4jExists,
    Neo4jDeleteByIDs, Neo4jDeleteByUUIDs, Neo4jDeleteByWhere}]

(* crud/qdrant: creates are Upsert calls; deletes by key select the        *)
(* tenant's points first ("pickOwn": only when a tenant is enforced).      *)
QdrantTenant(op) == Own(op)
QdrantVerifyTenantOnPayload == Own("check")
QdrantCreate == Method("Create", "create", "id", <<Own("insert")>>)
QdrantBatchCreate == Method("BatchCreate", "batch", "id", <<Own("bulk")>>)
QdrantGetPoint == <<Any("first"), QdrantVerifyTenantOnPayload>>
QdrantGet == Method("Get", "get", "id", QdrantGetPoint)
QdrantGetByUUID == Method("GetByUUID", "get", "id", QdrantGetPoint)
QdrantTenantFilterPointIDs == QdrantTenant("pickOwn")
MutantDeleteByPointIDs == <<Any("delete")>>
QdrantDeleteByPointIDs == <<QdrantTenantFilterPointIDs, Any("drop")>>
QdrantDeleteByIDs == Method("DeleteByIDs", "delete", "id", QdrantDeleteByPointIDs)
QdrantDeleteByUUIDs == Method("DeleteByUUIDs", "delete", "id", QdrantDeleteByPointIDs)
QdrantDeleteByFilter == Method("DeleteByFilter", "delete", "filter", <<QdrantTenant("estimate"), QdrantTenant("wipe")>>)
QdrantCount == Method("Count", "count", "filter", <<QdrantTenant("count")>>)
QdrantExists == Method("Exists", "exists", "filter", <<QdrantTenant("count")>>)
QdrantSearchByVector == Method("SearchByVector", "search", "filter", <<QdrantTenant("topK"), QdrantVerifyTenantOnPayload>>)

Qdrant == [name |-> "qdrant", onDuplicate |-> {"replace"}, hidesDeleted |-> FALSE, scoped |-> TRUE, nilIfNone |-> FALSE,
    methods |->
   {QdrantCreate, QdrantBatchCreate, QdrantGet, QdrantGetByUUID, QdrantDeleteByIDs,
    QdrantDeleteByUUIDs, QdrantDeleteByFilter, QdrantCount, QdrantExists, QdrantSearchByVector}]

(* crud/milvus: as Qdrant, but an insert may leave two rows under one key. *)
MilvusTenant(op) == Own(op)
MilvusCheckTenantColumn == Own("check")
MilvusCreate == Method("Create", "create", "id", <<Own("insert")>>)
MilvusBatchCreate == Method("BatchCreate", "batch", "id", <<Own("bulk")>>)
MilvusGetByPk == <<Any("first"), MilvusCheckTenantColumn>>
MilvusGet == Method("Get", "get", "id", MilvusGetByPk)
MilvusGetByUUID == Method("GetByUUID", "get", "id", MilvusGetByPk)
MilvusQueryByExpr == Method("QueryByExpr", "query", "filter", <<MilvusTenant("all"), MilvusCheckTenantColumn>>)
MilvusTenantFilterPks == MilvusTenant("pickOwn")
MilvusDeleteByPk == <<MilvusTenantFilterPks, Any("drop")>>
MilvusDeleteByIDs == Method("DeleteByIDs", "delete", "id", MilvusDeleteByPk)
MilvusDeleteByUUIDs == Method("DeleteByUUIDs", "delete", "id", MilvusDeleteByPk)
MilvusDeleteByExpr == Method("DeleteByExpr", "delete", "filter", <<MilvusTenant("estimate"), MilvusTenant("wipe")>>)
MilvusCount == Method("Count", "count", "filter", <<MilvusTenant("count")>>)
MilvusExists == Method("Exists", "exists", "filter", <<MilvusTenant("count")>>)
MilvusSearchByVector == Method("SearchByVector", "search", "filter", <<MilvusTenant("topK"), MilvusCheckTenantColumn>>)

Milvus == [name |-> "milvus", onDuplicate |-> {"keep both"}, hidesDeleted |-> FALSE, scoped |-> TRUE, nilIfNone |-> FALSE,
    methods |->
   {MilvusCreate, MilvusBatchCreate, MilvusGet, MilvusGetByUUID, MilvusQueryByExpr, MilvusDeleteByIDs,
    MilvusDeleteByUUIDs, MilvusDeleteByExpr, MilvusCount, MilvusExists, MilvusSearchByVector}]

(* crud/weaviate: a batch stores the objects it can and reports the first  *)
(* error; a delete by condition reports what the server deleted.           *)
WeaviateTenant(op) == Own(op)
WeaviateVerifyTenantOnProps == Own("check")
WeaviateCreate == Method("Create", "create", "id", <<Own("insert")>>)
WeaviateBatchCreate == Method("BatchCreate", "batch", "id", <<Own("some")>>)
WeaviateGet == Method("Get", "get", "id", <<Any("refuse")>>)
WeaviateGetByUUID == Method("GetByUUID", "get", "id", <<Any("first"), WeaviateVerifyTenantOnProps>>)
WeaviateQuery == Method("Query", "query", "filter", <<WeaviateTenant("all"), WeaviateVerifyTenantOnProps>>)
WeaviateCount == Method("Count", "count", "filter", <<WeaviateTenant("count")>>)
WeaviateExists == Method("Exists", "exists", "filter", <<WeaviateTenant("count")>>)
WeaviateDeleteByIDs == Method("DeleteByIDs", "delete", "id", <<Any("refuse")>>)
WeaviateDeleteByFilterFn == <<WeaviateTenant("delete")>>
WeaviateDeleteByUUIDs == Method("DeleteByUUIDs", "delete", "id", WeaviateDeleteByFilterFn)
WeaviateDeleteByFilter == Method("DeleteByFilter", "delete", "filter", WeaviateDeleteByFilterFn)
WeaviateSearchByVector == Method("SearchByVector", "search", "filter", <<WeaviateTenant("topK"), WeaviateVerifyTenantOnProps>>)

Weaviate == [name |-> "weaviate", onDuplicate |-> {"reject"}, hidesDeleted |-> FALSE, scoped |-> TRUE, nilIfNone |-> FALSE,
    methods |->
   {WeaviateCreate, WeaviateBatchCreate, WeaviateGet, WeaviateGetByUUID, WeaviateQuery, WeaviateCount,
    WeaviateExists, WeaviateDeleteByIDs, WeaviateDeleteByUUIDs, WeaviateDeleteByFilter,
    WeaviateSearchByVector}]

AllRepositories == {Gorm, Entgo, Mongo, ClickHouse, Doris, Influx, Cassandra, Neo4j, Qdrant, Milvus, Weaviate}

-----------------------------------------------------------------------------
(* One call.                                                               *)
Nothing == [err |-> "none", items |-> {}, n |-> 0, value |-> 0]
Filters == {"ok", "unconvertible", "unbuildable"}
Pagings == {"page", "noPaging", "none"}

Backend(b) == [name |-> b.name, onDuplicate |-> b.onDuplicate, hidesDeleted |-> b.hidesDeleted,
               scoped |-> b.scoped, nilIfNone |-> b.nilIfNone]

RepoInit ==
    /\ \E b \in AllRepositories : repo = Backend(b) /\ method \in b.methods
    /\ request \in [viewer : Tenants \cup {Platform, Missing},
                    id : CASE method.asks = "filter" -> {1} [] method.asks = "both" -> {1, 2, 4, 5} [] OTHER -> {1, 2, 5},
                    second : IF method.promise = "batch" THEN {3, 6} ELSE {6},
                    paging : IF method.promise = "list" THEN Pagings ELSE {"page"},
                    filter : IF method.promise = "list" THEN Filters ELSE {"ok"}]
    /\ table = StartTable
    /\ lazy = <<>>
    /\ pc = 1
    /\ seen = {}
    /\ answer = Nothing
    /\ before = StartTable
    /\ written = {}
    /\ breaks = 0

S == method.prog[pc]
Exists(r) == r.copies > 0

(* The rows a statement selects: the key or the filter of the request and, *)
(* when the statement carries it, the tenant.                              *)
Meets(i, r, asks) ==
    /\ asks \in {"id", "both"} => i = request.id
    /\ asks \in {"filter", "both"} => (r.value = Wanted \/ request.filter # "ok")
Selected(s, asks) ==
    {i \in Ids : /\ Exists(table[i])
                 /\ repo.hidesDeleted => ~table[i].deleted
                 /\ InTenant(s, request.viewer, table[i])
                 /\ Meets(i, table[i], asks)}
Asked == Selected(S, method.asks)

(* A page is PageSize rows, no_paging is capped, and a request that says   *)
(* nothing is unlimited with PagingRequest and capped with                 *)
(* PaginationRequest.                                                      *)
Limit == CASE request.paging = "page" -> PageSize
           [] request.paging = "noPaging" -> NoPagingMaxLimit
           [] OTHER -> IF method.api \in {"ListWithPaging", "ListTreeWithPaging"}
                       THEN Cardinality(Ids) ELSE NoPagingMaxLimit
Cut(ids, limit) == kSubset(IF Cardinality(ids) < limit THEN Cardinality(ids) ELSE limit, ids)

Return == pc' = 0
Advance == pc' = (IF pc < Len(method.prog) THEN pc + 1 ELSE 0)
Fail(why) == Return /\ answer' = [answer EXCEPT !.err = why]
Here(ops) == pc > 0 /\ S.op \in ops
Admitted ==
    /\ S.op # "refuse"
    /\ S.own => EnforceTenant(request.viewer).ok
    /\ S.op = "truncate" => ~EnforceTenant(request.viewer).enforce
    /\ request.filter \in {"ok"} \cup method.ignores
Run(ops) == Here(ops) /\ Admitted
Keep == UNCHANGED <<repo, method, request, before, written, breaks>>

(* The early returns: no viewer, an unsupported method, a filter error.    *)
Reject ==
    /\ pc > 0
    /\ ~Admitted
    /\ Fail("error")
    /\ UNCHANGED <<table, lazy, seen>> /\ Keep

(* Reads. *)
ReadMany ==
    /\ Run({"page", "pageUnfiltered", "all", "topK"})
    /\ LET found == IF S.op = "pageUnfiltered" THEN Selected(S, "none") ELSE Asked
           limit == IF S.op = "all" \/ method.uncapped THEN Cardinality(Ids)
                    ELSE IF S.op = "topK" THEN PageSize ELSE Limit IN
       \E items \in Cut(found, limit) : answer' = [answer EXCEPT !.items = items]
    /\ Advance
    /\ UNCHANGED <<table, lazy, seen>> /\ Keep

Count ==
    /\ Run({"count"})
    /\ answer' = [answer EXCEPT !.n = Cardinality(Asked)]
    /\ Advance
    /\ UNCHANGED <<table, lazy, seen>> /\ Keep

(* One row; none is an error, or nil without one.  A read-back ("reread")  *)
(* asks for the key alone.                                                 *)
ReadOne ==
    /\ Run({"first", "reread"})
    /\ LET found == IF S.op = "reread" THEN Selected(S, "id") ELSE Asked IN
       \/ found = {} /\ IF repo.nilIfNone THEN Return /\ UNCHANGED answer ELSE Fail("missing")
       \/ \E i \in found : /\ answer' = [answer EXCEPT !.items = {i}, !.value = table[i].value]
                           /\ Advance
    /\ UNCHANGED <<table, lazy, seen>> /\ Keep

(* verifyTenantOnRow and its like: rows of another tenant are left out of  *)
(* what was read; a get that is left with none reports "not found".        *)
Check ==
    /\ Run({"check"})
    /\ LET mine == {i \in answer.items : InTenant(S, request.viewer, table[i])} IN
       IF method.promise = "get" /\ mine = {} THEN Fail("missing")
       ELSE Advance /\ answer' = [answer EXCEPT !.items = mine]
    /\ UNCHANGED <<table, lazy, seen>> /\ Keep

(* Inserts, by what the database does with a key that exists.              *)
NewRow == [copies |-> 1, tenant |-> EnforceOnScopedInstance(S, request.viewer),
           value |-> Updated, deleted |-> FALSE]
Stored(r, how) == IF Exists(r) /\ how = "keep both" THEN [r EXCEPT !.copies = @ + 1] ELSE NewRow
Clash(ids, how) == how = "reject" /\ \E i \in ids : Exists(table[i])
Store(ids, how) == [i \in Ids |-> IF i \in ids THEN Stored(table[i], how) ELSE table[i]]

Insert ==
    /\ Run({"insert", "insert2", "bulk", "try"})
    /\ \E how \in repo.onDuplicate :
         LET ids == CASE S.op = "insert2" -> {request.second} [] S.op = "bulk" -> {request.id, request.second}
                      [] OTHER -> {request.id} IN
         \/ /\ Clash(ids, how)
            /\ IF S.op = "try" THEN Advance /\ UNCHANGED answer ELSE Fail("error")
            /\ UNCHANGED table
         \/ /\ ~Clash(ids, how)
            /\ table' = Store(ids, how)
            /\ answer' = [answer EXCEPT !.items = @ \cup ids]
            /\ IF S.op = "try" THEN Return ELSE Advance
    /\ UNCHANGED <<lazy, seen>> /\ Keep

(* An ordered InsertMany stores the documents before the first clash, a    *)
(* Weaviate batch any of them; both report an error unless all are stored. *)
InsertSome ==
    /\ Run({"prefix", "some"})
    /\ LET all == {request.id, request.second} IN
       \E stored \in SUBSET all :
         /\ ~Clash(stored, "reject")
         /\ S.op = "prefix" => \/ stored = {} /\ Exists(table[request.id])
                               \/ stored = {request.id} /\ Exists(table[request.second])
                               \/ stored = all
         /\ table' = Store(stored, "reject")
         /\ IF stored = all THEN Advance /\ answer' = [answer EXCEPT !.items = all] ELSE Fail("error")
    /\ UNCHANGED <<lazy, seen>> /\ Keep

Replace ==
    /\ Run({"replace"})
    /\ table' = Store({request.id}, "replace")
    /\ answer' = [answer EXCEPT !.items = {request.id}]
    /\ Advance
    /\ UNCHANGED <<lazy, seen>> /\ Keep

(* influxdb.Create only logs.                                              *)
Noop ==
    /\ Run({"noop"})
    /\ answer' = [answer EXCEPT !.items = {request.id}]
    /\ Advance
    /\ UNCHANGED <<table, lazy, seen>> /\ Keep

SetValue(ids) == [i \in Ids |-> IF i \in ids THEN [table[i] EXCEPT !.value = Updated] ELSE table[i]]
SetDeleted(ids) == [i \in Ids |-> IF i \in ids THEN [table[i] EXCEPT !.deleted = TRUE] ELSE table[i]]
Remove(ids) == [i \in Ids |-> IF i \in ids THEN NoRow ELSE table[i]]

Update ==
    /\ Run({"update", "updateRead"})
    /\ table' = SetValue(Asked)
    /\ IF S.op = "updateRead" /\ Asked = {} THEN Fail("missing")
       ELSE /\ Advance
            /\ answer' = [answer EXCEPT !.n = Cardinality(Asked),
                                        !.items = IF S.op = "updateRead" THEN Asked ELSE @,
                                        !.value = IF S.op = "updateRead" THEN Updated ELSE @]
    /\ UNCHANGED <<lazy, seen>> /\ Keep

(* ClickHouse and Doris accept a mutation and apply it later.              *)
Mutate ==
    /\ Run({"mutate", "softAll"})
    /\ lazy' = <<S>>
    /\ answer' = [answer EXCEPT !.n = 1]
    /\ Advance
    /\ UNCHANGED <<table, seen>> /\ Keep

ApplyMutation ==
    /\ lazy # <<>>
    /\ LET s == Head(lazy) IN
       table' = IF s.op = "mutate" THEN SetValue(Selected(s, "id")) ELSE SetDeleted(Selected(s, "none"))
    /\ lazy' = <<>>
    /\ UNCHANGED <<pc, seen, answer>> /\ Keep

Delete ==
    /\ Run({"delete", "soft", "truncate"})
    /\ table' = CASE S.op = "delete" -> Remove(Asked) [] S.op = "soft" -> SetDeleted(Asked)
                  [] OTHER -> Remove(Ids)
    /\ answer' = [answer EXCEPT !.n = IF S.op = "truncate" THEN 1 ELSE Cardinality(Asked)]
    /\ Advance
    /\ UNCHANGED <<lazy, seen>> /\ Keep

(* The reads that prepare a delete: the keys to delete, or their number.   *)
(* pickOwn reads only when a tenant is enforced.                           *)
Prepare ==
    /\ Run({"pick", "pickOwn", "tally", "estimate"})
    /\ LET asked == IF S.op = "pickOwn" /\ ~EnforceTenant(request.viewer).enforce
                    THEN {request.id} ELSE Asked IN
       /\ seen' = IF S.op \in {"pick", "pickOwn"} THEN asked ELSE seen
       /\ answer' = [answer EXCEPT !.n = Cardinality(asked)]
       /\ IF asked = {} /\ S.op # "estimate" THEN Return ELSE Advance
    /\ UNCHANGED <<table, lazy>> /\ Keep

DeletePrepared ==
    /\ Run({"drop", "wipe"})
    /\ table' = Remove(IF S.op = "drop" THEN seen ELSE Asked)
    /\ Advance
    /\ UNCHANGED <<lazy, seen, answer>> /\ Keep

(* Another session writes or deletes a row between two statements.         *)
Interfere ==
    /\ pc > 1
    /\ Cardinality(written) < MaxWrites
    /\ \E i \in Ids, r \in {NoRow} \cup {Row(t) : t \in Tenants} :
         /\ r # table[i]
         /\ table' = [table EXCEPT ![i] = r]
         /\ written' = written \cup {i}
    /\ UNCHANGED <<repo, method, request, lazy, pc, seen, answer, before, breaks>>

(* The connection fails: the statement is not executed and the method      *)
(* returns its error, except an Upsert that takes it for a duplicate key.  *)
Break ==
    /\ pc > 0
    /\ Admitted
    /\ S.op \notin {"check", "noop"}
    /\ breaks < MaxBreaks
    /\ breaks' = breaks + 1
    /\ IF S.op = "try" THEN Advance /\ UNCHANGED answer ELSE Fail("error")
    /\ UNCHANGED <<repo, method, request, table, lazy, seen, before, written>>

Step == \/ Reject \/ ReadMany \/ Count \/ ReadOne \/ Check \/ Insert \/ InsertSome \/ Replace
        \/ Noop \/ Update \/ Mutate \/ ApplyMutation \/ Delete \/ Prepare \/ DeletePrepared
RepoNext == Step \/ Interfere \/ Break
RepoSpec == RepoInit /\ [][RepoNext]_repoVars

-----------------------------------------------------------------------------
(* What the methods promise, of a call that ran alone on a working         *)
(* connection.                                                             *)
Mine == {i \in Ids : /\ Exists(before[i])
                     /\ (repo.scoped /\ request.viewer \in Tenants) => before[i].tenant = request.viewer
                     /\ Meets(i, before[i], method.asks)}
AtMost(n) == IF Cardinality(Mine) < n THEN Cardinality(Mine) ELSE n
Gone(i) == ~Exists(table[i]) \/ table[i].deleted
Created(i) == /\ Exists(table[i])
              /\ table[i].copies = 1 /\ request.viewer \in Tenants => table[i].tenant = request.viewer
OnlyTouches(ids) == \A i \in Ids \ ids : table[i] = before[i]
OK == answer.err = "none"

(* How the caller learns that there is no such row.                        *)
NotFound == IF repo.nilIfNone THEN OK /\ answer.items = {} ELSE answer.err = "missing"
GotOne == OK /\ answer.items \subseteq Mine /\ Cardinality(answer.items) = 1
UpdatedIn(ids) == \A i \in ids : table[i] = [before[i] EXCEPT !.value = Updated]

(* gorm.Update reads back by key, so a row that does not meet the          *)
(* caller's condition comes back as it was and without an error.           *)
Unmatched ==
    /\ repo.name = "gorm" /\ method.api = "Update" /\ Mine = {}
    /\ Exists(before[request.id]) /\ request.viewer \in {Platform, before[request.id].tenant}

Fulfils(promise) ==
    CASE promise = "list"   -> /\ OK /\ answer.items \subseteq Mine /\ answer.n = Cardinality(Mine)
                               /\ Cardinality(answer.items) = AtMost(Limit) /\ OnlyTouches({})
      [] promise = "search" -> /\ OK /\ answer.items \subseteq Mine /\ OnlyTouches({})
                               /\ Cardinality(answer.items) = AtMost(PageSize)
      [] promise = "query"  -> OK /\ answer.items = Mine /\ OnlyTouches({})
      [] promise \in {"count", "exists"} -> OK /\ answer.n = Cardinality(Mine) /\ OnlyTouches({})
      [] promise = "get"    -> (IF Mine = {} THEN NotFound ELSE GotOne) /\ OnlyTouches({})
      [] promise = "create" -> IF OK THEN Created(request.id) /\ OnlyTouches({request.id})
                               ELSE Exists(before[request.id]) /\ OnlyTouches({})
      [] promise = "batch"  -> IF OK THEN /\ \A i \in {request.id, request.second} : Created(i)
                                          /\ OnlyTouches({request.id, request.second})
                               ELSE OnlyTouches({})
      [] promise = "update" -> /\ IF Unmatched THEN OK /\ answer.value = before[request.id].value
                                  ELSE IF Mine = {} THEN NotFound ELSE GotOne /\ answer.value = Updated
                               /\ UpdatedIn(Mine) /\ OnlyTouches(Mine)
      [] promise = "mutation" -> /\ IF Mine = {} THEN NotFound ELSE GotOne
                                 /\ lazy = <<>> => UpdatedIn(Mine)
                                 /\ OnlyTouches(Mine)
      [] promise = "updateN" -> OK /\ answer.n = Cardinality(Mine) /\ UpdatedIn(Mine) /\ OnlyTouches(Mine)
      [] promise = "upsert" -> /\ OK /\ OnlyTouches({request.id})
                               /\ table[request.id].copies = 1 /\ table[request.id].value = Updated
      [] OTHER              -> OK /\ answer.n = Cardinality(Mine) /\ OnlyTouches(Mine) /\ \A i \in Mine : Gone(i)

(* The methods that do not do what their names promise; each is described  *)
(* in the README.                                                          *)
Diverging ==
    {<<"mongodb", a>> : a \in {"ListWithPaging", "ListWithPagination", "BatchCreate"}}
    \cup {<<"entgo", a>> : a \in {"ListWithPagination", "ListTreeWithPagination"}}
    \cup {<<"influxdb", a>> : a \in {"ListWithPaging", "ListWithPagination", "Create", "BatchCreate"}}
    \cup {<<"gorm", a>> : a \in {"BatchCreate", "UpdateWithFilters"}}
    \cup {<<"clickhouse", a>> : a \in {"UpdateX", "Upsert", "UpsertX", "Delete", "SoftDelete"}}
    \cup {<<"doris", a>> : a \in {"UpdateX", "Upsert"}}
    \cup {<<"qdrant", a>> : a \in {"DeleteByIDs", "DeleteByUUIDs"}}
    \cup {<<"milvus", a>> : a \in {"DeleteByIDs", "DeleteByUUIDs"}}
    \cup {<<"neo4j", a>> : a \in {"Get", "DeleteByIDs"}}
    \cup {<<"weaviate", a>> : a \in {"Get", "DeleteByIDs", "BatchCreate"}}

(* A call that no other session disturbed answers, and changes the table,  *)
(* as its name promises: lists return a page of the rows asked for and     *)
(* their number, reads the viewer's rows, an update the row as updated     *)
(* (also when the update made it leave the filter,                         *)
(* gorm/repository.go:607-615), a delete the number of rows it removed.    *)
(* That there is no such row is told by an error, by ClickHouse and Doris  *)
(* with nil instead (clickhouse/repository.go:406, doris/repository.go:415 *)
(* and 882); their Update answers the row as it was or as updated, since   *)
(* the mutation may be applied later.  gorm.Update answers with the row    *)
(* unchanged where the condition did not match it (601-626).  Without a    *)
(* viewer, or with a filter that is not understood, the call fails and     *)
(* changes nothing.  A call that lost its connection at one of its         *)
(* statements still tells the truth: success means the whole promise, and  *)
(* an error leaves the rows it was not asked for alone.                    *)
QuietCallsAgree ==
    (pc = 0 /\ written = {} /\ <<repo.name, method.api>> \notin Diverging) =>
        IF repo.scoped /\ request.viewer = Missing THEN ~OK /\ OnlyTouches({})
        ELSE IF request.filter # "ok" THEN method.ignores = {} => ~OK /\ OnlyTouches({})
        ELSE IF breaks > 0 /\ ~OK THEN OnlyTouches(Mine \cup {request.id, request.second})
        ELSE Fulfils(method.promise)

(* Updates and deletes of a tenant's call change only rows of that tenant, *)
(* or rows another session has just written, whatever happens between      *)
(* their statements (the deletes by key of cassandra/repository.go:396,    *)
(* qdrant/repository.go:213 and milvus/repository.go:463 select first and  *)
(* delete afterwards).  UpdateX and Upsert of ClickHouse and Doris carry   *)
(* no tenant condition and are left out.                                   *)
TouchesOwnRows ==
    (/\ written' = written
     /\ request.viewer \in Tenants
     /\ method.promise \in {"update", "updateN", "mutation", "delete"}
     /\ ~(repo.name \in {"clickhouse", "doris"} /\ method.api = "UpdateX")) =>
       \A i \in Ids \ written : table'[i] # table[i] => table[i].tenant = request.viewer
TenantRowsKept == [][TouchesOwnRows]_repoVars
=============================================================================
