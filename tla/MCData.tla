------------------------------- MODULE MCData -------------------------------
(***************************************************************************)
(* The data access layer for TLC: the filter builders, the query           *)
(* languages, pagination, the repositories with their caches, the search   *)
(* and database clients, transactions and the batch inserter; and the      *)
(* authorizers, which decide on policies kept in such stores.  One of them *)
(* moves in a behaviour.  Caches has variables of its own and states its   *)
(* property there; the others share the variables of Registers.            *)
(***************************************************************************)
EXTENDS Registers, Caches

CONSTANTS
    Main, Others,                                            \* QueryLanguage
    Walker, Guests, RowCount, Sizes, MaxLimit, DefaultLimit, \* QueryLanguage, pages
    MaxRequests, MaxRotations,
    MaxRivalWrites, MaxBreaks, PageSize, NoPagingMaxLimit,   \* Repository
    Documents, MaxBatchSize, MaxItems, Runners, Conns,       \* DataClients
    MaxRuns, None, InsertedRows, MalformedRows, BatchSize, MaxSendFaults, MaxAdds,
    StoreCallers, StoreKeys, Ttls, MaxTime, MaxCalls,
    Writers, MaxChanges, MaxFaults                           \* Authorizer

F == INSTANCE Filters WITH backend <- r1, dialect <- r2, expr <- r3, built <- r4
Q == INSTANCE QueryLanguage WITH request <- r1, at <- r2, fscErr <- r3, expr <- r4,
        answer <- r5, backend <- r1, mode <- r2, order <- r3, pager <- r4, secret <- r5,
        caller <- r6
R == INSTANCE Repository WITH repo <- r1, method <- r2, request <- r3, table <- r4,
        lazy <- r5, pc <- r6, seen <- r7, answer <- r8, before <- r9, written <- r10,
        breaks <- r11, MaxWrites <- MaxRivalWrites
D == INSTANCE DataClients WITH search <- r1, stage <- r2, index <- r3, rival <- r4,
        executed <- r5, open <- r6, result <- r7, sent <- r8, encodable <- r9, indexed <- r10,
        failedIDs <- r11,
        client <- r1, method <- r2, bad <- r3, field <- r4, driver <- r5, at <- r6, held <- r7,
        applied <- r8, answer <- r9, crashed <- r10, closing <- r11, late <- r12,
        overlap <- r13,
        run <- r1, conn <- r2, runs <- r3,
        rows <- r1, ctx <- r2, kept <- r3, told <- r4, adds <- r5, closer <- r6, closed <- r7,
        hidden <- r8, faults <- r9,
        store <- r1, defaultTTL <- r2, now <- r3, calls <- r4, entry <- r5, busy <- r6,
        lives <- r7, crossed <- r8
A == INSTANCE Authorizer WITH engine <- r1, opts <- r2, policies <- r3, inForce <- r4,
        adapter <- r5, projects <- r6, discovery <- r7, call <- r8, writer <- r9,
        changes <- r10, faults <- r11

-----------------------------------------------------------------------------
\* While another component moves, the record cache waits in one of its initial states.
Waiting ==
    component # "rowcache" =>
      /\ repo = "gorm" /\ enabled = TRUE /\ asks = "record"
      /\ viewer = [c \in Callers |-> CHOOSE v \in Viewers : TRUE]

DataInit ==
    /\ \/ component = "filters" /\ F!FilterInit /\ Idle5
       \/ component = "query" /\ Q!QueryInit /\ Idle6
       \/ component = "pagination" /\ Q!PaginationInit /\ Idle7
       \/ component = "repository" /\ R!RepoInit /\ Idle12
       \/ component = "authorizer" /\ A!AuthzInit /\ Idle12
       \/ component = "search" /\ D!SearchInit /\ Idle12
       \/ component = "dbclient" /\ D!ClientInit /\ Idle14
       \/ component = "transaction" /\ D!TxInit /\ Idle4
       \/ component = "inserter" /\ D!InserterInit /\ Idle10
       \/ component = "store" /\ D!StoreInit /\ Idle9
       \/ component = "rowcache" /\ Idle1
    /\ CacheInit /\ Waiting

DataNext ==
    /\ UNCHANGED component
    /\ \/ component = "filters" /\ F!FilterNext /\ Same5 /\ UNCHANGED cacheVars
       \/ component = "query" /\ Q!QueryNext /\ Same6 /\ UNCHANGED cacheVars
       \/ component = "pagination" /\ Q!PaginationNext /\ Same7 /\ UNCHANGED cacheVars
       \/ component = "repository" /\ R!RepoNext /\ Same12 /\ UNCHANGED cacheVars
       \/ component = "authorizer" /\ A!AuthzNext /\ Same12 /\ UNCHANGED cacheVars
       \/ component = "search" /\ D!SearchNext /\ Same12 /\ UNCHANGED cacheVars
       \/ component = "dbclient" /\ D!ClientNext /\ Same14 /\ UNCHANGED cacheVars
       \/ component = "transaction" /\ D!TxNext /\ Same4 /\ UNCHANGED cacheVars
       \/ component = "inserter" /\ D!InserterNext /\ Same10 /\ UNCHANGED cacheVars
       \/ component = "store" /\ D!StoreNext /\ Same9 /\ UNCHANGED cacheVars
       \/ component = "rowcache" /\ CacheNext /\ Same1

dataVars == <<registers, cacheVars>>
DataSpec == DataInit /\ [][DataNext]_dataVars

-----------------------------------------------------------------------------
(* The properties of the components; their modules state them in full.     *)
(* Where a module has a type invariant, it is part of them.                *)

\* A filter means the same on every backend that supports it, a query string means what
\* its grammar says, and walking the pages sees every row once
\* (crud/*/filter, crud/pagination/filter, crud/pagination/paginator).
QueriesMeanWhatTheySay ==
    /\ component = "filters" => F!PortableFilter
    /\ component = "query" => Q!QueriesMeanWhatTheySay
    /\ component = "pagination" => Q!PagesAddUp

\* An undisturbed repository call does to the table, and answers, what its contract says,
\* on every backend but those listed as diverging (crud/*/repository.go).
QuietCallsAgree == component = "repository" => R!QuietCallsAgree

\* No update or delete touches another tenant's row (crud/*/repository.go).
TenantRowsKept == [][component = "repository" => R!TouchesOwnRows]_dataVars

\* A client call, a transaction and a batch are whole when they end: what was opened is
\* closed, what was reported written is written, and nothing is written in part without an
\* error (crud/elasticsearch, crud/opensearch, crud/*/client.go, crud/clickhouse/batch.go);
\* and a key of a cache lives as long as it was told to (cache/local, cache/redis).
CallsAreWhole ==
    /\ component = "search" => D!SearchCallsSettle
    /\ component = "dbclient" => D!ClientTypeOK /\ D!ClientCallsAreWhole
    /\ component = "transaction" => D!TxTypeOK /\ D!TransactionsEnd
    /\ component = "inserter" => D!InserterTypeOK /\ D!RowsAreKept
    /\ component = "store" => D!StoreKeepsItsWord

\* Answers of an authorizer agree with the policies in force during the call
\* (security/authz/*).
DecisionsAreConsistent == component = "authorizer" => A!TypeOK /\ A!DecisionsAreConsistent
=============================================================================
