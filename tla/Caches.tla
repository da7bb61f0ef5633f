------------------------------- MODULE Caches -------------------------------
(***************************************************************************)
(* The cached calls of crud/gorm and crud/entgo (repository_cache.go) over *)
(* crud/cache: a read looks in Redis, joins the flight of its key or loads *)
(* from the database and stores what it got; a write changes the database  *)
(* and then deletes the copies of the record.  One record and one list of  *)
(* the table, which share nothing but the database: a run reads either.    *)
(*                                                                         *)
(* Definitions named Mutant... are faulty variants of the one after them.  *)
(***************************************************************************)
EXTENDS Naturals

CONSTANTS Callers,      \* goroutines that use the repository
          Viewers,      \* identities their contexts carry
          MaxWrites,    \* bound on the writes
          MaxCacheFaults \* bound on failed Redis and database calls

(* The record is there when a run begins: version 1 has been given out.    *)
ASSUME CacheAssumption == MaxWrites \in Nat \ {0}

VARIABLES repo,         \* "gorm" or "entgo"
          enabled,      \* WithCache had a Redis client
          asks,         \* "record" or "list": what the reads of this run ask for
          viewer,       \* per caller: the viewer in its context
          row,          \* version of the record, 0 when it does not exist
          writes,       \* versions given out
          settled,      \* version whose write, invalidation included, is over
          entries,      \* Redis: key -> entry, or Nothing
          call,         \* per caller: the call under way and its answer
          cacheFaults

cacheVars == <<repo, enabled, asks, viewer, row, writes, settled, entries, call, cacheFaults>>

Nothing == [ver |-> 0, viewer |-> "none", shape |-> "none", late |-> FALSE]

(* ----- Keys and calls -------------------------------------------------- *)

(* generateCacheKey: viewer and mask are part of it.  The list keys leave  *)
(* out which of the list calls asks.                                       *)
MutantGenerateCacheKey(v) == <<"id", CHOOSE w \in Viewers : TRUE>>
GormGenerateCacheKey(v) == <<"id", v>>
EntgoGenerateCacheKey(v) == <<"id", v>>
GormGenerateListCacheKey(v) == <<"list", v>>
EntgoGenerateListCacheKey(v) == <<"list", v>>
Keys == {"id", "list"} \X Viewers

(* A read: its key and the shape of what it loads.                         *)
Read(key, shape) == [kind |-> "read", key |-> key, shape |-> shape]
GormGetByIDWithCache(v) == Read(GormGenerateCacheKey(v), "record")
GormListWithPagingCache(v) == Read(GormGenerateListCacheKey(v), "list")
EntgoGetByIDWithCache(v) == Read(EntgoGenerateCacheKey(v), "record")
EntgoListsWithCache(v) == {Read(EntgoGenerateListCacheKey(v), "list")}
EntgoListTreesWithCache(v) == {Read(EntgoGenerateListCacheKey(v), "tree")}

(* GetWithCache finds no variable in a statement that was not built yet    *)
(* and reads the database.                                                 *)
GormGetWithCache(v) == [kind |-> "plain", key |-> GormGenerateCacheKey(v), shape |-> "record"]

(* The writes; a write that changed nothing (affected = 0) or failed does  *)
(* not invalidate.                                                         *)
Change(to) == [kind |-> "write", key |-> <<"id", "none">>, shape |-> to]
GormWritesWithCache == {Change("create"), Change("update"), Change("delete")}
EntgoWritesWithCache == {Change("create"), Change("update"), Change("delete")}

Calls(v) ==
    IF repo = "gorm"
    THEN {GormGetByIDWithCache(v), GormListWithPagingCache(v), GormGetWithCache(v)}
         \cup GormWritesWithCache
    ELSE {EntgoGetByIDWithCache(v)} \cup EntgoListsWithCache(v) \cup EntgoListTreesWithCache(v)
         \cup EntgoWritesWithCache

Resting == [pc |-> "rest", op |-> Change("none"), floor |-> 0, excused |-> FALSE,
            held |-> Nothing, version |-> 0, found |-> {}, answer |-> Nothing]

WithCache == enabled \in BOOLEAN

CacheInit ==
    /\ repo \in {"gorm", "entgo"} /\ WithCache
    /\ asks \in {"record", "list"} /\ viewer \in [Callers -> Viewers]
    /\ row = 1 /\ writes = 1 /\ settled = 1 /\ cacheFaults = 0
    /\ entries = [k \in Keys |-> Nothing]
    /\ call = [c \in Callers |-> Resting]

Set(c, r) == call' = [call EXCEPT ![c] = r]
Fails == cacheFaults < MaxCacheFaults /\ cacheFaults' = cacheFaults + 1

(* ----- Reads: GetOrLoad ------------------------------------------------ *)

Begin(c) ==
    /\ call[c].pc = "rest"
    /\ \E op \in Calls(viewer[c]) :
        /\ IF op.kind = "write" THEN writes < MaxWrites ELSE (op.shape = "record") = (asks = "record")
        /\ Set(c, [Resting EXCEPT !.pc = IF op.kind = "write" THEN "write"
                                         ELSE IF op.kind = "plain" \/ ~enabled THEN "plain"
                                         ELSE "get",
                                  !.op = op, !.floor = settled])
    /\ UNCHANGED <<repo, enabled, asks, viewer, row, writes, settled, entries, cacheFaults>>

Answered(c, entry) == Set(c, [call[c] EXCEPT !.pc = "done", !.answer = entry])

(* The value the database gives this caller; a missing record is an error. *)
Fetched(c) == [ver |-> row, viewer |-> viewer[c], shape |-> call[c].op.shape, late |-> FALSE]

PlainRead(c) ==
    /\ call[c].pc = "plain"
    /\ Answered(c, IF row = 0 /\ call[c].op.shape = "record" THEN Nothing ELSE Fetched(c))
    /\ UNCHANGED <<repo, enabled, asks, viewer, row, writes, settled, entries, cacheFaults>>

(* Cache.Get: a hit is the answer, an error that is no miss is returned.   *)
CacheGet(c) ==
    /\ call[c].pc = "get" /\ UNCHANGED <<repo, enabled, asks, viewer, row, writes, settled, entries>>
    /\ LET e == entries[call[c].op.key]
       IN \/ /\ UNCHANGED cacheFaults
             /\ IF e = Nothing THEN Set(c, [call[c] EXCEPT !.pc = "flight"])
                ELSE Set(c, [call[c] EXCEPT !.pc = "done", !.answer = e, !.excused = e.late])
          \/ Fails /\ Answered(c, Nothing)

(* SingleFlight.Do: the first caller of a key leads, the others wait for   *)
(* its result.                                                             *)
Flight(c) ==
    /\ call[c].pc = "flight"
    /\ LET k == call[c].op.key
           led == \E d \in Callers \ {c} : call[d].pc \in {"load", "store"} /\ call[d].op.key = k
       IN Set(c, [call[c] EXCEPT !.pc = IF led THEN "join" ELSE "load"])
    /\ UNCHANGED <<repo, enabled, asks, viewer, row, writes, settled, entries, cacheFaults>>

(* The loader, in a context that cannot be cancelled; its errors are not   *)
(* stored.                                                                 *)
Load(c) ==
    /\ call[c].pc = "load" /\ UNCHANGED <<repo, enabled, asks, viewer, row, writes, settled, entries>>
    /\ \/ /\ row # 0 \/ call[c].op.shape # "record"
          /\ UNCHANGED cacheFaults
          /\ Set(c, [call[c] EXCEPT !.pc = "store", !.held = Fetched(c), !.version = writes])
       \/ /\ row = 0 /\ call[c].op.shape = "record" /\ UNCHANGED cacheFaults
          /\ Set(c, [call[c] EXCEPT !.pc = "publish", !.held = Nothing])
       \/ Fails /\ Set(c, [call[c] EXCEPT !.pc = "publish", !.held = Nothing])

(* Cache.SetWithTTL, whose error is ignored.                               *)
Store(c) ==
    /\ call[c].pc = "store" /\ UNCHANGED <<repo, enabled, asks, viewer, row, writes, settled>>
    /\ LET e == [call[c].held EXCEPT !.late = call[c].version # writes]
       IN \/ entries' = [entries EXCEPT ![call[c].op.key] = e] /\ UNCHANGED cacheFaults
          \/ Fails /\ UNCHANGED entries
    /\ Set(c, [call[c] EXCEPT !.pc = "publish", !.version = 0])

(* The flight ends: its leader and all who joined have the same answer.    *)
Publish(c) ==
    /\ call[c].pc = "publish"
    /\ call' = [d \in Callers |->
        IF d = c \/ (call[d].pc = "join" /\ call[d].op.key = call[c].op.key)
        THEN [call[d] EXCEPT !.pc = "done", !.answer = call[c].held, !.excused = d # c]
        ELSE call[d]]
    /\ UNCHANGED <<repo, enabled, asks, viewer, row, writes, settled, entries, cacheFaults>>

Expire(k) ==
    /\ entries[k] # Nothing /\ entries' = [entries EXCEPT ![k] = Nothing]
    /\ UNCHANGED <<repo, enabled, asks, viewer, row, writes, settled, call, cacheFaults>>

(* ----- Writes ---------------------------------------------------------- *)

(* The database write; an entity without GetId() is not invalidated after  *)
(* a create or update (extractIDFromDTO), the model's entity has one.      *)
DatabaseWrite(c) ==
    /\ call[c].pc = "write"
    /\ UNCHANGED <<repo, enabled, asks, viewer, settled, entries>>
    /\ \/ /\ CASE call[c].op.shape = "create" -> row = 0 [] OTHER -> row # 0
          /\ writes < MaxWrites
          /\ writes' = writes + 1
          /\ row' = IF call[c].op.shape = "delete" THEN 0 ELSE writes + 1
          /\ UNCHANGED cacheFaults
          /\ Set(c, [call[c] EXCEPT !.pc = IF enabled THEN "scan" ELSE "wrote", !.version = writes + 1])
       \/ /\ CASE call[c].op.shape = "create" -> row # 0 [] OTHER -> row = 0
          /\ UNCHANGED <<row, writes, cacheFaults>> /\ Answered(c, Nothing)
       \/ Fails /\ UNCHANGED <<row, writes>> /\ Answered(c, Nothing)

(* invalidateCache: Scan for the copies of all viewers, then Del; an error *)
(* of either leaves the copies where they are.  List keys are not touched. *)
Spoiled == [k \in Keys |-> IF entries[k] = Nothing THEN Nothing ELSE [entries[k] EXCEPT !.late = TRUE]]
MutantScan(c) ==
    /\ call[c].pc = "scan" /\ UNCHANGED <<repo, enabled, asks, viewer, row, writes, settled>>
    /\ \/ /\ UNCHANGED <<entries, cacheFaults>>
          /\ Set(c, [call[c] EXCEPT !.pc = "del", !.found = {k \in {<<"id", viewer[c]>>} : entries[k] # Nothing}])
       \/ Fails /\ entries' = Spoiled /\ Set(c, [call[c] EXCEPT !.pc = "wrote"])
GormScan(c) ==
    /\ call[c].pc = "scan" /\ UNCHANGED <<repo, enabled, asks, viewer, row, writes, settled>>
    /\ \/ /\ UNCHANGED <<entries, cacheFaults>>
          /\ Set(c, [call[c] EXCEPT !.pc = "del", !.found = {k \in {"id"} \X Viewers : entries[k] # Nothing}])
       \/ Fails /\ entries' = Spoiled /\ Set(c, [call[c] EXCEPT !.pc = "wrote"])
EntgoScan(c) == GormScan(c)
Scan(c) == IF repo = "gorm" THEN GormScan(c) ELSE EntgoScan(c)
Del(c) ==
    /\ call[c].pc = "del" /\ UNCHANGED <<repo, enabled, asks, viewer, row, writes, settled>>
    /\ \/ entries' = [k \in Keys |-> IF k \in call[c].found THEN Nothing ELSE entries[k]] /\ UNCHANGED cacheFaults
       \/ Fails /\ entries' = Spoiled
    /\ Set(c, [call[c] EXCEPT !.pc = "wrote"])
Wrote(c) ==
    /\ call[c].pc = "wrote"
    /\ settled' = IF call[c].version > settled THEN call[c].version ELSE settled
    /\ Set(c, Resting)
    /\ UNCHANGED <<repo, enabled, asks, viewer, row, writes, entries, cacheFaults>>
Done(c) ==
    /\ call[c].pc = "done" /\ Set(c, Resting)
    /\ UNCHANGED <<repo, enabled, asks, viewer, row, writes, settled, entries, cacheFaults>>

CacheNext ==
    \/ \E c \in Callers :
        \/ Begin(c) \/ PlainRead(c) \/ CacheGet(c) \/ Flight(c) \/ Load(c) \/ Store(c) \/ Publish(c)
        \/ DatabaseWrite(c) \/ Scan(c) \/ Del(c) \/ Wrote(c) \/ Done(c)
    \/ \E k \in Keys : Expire(k)
CacheSpec == CacheInit /\ [][CacheNext]_cacheVars

CacheTypeOK ==
    /\ row \in 0 .. MaxWrites /\ writes \in 1 .. MaxWrites /\ settled \in 1 .. MaxWrites
    /\ \A c \in Callers : call[c].floor \in 1 .. MaxWrites \/ call[c].pc = "rest"

(* A cached record is never older than the last write that was over when   *)
(* the call began, and never another viewer's, unless the call joined an   *)
(* earlier flight, or the copy was stored after the write its load had     *)
(* missed, or an invalidation failed (crud/cache/support.go:88-117,        *)
(* crud/gorm/repository_cache.go:154-176, crud/entgo/repository_cache.go:  *)
(* 553-583).                                                               *)
RecordsAreFresh ==
    \A c \in Callers :
        (call[c].pc = "done" /\ call[c].answer.shape = "record") =>
            /\ call[c].answer.viewer = viewer[c]
            /\ ~call[c].excused => call[c].answer.ver >= call[c].floor

(* A cached record is the record as of the call or later, for the viewer   *)
(* who asks (repository_cache.go of crud/gorm and crud/entgo).             *)
CachesKeepTheirWord == CacheTypeOK /\ RecordsAreFresh
=============================================================================
