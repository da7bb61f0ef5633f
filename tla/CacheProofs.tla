---------------------------- MODULE CacheProofs -----------------------------
(***************************************************************************)
(* Proofs about the record caches of the repositories of crud/gorm and     *)
(* crud/entgo (Caches), for any callers, viewers and writes.               *)
(*                                                                         *)
(* A copy in the record cache may be old for a while.  What makes it safe  *)
(* is a writer that is still on its way to it: the invariant says who      *)
(* pursues each copy.                                                      *)
(***************************************************************************)
EXTENDS Caches, TLAPS

(* Steps of a cached read, of a write and of a call that leaves the cache  *)
(* alone, and the records of copies, operations and calls.                 *)
Reading == {"get", "flight", "join", "load", "store", "publish", "plain"}
Writing == {"scan", "del", "wrote"}
Uncached == {"rest", "plain", "write", "wrote", "done"}
Shapes == {"record", "list", "tree"}
CopyRecords == [ver : Nat, viewer : Viewers \cup {"none"}, shape : Shapes \cup {"none"}, late : BOOLEAN]
OpRecords == [kind : {"read", "plain", "write"}, key : {"id", "list"} \X (Viewers \cup {"none"}),
              shape : Shapes \cup {"create", "update", "delete", "none"}]
CallRecords == [pc : Reading \cup Writing \cup Uncached, op : OpRecords, floor : Nat,
                excused : BOOLEAN, held : CopyRecords, version : Nat, found : SUBSET Keys,
                answer : CopyRecords]

(* A call of a caller whose viewer is v, with s settled and w given out.   *)
ReadOp(op, v) == op.key \in Keys /\ op.key[2] = v /\ op.shape \in Shapes /\ (op.key[1] = "id" <=> op.shape = "record")
CallFacts(x, v, s, w) ==
  /\ x.pc # "rest" => x.floor \in 1 .. s
  /\ x.pc \in Reading => ReadOp(x.op, v)
  /\ x.pc = "store" => /\ x.held.viewer = v /\ x.held.shape = x.op.shape /\ ~x.held.late
                       /\ x.held.shape = "record" => x.held.ver = x.version
  /\ x.pc \in {"store", "publish"} /\ x.held.shape = "record" =>
       x.held.viewer = v /\ x.held.ver >= x.floor
  /\ x.pc \in Writing => x.version \in 2 .. w /\ x.version # s
  /\ x.pc = "done" /\ x.answer.shape = "record" =>
       x.answer.viewer = v /\ (~x.excused => x.answer.ver >= x.floor)
  /\ ~enabled => x.pc \in Uncached

(* The write of version w has not come to the copy under k yet, and will.  *)
Pursued(k, w) ==
  \E d \in Callers : /\ call[d].version = w
                     /\ call[d].pc = "scan" \/ (call[d].pc = "del" /\ k \in call[d].found)

(* What a copy under k holds, and when it must be current.                 *)
CopyFacts(e, k) ==
  e # Nothing => /\ k[1] = "id" => e.shape = "record" /\ e.viewer = k[2]
                 /\ k[1] = "list" => e.shape # "record"
CurrentCopy(e, k) ==
  e # Nothing /\ k[1] = "id" /\ ~e.late => \A w \in 1 .. writes : w > e.ver => Pursued(k, w)

(* The types, and the writers that are under way.                          *)
CacheTypes ==
  /\ enabled \in BOOLEAN /\ viewer \in [Callers -> Viewers] /\ writes \in 1 .. MaxWrites
  /\ row \in {0, writes} /\ settled \in 1 .. writes
  /\ entries \in [Keys -> CopyRecords] /\ call \in [Callers -> CallRecords]
Writers ==
  \A c, d \in Callers : c # d /\ call[c].pc \in Writing /\ call[d].pc \in Writing =>
     call[c].version # call[d].version

(* The inductive invariant of the record cache: a copy that is older than  *)
(* the last write is pursued by the invalidation of that write, or is      *)
(* marked late.                                                            *)
CacheInvariant ==
  /\ CacheTypes /\ Writers
  /\ \A c \in Callers : CallFacts(call[c], viewer[c], settled, writes)
  /\ \A k \in Keys : CopyFacts(entries[k], k) /\ CurrentCopy(entries[k], k)
  /\ ~enabled => \A k \in Keys : entries[k] = Nothing

(* The empty place of the cache.                                           *)
LEMMA NothingIsACopy == Nothing \in CopyRecords /\ Nothing.shape = "none"
BY DEF Nothing, CopyRecords, Shapes

(* A caller at rest.                                                       *)
LEMMA RestingFacts == \A v, s, w : Resting \in CallRecords /\ Resting.pc = "rest" /\ CallFacts(Resting, v, s, w)
<1>1. Change("none") \in OpRecords BY DEF Change, OpRecords
<1>2. Resting \in CallRecords /\ Resting.pc = "rest"
  BY <1>1, NothingIsACopy DEF Resting, CallRecords, Uncached
<1> QED BY <1>2 DEF CallFacts, Reading, Writing, Uncached

(* It holds with an empty cache.                                           *)
LEMMA CacheInvariantInit == CacheInit => CacheInvariant
<1> SUFFICES ASSUME CacheInit PROVE CacheInvariant OBVIOUS
<1>1. /\ \A c \in Callers : call[c] = Resting
      /\ \A k \in Keys : entries[k] = Nothing
  BY DEF CacheInit
<1>2. CacheTypes
  <2>1. enabled \in BOOLEAN BY DEF CacheInit, WithCache
  <2>2. entries \in [Keys -> CopyRecords] /\ call \in [Callers -> CallRecords]
    BY RestingFacts, NothingIsACopy, Zenon DEF CacheInit
  <2> QED BY <2>1, <2>2, CacheAssumption DEF CacheInit, CacheTypes
<1>3. Writers BY <1>1, RestingFacts DEF Writers, Writing
<1>4. \A c \in Callers : CallFacts(call[c], viewer[c], settled, writes) BY <1>1, RestingFacts, Zenon
<1>5. \A k \in Keys : CopyFacts(entries[k], k) /\ CurrentCopy(entries[k], k)
  BY <1>1 DEF CopyFacts, CurrentCopy
<1> QED BY <1>1, <1>2, <1>3, <1>4, <1>5 DEF CacheInvariant

(* One caller moves, outside the part of a write that pursues the copies.  *)
Moves(c, x) ==
  /\ x \in CallRecords /\ call' = [call EXCEPT ![c] = x]
  /\ call[c].pc \notin Writing /\ x.pc \notin Writing
  /\ CallFacts(x, viewer[c], settled, writes)
  /\ UNCHANGED <<enabled, viewer, row, writes, settled>>

(* The places of the cache that hold something new.                        *)
Replaced(k) ==
  \/ entries'[k] = entries[k]
  \/ entries'[k] = Nothing
  \/ /\ enabled /\ CopyFacts(entries'[k], k)
     /\ entries'[k].late \/ k[1] # "id" \/ entries'[k].ver >= writes

(* A caller that moves, with nothing written meanwhile, keeps it.          *)
LEMMA ReadStep ==
  ASSUME CacheInvariant, NEW c \in Callers, NEW x, Moves(c, x),
         entries' \in [Keys -> CopyRecords], \A k \in Keys : Replaced(k)
  PROVE  CacheInvariant'
<1> USE DEF Moves
<1>1. CacheTypes' BY DEF CacheInvariant, CacheTypes
<1>2. call'[c] = x /\ \A d \in Callers : d # c => call'[d] = call[d]
  BY DEF CacheInvariant, CacheTypes
<1>3. Writers' BY <1>2 DEF CacheInvariant, Writers
<1>4. \A d \in Callers : CallFacts(call[d], viewer[d], settled, writes)' <=> CallFacts(call'[d], viewer[d], settled, writes)
  BY DEF CallFacts
<1>5. \A d \in Callers : CallFacts(call[d], viewer[d], settled, writes)'
  BY <1>2, <1>4 DEF CacheInvariant
<1>6. \A k, w : Pursued(k, w) => Pursued(k, w)' BY <1>2 DEF Pursued, Writing
<1>7. ASSUME NEW k \in Keys
      PROVE  CopyFacts(entries'[k], k) /\ CurrentCopy(entries[k], k)' /\ (~enabled => entries'[k] = Nothing)
  BY <1>6 DEF CacheInvariant, CurrentCopy, CopyFacts, CopyRecords, CacheTypes, Replaced
<1>8. \A k \in Keys : CopyFacts(entries[k], k)' <=> CopyFacts(entries'[k], k) BY DEF CopyFacts
<1> QED BY <1>1, <1>3, <1>5, <1>7, <1>8 DEF CacheInvariant

(* What a step of a read leaves alone.                                     *)
Frozen == UNCHANGED <<enabled, viewer, row, writes, settled>>

(* The operations a caller can ask for, with the key under which they look *)
(* (repository_cache.go of crud/gorm and crud/entgo).                      *)
LEMMA CallsAreOps ==
  ASSUME NEW v \in Viewers, NEW op \in Calls(v)
  PROVE  op \in OpRecords /\ (op.kind # "write" => ReadOp(op, v))
<1>1. \A sh \in {"create", "update", "delete"} : Change(sh) \in OpRecords /\ Change(sh).kind = "write"
  BY DEF Change, OpRecords
<1>2. \A k \in {"read", "plain"}, t \in {"id", "list"}, sh \in Shapes :
        (t = "id" <=> sh = "record") =>
          /\ [kind |-> k, key |-> <<t, v>>, shape |-> sh] \in OpRecords
          /\ ReadOp([kind |-> k, key |-> <<t, v>>, shape |-> sh], v)
  BY DEF OpRecords, ReadOp, Keys
<1>3. CASE repo = "gorm"
  BY <1>3, <1>1, <1>2 DEF Calls, GormGetByIDWithCache, GormListWithPagingCache, GormGetWithCache,
     GormWritesWithCache, Read, GormGenerateCacheKey, GormGenerateListCacheKey, Shapes
<1>4. CASE repo # "gorm"
  BY <1>4, <1>1, <1>2 DEF Calls, EntgoGetByIDWithCache, EntgoListsWithCache, EntgoListTreesWithCache,
     EntgoWritesWithCache, Read, EntgoGenerateCacheKey, EntgoGenerateListCacheKey, Shapes
<1> QED BY <1>3, <1>4

(* What a read takes from the database is the version of that moment.      *)
LEMMA FetchedFacts ==
  ASSUME CacheInvariant, NEW c \in Callers, call[c].pc \in Reading
  PROVE  /\ Fetched(c) \in CopyRecords /\ Fetched(c).ver = row /\ Fetched(c).viewer = viewer[c]
         /\ Fetched(c).shape = call[c].op.shape /\ Fetched(c).late = FALSE
         /\ row # 0 => row >= call[c].floor /\ row = writes
<1>1. call[c].op.shape \in Shapes /\ call[c].floor \in 1 .. settled
  BY DEF CacheInvariant, CallFacts, ReadOp, Reading
<1>2. row \in Nat /\ viewer[c] \in Viewers /\ (row # 0 => row = writes) /\ settled \in 1 .. writes /\ writes \in Nat
  BY DEF CacheInvariant, CacheTypes
<1> QED BY <1>1, <1>2 DEF Fetched, CopyRecords

(* A call that is answered.                                                *)
LEMMA AnswerStep ==
  ASSUME CacheInvariant, NEW c \in Callers, NEW e \in CopyRecords, Answered(c, e), Frozen, entries' = entries,
         call[c].pc \notin Writing, call[c].pc # "rest",
         e.shape = "record" => e.viewer = viewer[c] /\ e.ver >= call[c].floor
  PROVE  CacheInvariant'
<1> DEFINE x == [call[c] EXCEPT !.pc = "done", !.answer = e]
<1>0. call[c] \in CallRecords /\ CallFacts(call[c], viewer[c], settled, writes) /\ entries \in [Keys -> CopyRecords]
  BY DEF CacheInvariant, CacheTypes
<1>1. x \in CallRecords /\ x.pc = "done" /\ x.answer = e /\ x.floor = call[c].floor
  BY <1>0, Zenon DEF CallRecords, Uncached
<1>2. call' = [call EXCEPT ![c] = x] BY DEF Answered, Set
<1> HIDE DEF x
<1>3. CallFacts(x, viewer[c], settled, writes)
  BY <1>0, <1>1 DEF CallFacts, Reading, Writing, Uncached
<1>4. Moves(c, x) BY <1>1, <1>2, <1>3 DEF Moves, Frozen, Writing
<1> QED BY <1>0, <1>4, ReadStep DEF Replaced

(* A call begins.                                                          *)
LEMMA BeginStep ==
  ASSUME CacheInvariant, NEW c \in Callers, Begin(c) PROVE CacheInvariant'
<1>1. PICK op \in Calls(viewer[c]) :
        Set(c, [Resting EXCEPT !.pc = IF op.kind = "write" THEN "write"
                                      ELSE IF op.kind = "plain" \/ ~enabled THEN "plain" ELSE "get",
                               !.op = op, !.floor = settled])
  BY Zenon DEF Begin
<1> DEFINE p == IF op.kind = "write" THEN "write" ELSE IF op.kind = "plain" \/ ~enabled THEN "plain" ELSE "get"
           x == [Resting EXCEPT !.pc = p, !.op = op, !.floor = settled]
<1>2. viewer[c] \in Viewers /\ settled \in Nat /\ settled \in 1 .. settled
  BY DEF CacheInvariant, CacheTypes
<1>3. op \in OpRecords /\ (op.kind # "write" => ReadOp(op, viewer[c])) BY <1>2, CallsAreOps
<1>4. x \in CallRecords /\ x.pc = p /\ x.op = op /\ x.floor = settled
  BY <1>2, <1>3, RestingFacts, Zenon DEF CallRecords, Reading, Uncached
<1>5. call' = [call EXCEPT ![c] = x] /\ Frozen /\ entries' = entries /\ call[c].pc = "rest"
  BY <1>1, Zenon DEF Set, Begin, Frozen
<1> HIDE DEF x
<1>6. CallFacts(x, viewer[c], settled, writes)
  BY <1>2, <1>3, <1>4 DEF CallFacts, Reading, Writing, Uncached
<1>7. Moves(c, x) BY <1>4, <1>5, <1>6 DEF Moves, Frozen, Writing
<1> QED BY <1>5, <1>7, ReadStep DEF Replaced, CacheInvariant, CacheTypes

(* A read that does not use the cache.                                     *)
LEMMA PlainReadStep ==
  ASSUME CacheInvariant, NEW c \in Callers, PlainRead(c) PROVE CacheInvariant'
<1>1. call[c].pc = "plain" /\ call[c].pc \in Reading /\ call[c].pc \notin Writing /\ Frozen /\ entries' = entries
  BY DEF PlainRead, Reading, Writing, Frozen
<1>2. CASE row = 0 /\ call[c].op.shape = "record" BY <1>2, <1>1, NothingIsACopy, AnswerStep DEF PlainRead
<1>3. CASE ~(row = 0 /\ call[c].op.shape = "record") BY <1>3, <1>1, FetchedFacts, AnswerStep, Zenon DEF PlainRead
<1> QED BY <1>2, <1>3

(* A caller that only goes on to another step of its read.                 *)
LEMMA OnwardStep ==
  ASSUME CacheInvariant, NEW c \in Callers, call[c].pc \in Reading, call[c].pc # "plain", Frozen, entries' = entries,
         NEW p \in {"flight", "join", "load"}, Set(c, [call[c] EXCEPT !.pc = p])
  PROVE  CacheInvariant'
<1> DEFINE x == [call[c] EXCEPT !.pc = p]
<1>0. call[c] \in CallRecords /\ CallFacts(call[c], viewer[c], settled, writes) /\ entries \in [Keys -> CopyRecords]
  BY DEF CacheInvariant, CacheTypes
<1>1. x \in CallRecords /\ x.pc = p /\ x.op = call[c].op /\ x.floor = call[c].floor
  BY <1>0, Zenon DEF CallRecords, Reading
<1>2. call' = [call EXCEPT ![c] = x] BY DEF Set
<1> HIDE DEF x
<1>3. call[c].pc \notin Writing /\ enabled BY <1>0 DEF CallFacts, Reading, Writing, Uncached
<1>4. CallFacts(x, viewer[c], settled, writes)
  BY <1>0, <1>1, <1>3 DEF CallFacts, Reading, Writing, Uncached
<1>5. Moves(c, x) BY <1>1, <1>2, <1>3, <1>4 DEF Moves, Frozen, Writing
<1> QED BY <1>0, <1>5, ReadStep DEF Replaced

(* The look into Redis.                                                    *)
LEMMA CacheGetStep ==
  ASSUME CacheInvariant, NEW c \in Callers, CacheGet(c) PROVE CacheInvariant'
<1> DEFINE k == call[c].op.key
           e == entries[k]
           x == [call[c] EXCEPT !.pc = "done", !.answer = e, !.excused = e.late]
<1>0. /\ call[c].pc = "get" /\ call[c].pc \in Reading /\ call[c].pc \notin Writing /\ call[c].pc # "rest"
      /\ call[c].pc # "plain" /\ Frozen /\ entries' = entries
  BY DEF CacheGet, Reading, Writing, Frozen
<1>1. /\ call[c] \in CallRecords /\ CallFacts(call[c], viewer[c], settled, writes) /\ entries \in [Keys -> CopyRecords]
      /\ settled \in 1 .. writes /\ writes \in Nat
  BY DEF CacheInvariant, CacheTypes
<1>2. k \in Keys /\ k[2] = viewer[c] /\ (k[1] = "id" <=> call[c].op.shape = "record") /\ k[1] \in {"id", "list"}
      /\ call[c].floor \in 1 .. settled /\ enabled
  BY <1>0, <1>1 DEF CallFacts, ReadOp, Keys, Uncached
<1>3. e \in CopyRecords /\ CopyFacts(e, k) /\ CurrentCopy(e, k) BY <1>1, <1>2 DEF CacheInvariant
<1>4. CASE e = Nothing /\ Set(c, [call[c] EXCEPT !.pc = "flight"]) BY <1>0, <1>4, OnwardStep, Zenon
<1>5. CASE e # Nothing /\ Set(c, x)
  <2>1. x \in CallRecords /\ x.pc = "done" /\ x.answer = e /\ x.excused = e.late /\ x.floor = call[c].floor
    BY <1>3, <1>1, Zenon DEF CopyRecords, CallRecords, Uncached
  <2>2. call' = [call EXCEPT ![c] = x] BY <1>5 DEF Set
  <2> HIDE DEF x, e
  <2>3. e.shape = "record" => k[1] = "id" /\ e.viewer = viewer[c] BY <1>2, <1>3, <1>5 DEF CopyFacts
  <2>4. e.shape = "record" /\ ~e.late => e.ver >= settled
    <3> SUFFICES ASSUME e.shape = "record", ~e.late, ~(e.ver >= settled) PROVE FALSE OBVIOUS
    <3>1. settled \in 1 .. writes /\ settled > e.ver BY <1>1, <1>3 DEF CopyRecords
    <3>2. Pursued(k, settled) BY <1>3, <1>5, <2>3, <3>1 DEF CurrentCopy
    <3>3. PICK d \in Callers : call[d].version = settled /\ call[d].pc \in Writing
      BY <3>2 DEF Pursued, Writing
    <3> QED BY <3>3 DEF CacheInvariant, CallFacts
  <2>5. e.shape = "record" /\ ~e.late => e.ver >= call[c].floor
    BY <1>1, <1>2, <1>3, <2>4 DEF CopyRecords
  <2>6. CallFacts(x, viewer[c], settled, writes)
    BY <1>2, <2>1, <2>3, <2>5, Zenon DEF CallFacts, Reading, Writing, Uncached
  <2>7. Moves(c, x) BY <1>0, <2>1, <2>2, <2>6 DEF Moves, Frozen, Writing
  <2> QED BY <1>0, <1>1, <2>7, ReadStep DEF Replaced
<1>6. CASE Answered(c, Nothing) BY <1>0, <1>6, NothingIsACopy, AnswerStep
<1> QED BY <1>4, <1>5, <1>6 DEF CacheGet

(* The single flight is joined or started.                                 *)
LEMMA FlightStep ==
  ASSUME CacheInvariant, NEW c \in Callers, Flight(c) PROVE CacheInvariant'
<1>1. call[c].pc \in Reading /\ call[c].pc # "plain" /\ Frozen /\ entries' = entries BY DEF Flight, Reading, Frozen
<1>2. \E p \in {"join", "load"} : Set(c, [call[c] EXCEPT !.pc = p]) BY DEF Flight
<1> QED BY <1>1, <1>2, OnwardStep, Zenon

(* The leader of the flight reads the database.                            *)
LEMMA LoadStep ==
  ASSUME CacheInvariant, NEW c \in Callers, Load(c) PROVE CacheInvariant'
<1>0. /\ call[c].pc = "load" /\ call[c].pc \in Reading /\ call[c].pc \notin Writing
      /\ Frozen /\ entries' = entries
  BY DEF Load, Reading, Writing, Frozen
<1>1. /\ call[c] \in CallRecords /\ CallFacts(call[c], viewer[c], settled, writes) /\ entries \in [Keys -> CopyRecords]
      /\ settled \in 1 .. writes /\ writes \in Nat
  BY DEF CacheInvariant, CacheTypes
<1>2. enabled /\ call[c].floor \in 1 .. settled /\ ReadOp(call[c].op, viewer[c])
  BY <1>0, <1>1 DEF CallFacts, Uncached
<1>3. CASE (row # 0 \/ call[c].op.shape # "record")
           /\ Set(c, [call[c] EXCEPT !.pc = "store", !.held = Fetched(c), !.version = writes])
  <2> DEFINE x == [call[c] EXCEPT !.pc = "store", !.held = Fetched(c), !.version = writes]
  <2>1. /\ Fetched(c) \in CopyRecords /\ Fetched(c).ver = row /\ Fetched(c).viewer = viewer[c]
        /\ Fetched(c).shape = call[c].op.shape /\ Fetched(c).late = FALSE
        /\ row # 0 => row >= call[c].floor /\ row = writes
    BY <1>0, FetchedFacts, Zenon
  <2>2. /\ x \in CallRecords /\ x.pc = "store" /\ x.held = Fetched(c) /\ x.version = writes
        /\ x.floor = call[c].floor /\ x.op = call[c].op
    BY <1>1, <2>1, Zenon DEF CallRecords, Reading
  <2>3. call' = [call EXCEPT ![c] = x] BY <1>3 DEF Set
  <2> HIDE DEF x
  <2>4. CallFacts(x, viewer[c], settled, writes)
    BY <1>2, <1>3, <2>1, <2>2 DEF CallFacts, Reading, Writing, Uncached
  <2>5. Moves(c, x) BY <1>0, <2>2, <2>3, <2>4 DEF Moves, Frozen, Writing
  <2> QED BY <1>0, <1>1, <2>5, ReadStep DEF Replaced
<1>4. CASE Set(c, [call[c] EXCEPT !.pc = "publish", !.held = Nothing])
  <2> DEFINE x == [call[c] EXCEPT !.pc = "publish", !.held = Nothing]
  <2>1. /\ x \in CallRecords /\ x.pc = "publish" /\ x.held = Nothing
        /\ x.floor = call[c].floor /\ x.op = call[c].op
    BY <1>1, NothingIsACopy, Zenon DEF CallRecords, Reading
  <2>2. call' = [call EXCEPT ![c] = x] BY <1>4 DEF Set
  <2> HIDE DEF x
  <2>3. CallFacts(x, viewer[c], settled, writes)
    BY <1>2, <2>1, NothingIsACopy DEF CallFacts, Reading, Writing, Uncached
  <2>4. Moves(c, x) BY <1>0, <2>1, <2>2, <2>3 DEF Moves, Frozen, Writing
  <2> QED BY <1>0, <1>1, <2>4, ReadStep DEF Replaced
<1> QED BY <1>3, <1>4 DEF Load

(* The leader stores what it read.                                         *)
LEMMA StoreStep ==
  ASSUME CacheInvariant, NEW c \in Callers, Store(c) PROVE CacheInvariant'
<1> DEFINE k == call[c].op.key
           h == call[c].held
           e == [h EXCEPT !.late = (call[c].version # writes)]
           x == [call[c] EXCEPT !.pc = "publish", !.version = 0]
<1>0. /\ call[c].pc = "store" /\ call[c].pc \in Reading /\ call[c].pc \notin Writing /\ Frozen
      /\ call' = [call EXCEPT ![c] = x]
      /\ entries' = [entries EXCEPT ![k] = e] \/ entries' = entries
  BY DEF Store, Reading, Writing, Frozen, Set
<1>1. /\ call[c] \in CallRecords /\ CallFacts(call[c], viewer[c], settled, writes) /\ entries \in [Keys -> CopyRecords]
      /\ writes \in Nat
  BY DEF CacheInvariant, CacheTypes
<1>2. enabled /\ call[c].floor \in 1 .. settled /\ ReadOp(call[c].op, viewer[c]) /\ k \in Keys
  BY <1>0, <1>1 DEF CallFacts, Uncached, ReadOp
<1>3. /\ h.viewer = viewer[c] /\ h.shape = call[c].op.shape
      /\ h.shape = "record" => h.ver = call[c].version /\ h.ver >= call[c].floor
      /\ h \in CopyRecords
  BY <1>0, <1>1 DEF CallFacts, CallRecords
<1>4. /\ x \in CallRecords /\ x.pc = "publish" /\ x.held = h
      /\ x.floor = call[c].floor /\ x.op = call[c].op
  BY <1>1, Zenon DEF CallRecords, Reading
<1>5. /\ e \in CopyRecords /\ e.viewer = h.viewer /\ e.shape = h.shape /\ e.ver = h.ver
      /\ e.late <=> call[c].version # writes
  BY <1>3, Zenon DEF CopyRecords
<1> HIDE DEF x, e
<1>6. CallFacts(x, viewer[c], settled, writes)
  BY <1>2, <1>3, <1>4 DEF CallFacts, Reading, Writing, Uncached
<1>7. Moves(c, x) BY <1>0, <1>4, <1>6 DEF Moves, Frozen, Writing
<1>8. CopyFacts(e, k) /\ (e.late \/ k[1] # "id" \/ e.ver >= writes)
  BY <1>1, <1>2, <1>3, <1>5 DEF CopyFacts, ReadOp
<1>9. entries' \in [Keys -> CopyRecords] /\ \A j \in Keys : Replaced(j)
  BY <1>0, <1>1, <1>2, <1>5, <1>8 DEF Replaced
<1> QED BY <1>7, <1>9, ReadStep

(* The caller takes its answer.                                            *)
LEMMA DoneStep ==
  ASSUME CacheInvariant, NEW c \in Callers, Done(c) PROVE CacheInvariant'
<1>1. Moves(c, Resting) BY RestingFacts DEF Done, Moves, Set, Writing
<1> QED BY <1>1, ReadStep DEF Done, Replaced, CacheInvariant, CacheTypes

(* The leader hands its answer to the callers that joined.                 *)
LEMMA PublishStep ==
  ASSUME CacheInvariant, NEW c \in Callers, Publish(c) PROVE CacheInvariant'
<1> DEFINE h == call[c].held
           joined(d) == d = c \/ (call[d].pc = "join" /\ call[d].op.key = call[c].op.key)
           x(d) == [call[d] EXCEPT !.pc = "done", !.answer = h, !.excused = (d # c)]
<1>0. call[c].pc = "publish" /\ Frozen /\ entries' = entries
      /\ call' = [d \in Callers |-> IF joined(d) THEN x(d) ELSE call[d]]
  BY Zenon DEF Publish, Frozen
<1>1. /\ \A d \in Callers : call[d] \in CallRecords /\ CallFacts(call[d], viewer[d], settled, writes)
      /\ entries \in [Keys -> CopyRecords]
  BY DEF CacheInvariant, CacheTypes
<1>2. h \in CopyRecords /\ (h.shape = "record" => h.viewer = viewer[c] /\ h.ver >= call[c].floor)
      /\ ReadOp(call[c].op, viewer[c])
  BY <1>0, <1>1, Zenon DEF CallRecords, CallFacts, Reading
<1>3. ASSUME NEW d \in Callers, joined(d)
      PROVE  /\ x(d) \in CallRecords /\ x(d).pc = "done" /\ CallFacts(x(d), viewer[d], settled, writes)
             /\ call[d].pc \in {"publish", "join"}
  <2>1. /\ x(d) \in CallRecords /\ x(d).pc = "done" /\ x(d).answer = h /\ x(d).floor = call[d].floor
        /\ x(d).excused = (d # c)
    BY <1>1, <1>2, Zenon DEF CallRecords, Uncached
  <2>2. call[d].pc \in {"publish", "join"} /\ call[d].pc \in Reading /\ call[d].pc # "rest"
    BY <1>0, <1>3, Zenon DEF Reading
  <2>3. viewer[d] = viewer[c] BY <1>1, <1>2, <1>3, <2>2 DEF CallFacts, ReadOp
  <2>4. call[d].floor \in 1 .. settled BY <1>1, <2>2 DEF CallFacts
  <2> HIDE DEF x
  <2>5. CallFacts(x(d), viewer[d], settled, writes)
    BY <1>2, <2>1, <2>3, <2>4, Zenon DEF CallFacts, Reading, Writing, Uncached
  <2> QED BY <2>1, <2>2, <2>5
<1> HIDE DEF x
<1>4. \A d \in Callers : call'[d] = call[d] \/ (call'[d] = x(d) /\ joined(d)) BY <1>0
<1>5. call' \in [Callers -> CallRecords] BY <1>0, <1>1, <1>3
<1>6. CacheTypes' BY <1>0, <1>5 DEF Frozen, CacheInvariant, CacheTypes
<1>7. Writers'
  <2>1. \A d \in Callers : call'[d].pc \in Writing => call'[d] = call[d] BY <1>3, <1>4, Zenon DEF Writing
  <2> QED BY <2>1, Zenon DEF CacheInvariant, Writers
<1>8. \A d \in Callers : CallFacts(call'[d], viewer[d], settled, writes) BY <1>1, <1>3, <1>4, Zenon
<1>9. \A d \in Callers : CallFacts(call[d], viewer[d], settled, writes)'
  BY <1>0, <1>8 DEF CallFacts, Frozen
<1>10. \A k, w : Pursued(k, w) => Pursued(k, w)' BY <1>3, <1>4 DEF Pursued
<1>11. \A k \in Keys : CopyFacts(entries[k], k)' /\ CurrentCopy(entries[k], k)'
  BY <1>0, <1>10 DEF CacheInvariant, CopyFacts, CurrentCopy, Frozen
<1> QED BY <1>0, <1>6, <1>7, <1>9, <1>11 DEF CacheInvariant, Frozen

(* Redis drops a copy.                                                     *)
LEMMA ExpireStep ==
  ASSUME CacheInvariant, NEW k \in Keys, Expire(k) PROVE CacheInvariant'
<1>0. /\ entries' = [entries EXCEPT ![k] = Nothing] /\ entries \in [Keys -> CopyRecords]
      /\ UNCHANGED <<enabled, viewer, row, writes, settled, call>>
  BY DEF Expire, CacheInvariant, CacheTypes
<1>1. CacheTypes' BY <1>0, NothingIsACopy DEF CacheInvariant, CacheTypes
<1>2. \A j \in Keys : entries'[j] = entries[j] \/ entries'[j] = Nothing BY <1>0
<1>3. Writers' /\ \A c \in Callers : CallFacts(call[c], viewer[c], settled, writes)'
  BY <1>0 DEF CacheInvariant, Writers, CallFacts
<1>4. \A j, w : Pursued(j, w)' <=> Pursued(j, w) BY <1>0 DEF Pursued
<1>5. \A j \in Keys : CopyFacts(entries[j], j)' /\ CurrentCopy(entries[j], j)' /\ (~enabled => entries'[j] = Nothing)
  BY <1>0, <1>2, <1>4 DEF CacheInvariant, CopyFacts, CurrentCopy
<1> QED BY <1>0, <1>1, <1>3, <1>5 DEF CacheInvariant

(* The database takes a write, from which moment on the copies are         *)
(* pursued.                                                                *)
LEMMA DatabaseWriteStep ==
  ASSUME CacheInvariant, NEW c \in Callers, DatabaseWrite(c) PROVE CacheInvariant'
<1>0. /\ call[c].pc = "write" /\ call[c].pc \notin Writing /\ call[c].pc # "rest"
      /\ UNCHANGED <<enabled, viewer, settled, entries>>
  BY DEF DatabaseWrite, Writing
<1>1. /\ CacheTypes /\ call[c] \in CallRecords /\ CallFacts(call[c], viewer[c], settled, writes)
      /\ writes \in Nat /\ settled \in 1 .. writes
  BY DEF CacheInvariant, CacheTypes
<1>2. CASE UNCHANGED <<row, writes>> /\ Answered(c, Nothing)
  BY <1>0, <1>2, NothingIsACopy, AnswerStep DEF Frozen
<1>3. CASE /\ writes < MaxWrites /\ writes' = writes + 1
           /\ row' = IF call[c].op.shape = "delete" THEN 0 ELSE writes + 1
           /\ Set(c, [call[c] EXCEPT !.pc = IF enabled THEN "scan" ELSE "wrote", !.version = writes + 1])
  <2> DEFINE x == [call[c] EXCEPT !.pc = IF enabled THEN "scan" ELSE "wrote", !.version = writes + 1]
  <2>1. /\ x \in CallRecords /\ x.pc = (IF enabled THEN "scan" ELSE "wrote") /\ x.version = writes + 1
        /\ x.floor = call[c].floor
    <3>1. writes + 1 \in Nat BY <1>1
    <3> QED BY <1>1, <3>1, Zenon DEF CallRecords, Writing
  <2>2. call' = [call EXCEPT ![c] = x] BY <1>3 DEF Set
  <2> HIDE DEF x
  <2>3. call'[c] = x /\ \A d \in Callers : d # c => call'[d] = call[d] BY <1>1, <2>2 DEF CacheTypes
  <2>4. CacheTypes' BY <1>0, <1>1, <1>3, <2>1, <2>2, CacheAssumption DEF CacheTypes
  <2>5. Writers' BY <1>1, <2>1, <2>3 DEF CacheInvariant, CallFacts, Writers
  <2>6. CallFacts(x, viewer[c], settled, writes')
    BY <1>0, <1>1, <1>3, <2>1 DEF CallFacts, Reading, Writing, Uncached
  <2>7. \A d \in Callers : CallFacts(call[d], viewer[d], settled, writes)'
    <3> TAKE d \in Callers
    <3>1. CallFacts(call[d], viewer[d], settled, writes)' <=> CallFacts(call'[d], viewer[d], settled, writes')
      BY <1>0 DEF CallFacts
    <3>2. CASE d = c BY <2>3, <2>6, <3>1, <3>2
    <3>3. CASE d # c BY <1>1, <1>3, <2>3, <3>1, <3>3 DEF CacheInvariant, CallFacts
    <3> QED BY <3>2, <3>3
  <2>8. \A k, w : Pursued(k, w) => Pursued(k, w)' BY <1>0, <2>3 DEF Pursued
  <2>9. \A k, w : enabled /\ w = writes + 1 => Pursued(k, w)' BY <2>1, <2>3 DEF Pursued
  <2>10. \A k \in Keys : CopyFacts(entries[k], k)' /\ CurrentCopy(entries[k], k)' /\ (~enabled => entries'[k] = Nothing)
    <3> TAKE k \in Keys
    <3>1. CopyFacts(entries[k], k)' /\ (~enabled => entries'[k] = Nothing)
      BY <1>0 DEF CacheInvariant, CopyFacts
    <3>2. CASE ~enabled BY <3>1, <3>2 DEF CurrentCopy
    <3>3. CASE enabled
      <4>1. CurrentCopy(entries[k], k) BY DEF CacheInvariant
      <4>2. \A w \in 1 .. writes' : w \in 1 .. writes \/ w = writes + 1 BY <1>1, <1>3
      <4>3. ASSUME entries'[k] # Nothing, k[1] = "id", ~entries'[k].late, NEW w \in 1 .. writes', w > entries'[k].ver
            PROVE  Pursued(k, w)' BY <1>0, <4>1, <4>3, <2>8, <2>9, <3>3, <4>2 DEF CurrentCopy
      <4> QED BY <3>1, <4>3, Zenon DEF CurrentCopy
    <3> QED BY <1>1, <3>1, <3>2, <3>3
  <2> QED BY <1>0, <2>4, <2>5, <2>7, <2>10 DEF CacheInvariant
<1> QED BY <1>2, <1>3 DEF DatabaseWrite

(* Copies that were spoiled are not claimed to be current.                 *)
LEMMA SpoiledFacts ==
  ASSUME CacheInvariant
  PROVE  /\ Spoiled \in [Keys -> CopyRecords]
         /\ \A k \in Keys : /\ CopyFacts(Spoiled[k], k) /\ (Spoiled[k] # Nothing => Spoiled[k].late)
                            /\ ~enabled => Spoiled[k] = Nothing
<1>0. entries \in [Keys -> CopyRecords] BY DEF CacheInvariant, CacheTypes
<1>1. ASSUME NEW k \in Keys
      PROVE  /\ Spoiled[k] \in CopyRecords /\ CopyFacts(Spoiled[k], k)
             /\ Spoiled[k] # Nothing => Spoiled[k].late
             /\ ~enabled => Spoiled[k] = Nothing
  <2>0. entries[k] \in CopyRecords /\ CopyFacts(entries[k], k) /\ (~enabled => entries[k] = Nothing)
    BY <1>0 DEF CacheInvariant
  <2>1. CASE entries[k] = Nothing BY <2>1, NothingIsACopy DEF Spoiled, CopyFacts
  <2>2. CASE entries[k] # Nothing
    <3> DEFINE e == [entries[k] EXCEPT !.late = TRUE]
    <3>1. Spoiled[k] = e BY <2>2 DEF Spoiled
    <3>2. e \in CopyRecords /\ e.late = TRUE /\ e.shape = entries[k].shape /\ e.viewer = entries[k].viewer
      BY <2>0, Zenon DEF CopyRecords
    <3> HIDE DEF e
    <3> QED BY <2>0, <2>2, <3>1, <3>2 DEF CopyFacts
  <2> QED BY <2>1, <2>2
<1>2. Spoiled = [k \in Keys |-> Spoiled[k]] BY DEF Spoiled
<1> HIDE DEF Spoiled
<1> QED BY <1>1, <1>2, Zenon

(* A writer goes on with its invalidation, or ends its write.              *)
Pursues(x, k) == x.pc = "scan" \/ (x.pc = "del" /\ k \in x.found)
Handled(c, x, k) ==
  /\ CopyFacts(entries'[k], k) /\ (~enabled => entries'[k] = Nothing)
  /\ \/ entries'[k] = Nothing \/ entries'[k].late
     \/ entries'[k] = entries[k] /\ (k[1] = "id" /\ Pursues(call[c], k) => Pursues(x, k))
WriterMoves(c, x) ==
  /\ call[c].pc \in Writing /\ x \in CallRecords /\ call' = [call EXCEPT ![c] = x]
  /\ x.pc \in Writing \cup {"rest"}
  /\ x.pc # "rest" => x.version = call[c].version /\ x.floor = call[c].floor
  /\ ~enabled => x.pc \in {"wrote", "rest"}
  /\ UNCHANGED <<enabled, viewer, row, writes>>
  /\ settled' \in settled .. writes
  /\ settled' = settled \/ (settled' = call[c].version /\ x.pc = "rest")

(* A writer that moves keeps the invariant.                                *)
LEMMA WriterStep ==
  ASSUME CacheInvariant, NEW c \in Callers, NEW x, WriterMoves(c, x),
         entries' \in [Keys -> CopyRecords], \A k \in Keys : Handled(c, x, k)
  PROVE  CacheInvariant'
<1>0. /\ CacheTypes /\ CallFacts(call[c], viewer[c], settled, writes) /\ writes \in Nat /\ settled \in 1 .. writes
  BY DEF CacheInvariant, CacheTypes
<1>1. call'[c] = x /\ \A d \in Callers : d # c => call'[d] = call[d]
  BY <1>0 DEF CacheTypes, WriterMoves
<1>2. CacheTypes' BY <1>0 DEF CacheTypes, WriterMoves
<1>3. enabled' = enabled /\ viewer' = viewer /\ writes' = writes BY DEF WriterMoves
<1>4. settled' \in settled .. writes BY DEF WriterMoves
<1>5. settled' = settled \/ (settled' = call[c].version /\ x.pc = "rest") BY DEF WriterMoves
<1>6. call[c].pc \in Writing BY DEF WriterMoves
<1>7. x.pc # "rest" => /\ x.pc \in Writing /\ x.version = call[c].version /\ x.floor = call[c].floor
                       /\ ~enabled => x.pc = "wrote"
  BY Zenon DEF WriterMoves
<1>8. Writers'
  <2>1. x.pc \in Writing => x.version = call[c].version BY <1>7, Zenon DEF Writing
  <2> QED BY <1>1, <1>6, <2>1 DEF CacheInvariant, Writers
<1>9. CallFacts(x, viewer[c], settled', writes)
  <2>1. CASE x.pc = "rest" BY <2>1, Zenon DEF CallFacts, Reading, Writing, Uncached
  <2>2. CASE x.pc # "rest"
    <3>1. call[c].pc # "rest" BY <1>6, Zenon DEF Writing
    <3>2. call[c].floor \in 1 .. settled /\ call[c].version \in 2 .. writes /\ call[c].version # settled
      BY <1>0, <1>6, <3>1, Zenon DEF CallFacts
    <3>3. x.floor \in 1 .. settled' /\ x.version \in 2 .. writes /\ x.version # settled'
      BY <1>5, <1>7, <2>2, <3>2, Zenon
    <3>4. x.pc \notin Reading /\ x.pc \notin {"store", "publish"} /\ x.pc # "done" /\ (~enabled => x.pc \in Uncached)
      BY <1>7, <2>2, Zenon DEF Reading, Writing, Uncached
    <3> QED BY <3>3, <3>4, Zenon DEF CallFacts
  <2> QED BY <2>1, <2>2
<1>10. ASSUME NEW d \in Callers PROVE CallFacts(call[d], viewer[d], settled, writes)'
  <2>1. CallFacts(call[d], viewer[d], settled, writes)' <=> CallFacts(call'[d], viewer[d], settled', writes)
    BY <1>3 DEF CallFacts
  <2>2. CASE d = c BY <1>1, <1>9, <2>1, <2>2
  <2>3. CASE d # c
    <3>1. CallFacts(call[d], viewer[d], settled, writes) BY DEF CacheInvariant
    <3>2. call[d].pc \in Writing => call[d].version # call[c].version
      BY <1>6, <2>3, Zenon DEF CacheInvariant, Writers
    <3>3. call[d].pc \in Writing => call[d].version \in 2 .. writes /\ call[d].version # settled
      BY <3>1, Zenon DEF CallFacts
    <3>4. call[d].pc # "rest" => call[d].floor \in 1 .. settled BY <3>1, Zenon DEF CallFacts
    <3>5. call[d].pc \in Writing => call[d].version # settled' BY <1>5, <3>2, <3>3, Zenon
    <3>6. call[d].pc # "rest" => call[d].floor \in 1 .. settled' BY <1>0, <1>4, <3>4
    <3>7. CallFacts(call[d], viewer[d], settled', writes) BY <3>1, <3>3, <3>5, <3>6, Zenon DEF CallFacts
    <3> QED BY <1>1, <2>1, <2>3, <3>7
  <2> QED BY <2>2, <2>3
<1>11. ASSUME NEW k \in Keys PROVE CopyFacts(entries[k], k)' /\ CurrentCopy(entries[k], k)' /\ (~enabled => entries'[k] = Nothing)
  <2>0. Handled(c, x, k) OBVIOUS
  <2>1. CopyFacts(entries[k], k)' /\ (~enabled => entries'[k] = Nothing) BY <2>0 DEF CopyFacts, Handled
  <2>2. CASE entries'[k] = Nothing \/ entries'[k].late \/ k[1] # "id" BY <2>1, <2>2, Zenon DEF CurrentCopy
  <2>3. CASE ~(entries'[k] = Nothing \/ entries'[k].late \/ k[1] # "id")
    <3>1. entries'[k] = entries[k] /\ (Pursues(call[c], k) => Pursues(x, k)) BY <2>0, <2>3, Zenon DEF Handled
    <3>2. CurrentCopy(entries[k], k) BY DEF CacheInvariant
    <3>3. ASSUME NEW w, Pursued(k, w) PROVE Pursued(k, w)'
      <4>1. PICK d \in Callers : call[d].version = w /\ Pursues(call[d], k)
        BY <3>3 DEF Pursued, Pursues
      <4>2. Pursues(x, k) => x.pc # "rest" BY DEF Pursues
      <4>3. d = c => Pursues(x, k) /\ x.version = w BY <1>7, <3>1, <4>1, <4>2
      <4>4. call'[d].version = w /\ Pursues(call'[d], k) BY <1>1, <4>1, <4>3
      <4> QED BY <4>4 DEF Pursued, Pursues
    <3> QED BY <1>3, <2>1, <3>1, <3>2, <3>3, Zenon DEF CurrentCopy
  <2> QED BY <2>2, <2>3
<1> QED BY <1>2, <1>3, <1>8, <1>10, <1>11 DEF CacheInvariant

(* An invalidation that fails marks the copies it leaves.                  *)
LEMMA SpoilsStep ==
  ASSUME CacheInvariant, NEW c \in Callers, call[c].pc \in Writing, enabled,
         UNCHANGED <<enabled, viewer, row, writes, settled>>, entries' = Spoiled,
         Set(c, [call[c] EXCEPT !.pc = "wrote"])
  PROVE  CacheInvariant'
<1> DEFINE x == [call[c] EXCEPT !.pc = "wrote"]
<1>1. call[c] \in CallRecords /\ settled \in settled .. writes BY DEF CacheInvariant, CacheTypes
<1>2. /\ x \in CallRecords /\ x.pc = "wrote" /\ x.version = call[c].version /\ x.floor = call[c].floor
  BY <1>1, Zenon DEF CallRecords, Writing
<1>3. call' = [call EXCEPT ![c] = x] BY DEF Set
<1> HIDE DEF x
<1>4. WriterMoves(c, x) BY <1>1, <1>2, <1>3 DEF WriterMoves, Writing
<1>5. \A k \in Keys : Handled(c, x, k) BY SpoiledFacts DEF Handled
<1> QED BY <1>4, <1>5, SpoiledFacts, WriterStep

(* A writer scans for the keys to delete.                                  *)
LEMMA ScanStep ==
  ASSUME CacheInvariant, NEW c \in Callers, Scan(c) PROVE CacheInvariant'
<1>1. GormScan(c) BY DEF Scan, EntgoScan
<1>2. /\ call[c].pc = "scan" /\ call[c].pc \in Writing /\ call[c].pc # "wrote" /\ UNCHANGED <<enabled, viewer, row, writes, settled>>
  BY <1>1 DEF GormScan, Writing
<1>3. /\ call[c] \in CallRecords /\ entries \in [Keys -> CopyRecords] /\ settled \in settled .. writes /\ enabled
  BY <1>2 DEF CacheInvariant, CacheTypes, CallFacts, Uncached
<1>4. CASE entries' = entries /\ Set(c, [call[c] EXCEPT !.pc = "del", !.found = {k \in {"id"} \X Viewers : entries[k] # Nothing}])
  <2> DEFINE f == {k \in {"id"} \X Viewers : entries[k] # Nothing}
             x == [call[c] EXCEPT !.pc = "del", !.found = f]
  <2>1. f \in SUBSET Keys /\ \A k \in Keys : k[1] = "id" /\ entries[k] # Nothing => k \in f BY DEF Keys
  <2> HIDE DEF f
  <2>2. /\ x \in CallRecords /\ x.pc = "del" /\ x.found = f /\ x.version = call[c].version /\ x.floor = call[c].floor
    BY <1>3, <2>1, Zenon DEF CallRecords, Writing
  <2>3. call' = [call EXCEPT ![c] = x] BY <1>4 DEF Set, f
  <2> HIDE DEF x
  <2>4. WriterMoves(c, x) BY <1>2, <1>3, <2>2, <2>3 DEF WriterMoves, Writing
  <2>5. \A k \in Keys : Handled(c, x, k)
    BY <1>3, <1>4, <2>1, <2>2 DEF CacheInvariant, Handled, Pursues
  <2> QED BY <1>3, <1>4, <2>4, <2>5, WriterStep
<1>5. CASE entries' = Spoiled /\ Set(c, [call[c] EXCEPT !.pc = "wrote"])
  BY <1>2, <1>3, <1>5, SpoilsStep
<1> QED BY <1>1, <1>4, <1>5 DEF GormScan

(* A writer deletes what it found.                                         *)
LEMMA DelStep ==
  ASSUME CacheInvariant, NEW c \in Callers, Del(c) PROVE CacheInvariant'
<1>2. /\ call[c].pc = "del" /\ call[c].pc \in Writing /\ call[c].pc # "wrote" /\ UNCHANGED <<enabled, viewer, row, writes, settled>>
      /\ Set(c, [call[c] EXCEPT !.pc = "wrote"])
  BY DEF Del, Writing
<1>3. /\ call[c] \in CallRecords /\ entries \in [Keys -> CopyRecords] /\ settled \in settled .. writes /\ enabled
  BY <1>2 DEF CacheInvariant, CacheTypes, CallFacts, Uncached
<1>4. CASE entries' = [k \in Keys |-> IF k \in call[c].found THEN Nothing ELSE entries[k]]
  <2> DEFINE x == [call[c] EXCEPT !.pc = "wrote"]
  <2>2. /\ x \in CallRecords /\ x.pc = "wrote" /\ x.version = call[c].version /\ x.floor = call[c].floor
    BY <1>3, Zenon DEF CallRecords, Writing
  <2>3. call' = [call EXCEPT ![c] = x] BY <1>2 DEF Set
  <2> HIDE DEF x
  <2>4. WriterMoves(c, x) BY <1>2, <1>3, <2>2, <2>3 DEF WriterMoves, Writing
  <2>5. entries' \in [Keys -> CopyRecords] BY <1>3, <1>4, NothingIsACopy
  <2>6. ASSUME NEW k \in Keys PROVE Handled(c, x, k)
    BY <1>4, <1>2, <1>3 DEF Handled, CopyFacts, Pursues, CacheInvariant
  <2> QED BY <2>4, <2>5, <2>6, WriterStep
<1>5. CASE entries' = Spoiled BY <1>2, <1>3, <1>5, SpoilsStep
<1> QED BY <1>4, <1>5 DEF Del

(* A write is over.                                                        *)
LEMMA WroteStep ==
  ASSUME CacheInvariant, NEW c \in Callers, Wrote(c) PROVE CacheInvariant'
<1>1. /\ call[c].pc = "wrote" /\ call[c].pc \in Writing /\ UNCHANGED <<enabled, viewer, row, writes, entries>>
      /\ settled' = (IF call[c].version > settled THEN call[c].version ELSE settled)
      /\ call' = [call EXCEPT ![c] = Resting]
  BY DEF Wrote, Writing, Set
<1>2. call[c].version \in 2 .. writes /\ settled \in 1 .. writes /\ writes \in Nat /\ entries \in [Keys -> CopyRecords]
  BY <1>1 DEF CacheInvariant, CacheTypes, CallFacts
<1>3. settled' \in settled .. writes /\ (settled' = settled \/ settled' = call[c].version) BY <1>1, <1>2
<1>4. WriterMoves(c, Resting) BY <1>1, <1>3, RestingFacts DEF WriterMoves
<1>5. \A k \in Keys : Handled(c, Resting, k) BY <1>1 DEF CacheInvariant, Handled, Pursues
<1> QED BY <1>1, <1>2, <1>4, <1>5, WriterStep

(* Every step of the record cache keeps it.                                *)
LEMMA CacheInvariantNext == CacheInvariant /\ [CacheNext]_cacheVars => CacheInvariant'
<1> SUFFICES ASSUME CacheInvariant, [CacheNext]_cacheVars PROVE CacheInvariant' OBVIOUS
<1>1. CASE UNCHANGED cacheVars
  <2>1. CacheTypes' /\ Writers' BY <1>1 DEF cacheVars, CacheInvariant, CacheTypes, Writers
  <2>2. \A c \in Callers : CallFacts(call[c], viewer[c], settled, writes)'
    BY <1>1 DEF cacheVars, CacheInvariant, CallFacts
  <2>3. \A k \in Keys : CopyFacts(entries[k], k)' /\ CurrentCopy(entries[k], k)'
    BY <1>1 DEF cacheVars, CacheInvariant, CopyFacts, CurrentCopy, Pursued
  <2> QED BY <1>1, <2>1, <2>2, <2>3 DEF cacheVars, CacheInvariant
<1>2. CASE CacheNext
  <2>1. CASE \E k \in Keys : Expire(k) BY <2>1, ExpireStep
  <2>2. ASSUME NEW c \in Callers,
               \/ Begin(c) \/ PlainRead(c) \/ CacheGet(c) \/ Flight(c) \/ Load(c) \/ Store(c) \/ Publish(c)
               \/ DatabaseWrite(c) \/ Scan(c) \/ Del(c) \/ Wrote(c) \/ Done(c)
        PROVE  CacheInvariant'
    BY <2>2, BeginStep, PlainReadStep, CacheGetStep, FlightStep, LoadStep, StoreStep, PublishStep, DatabaseWriteStep,
       ScanStep, DelStep, WroteStep, DoneStep
  <2> QED BY <1>2, <2>1, <2>2 DEF CacheNext
<1> QED BY <1>1, <1>2

(* A cached read answers with the record as of its call or later, for the  *)
(* viewer who asks, except where an invalidation failed or a read raced it *)
(* (repository_cache.go of crud/gorm and crud/entgo), for any callers,     *)
(* viewers and writes.                                                     *)
LEMMA RecordsStayFresh == CacheSpec => [](CacheTypeOK /\ RecordsAreFresh)
<1>1. CacheInvariant => CacheTypeOK
  BY CacheAssumption DEF CacheInvariant, CacheTypes, CallFacts, CacheTypeOK
<1>2. CacheInvariant => RecordsAreFresh BY DEF CacheInvariant, CallFacts, RecordsAreFresh
<1> QED BY <1>1, <1>2, CacheInvariantInit, CacheInvariantNext, PTL DEF CacheSpec

(* The record caches keep what they promise to every caller: a cached      *)
(* record is the record as of the call or later, for the viewer who asks   *)
(* (repository_cache.go of crud/gorm and crud/entgo).                      *)
THEOREM CachesCorrect == CacheSpec => []CachesKeepTheirWord
<1>1. CacheTypeOK /\ RecordsAreFresh => CachesKeepTheirWord BY DEF CachesKeepTheirWord
<1> QED BY <1>1, RecordsStayFresh, PTL
=============================================================================
