---------------------------- MODULE InboxProofs ----------------------------
(***************************************************************************)
(* The effects of Inbox and Barrier (transaction/outbox/inbox.go) for any  *)
(* number of events, handlers, workers and mishaps.  EffectsAreCounted is  *)
(* not inductive: it rests on the primary key of the inbox table, which    *)
(* lets one call at a time past the record of an event.                    *)
(***************************************************************************)
EXTENDS Inbox, TLAPS

\* A call that is past its record.
Inside(w) == worker[w].pc \in {"handle", "commit"}

\* One call at a time is past the record of a key.
OneInside == \A v, w \in Workers : Inside(v) /\ Inside(w) /\ Key(v) = Key(w) => v = w

\* Inbox records first: an effect needs a record, and the call that made the
\* record has not had its effect yet.
InboxRecords ==
    /\ \A h \in Inboxes, m \in Events :
         /\ applied[h][m] <= 1
         /\ <<h, eventID(m)>> \notin inbox => applied[h][m] = 0
    /\ \A w \in Workers : Inside(w) /\ worker[w].h \in Inboxes =>
         Key(w) \in inbox /\ applied[worker[w].h][worker[w].m] = 0

\* Barrier commits both together: while a call is inside there is no record.
BarrierRecords ==
    /\ BarrierExactlyOnce
    /\ \A w \in Workers : Inside(w) /\ worker[w].h \in Barriers => Key(w) \notin inbox
    /\ \A h \in Barriers, m \in Events : <<h, m>> \in acked => <<h, eventID(m)>> \in inbox

InboxInv == InboxTypeOK /\ OneInside /\ InboxRecords /\ BarrierRecords

-----------------------------------------------------------------------------
LEMMA InboxStart == InboxInit => InboxInv
  <1> SUFFICES ASSUME InboxInit PROVE InboxInv
    OBVIOUS
  <1>1. InboxTypeOK
    BY DEF InboxInit, InboxTypeOK, Worker
  <1>2. \A w \in Workers : ~Inside(w)
    BY DEF InboxInit, Inside, Idle
  <1>3. InboxRecords /\ BarrierRecords
    BY <1>2 DEF InboxInit, InboxRecords, BarrierRecords, BarrierExactlyOnce, Handlers
  <1> QED
    BY <1>1, <1>2, <1>3 DEF InboxInv, OneInside

\* Distinct events that have IDs have distinct keys.
LEMMA KeysDiffer ==
    ASSUME NEW m \in Events \ Anonymous, NEW n \in Events, eventID(m) = eventID(n)
    PROVE  m = n
  <1>1. eventID(m) = {m}
    BY DEF eventID
  <1>2. CASE n \in Anonymous
    <2>1. {m} = Anonymous
      BY <1>1, <1>2 DEF eventID
    <2> QED
      BY <2>1
  <1>3. CASE n \notin Anonymous
    BY <1>1, <1>3 DEF eventID
  <1> QED
    BY <1>2, <1>3

\* The state of a busy worker.
LEMMA BusyWorker ==
    ASSUME InboxTypeOK, NEW w \in Workers, worker[w].pc # "idle"
    PROVE  /\ worker[w] \in [pc: {"begin", "handle", "commit"}, h: Handlers, m: Events]
           /\ worker[w].h \in Handlers /\ worker[w].m \in Events
           /\ Key(w) \in Keys
  <1>1. worker[w] \in Worker
    BY DEF InboxTypeOK
  <1>2. worker[w] # Idle
    BY DEF Idle
  <1> QED
    BY <1>1, <1>2 DEF Worker, Key, Keys

\* A handler's call ends.
LEMMA Returned ==
    ASSUME InboxTypeOK, NEW w \in Workers, Return(w)
    PROVE  /\ worker' \in [Workers -> Worker]
           /\ ~Inside(w)'
           /\ \A v \in Workers : Inside(v)' => v # w /\ Inside(v) /\ worker'[v] = worker[v]
  BY DEF Return, InboxTypeOK, Worker, Idle, Inside

\* A handler's call goes on to the next statement.
LEMMA Moved ==
    ASSUME InboxTypeOK, NEW w \in Workers, worker[w].pc # "idle",
           NEW to \in {"handle", "commit"}, Goto(w, to)
    PROVE  /\ worker' \in [Workers -> Worker]
           /\ worker'[w].h = worker[w].h /\ worker'[w].m = worker[w].m
           /\ \A v \in Workers : v # w => worker'[v] = worker[v]
  <1>1. worker[w] \in [pc: {"begin", "handle", "commit"}, h: Handlers, m: Events]
    BY BusyWorker
  <1>2. [worker[w] EXCEPT !.pc = to] \in [pc: {"begin", "handle", "commit"}, h: Handlers, m: Events]
    BY <1>1
  <1>3. worker' = [worker EXCEPT ![w] = [worker[w] EXCEPT !.pc = to]]
    BY DEF Goto
  <1> QED
    BY <1>1, <1>2, <1>3 DEF InboxTypeOK, Worker

\* An effect is counted for the call's own handler and message only.
LEMMA Counted ==
    ASSUME InboxTypeOK, NEW w \in Workers, worker[w].pc # "idle", Effect(w)
    PROVE  /\ applied' \in [Handlers -> [Events -> Nat]]
           /\ \A h \in Handlers, m \in Events :
                applied'[h][m] = IF h = worker[w].h /\ m = worker[w].m
                                 THEN applied[h][m] + 1 ELSE applied[h][m]
  <1>1. worker[w].h \in Handlers /\ worker[w].m \in Events
    BY BusyWorker
  <1> QED
    BY <1>1 DEF Effect, InboxTypeOK

-----------------------------------------------------------------------------
\* A call that ends without touching the tables, acknowledging at most what is
\* recorded.
LEMMA EndedQuietly ==
    ASSUME InboxInv, NEW w \in Workers, worker[w].pc # "idle", Return(w),
           available' \in SUBSET Events, mishaps' \in Nat,
           UNCHANGED <<inbox, applied>>,
           \/ UNCHANGED acked
           \/ Key(w) \in inbox /\ acked' = acked \cup {<<worker[w].h, worker[w].m>>}
    PROVE  InboxInv'
  <1> USE DEF InboxInv
  <1>1. worker[w].h \in Handlers /\ worker[w].m \in Events
    BY BusyWorker
  <1>2. InboxTypeOK'
    BY <1>1, Returned DEF InboxTypeOK
  <1>3. OneInside'
    BY Returned DEF OneInside, Key
  <1>4. InboxRecords'
    BY Returned DEF InboxRecords, Key
  <1>5. BarrierRecords'
    <2>1. BarrierExactlyOnce'
      BY DEF BarrierRecords, BarrierExactlyOnce
    <2>2. \A v \in Workers : Inside(v)' /\ worker'[v].h \in Barriers => Key(v)' \notin inbox'
      BY Returned DEF BarrierRecords, Key
    <2>3. \A h \in Barriers, m \in Events : <<h, m>> \in acked' => <<h, eventID(m)>> \in inbox'
      BY DEF BarrierRecords, Key
    <2> QED
      BY <2>1, <2>2, <2>3 DEF BarrierRecords
  <1> QED
    BY <1>2, <1>3, <1>4, <1>5

\* Nobody moves between calls but the broker.
LEMMA Delivered ==
    ASSUME InboxInv, NEW w \in Workers, NEW h \in Handlers, NEW m \in Events, Deliver(w, h, m)
    PROVE  InboxInv'
  <1> USE DEF InboxInv
  <1>1. \A v \in Workers : Inside(v)' => Inside(v) /\ worker'[v] = worker[v]
    BY DEF Deliver, Inside, InboxTypeOK
  <1>2. InboxTypeOK'
    BY DEF Deliver, InboxTypeOK, Worker
  <1>3. OneInside'
    BY <1>1 DEF OneInside, Key
  <1>4. InboxRecords'
    BY <1>1 DEF Deliver, InboxRecords, Key
  <1>5. BarrierRecords'
    BY <1>1 DEF Deliver, BarrierRecords, BarrierExactlyOnce, Key
  <1> QED
    BY <1>2, <1>3, <1>4, <1>5

-----------------------------------------------------------------------------
\* Inbox's record: the only insert of its key lets its call inside.
LEMMA InboxRecordStep ==
    ASSUME InboxInv, NEW w \in Workers, InboxRecord(w)
    PROVE  InboxInv'
  <1> USE DEF InboxInv
  <1>1. worker[w].pc = "begin" /\ worker[w].h \in Inboxes /\ worker[w].pc # "idle"
    BY DEF InboxRecord, At
  <1>2. worker[w].h \in Handlers /\ worker[w].m \in Events /\ Key(w) \in Keys
    BY <1>1, BusyWorker
  <1>3. UNCHANGED <<available, applied>>
    BY DEF InboxRecord
  <1>4. CASE Return(w) /\ UNCHANGED <<inbox, acked>> /\ mishaps' \in Nat
    BY <1>1, <1>3, <1>4, EndedQuietly DEF InboxTypeOK
  <1>5. CASE Key(w) \in inbox /\ ReturnNil(w) /\ UNCHANGED <<inbox, mishaps>>
    BY <1>1, <1>3, <1>5, EndedQuietly DEF ReturnNil, InboxTypeOK
  <1>6. ASSUME inbox' = inbox \cup {Key(w)}, Return(w), UNCHANGED acked, mishaps' \in Nat
        PROVE  InboxInv'
    <2>1. InboxTypeOK'
      BY <1>2, <1>3, <1>6, Returned DEF InboxTypeOK
    <2>2. OneInside'
      BY <1>6, Returned DEF OneInside, Key
    <2>3. InboxRecords'
      BY <1>3, <1>6, Returned DEF InboxRecords, Key
    <2>4. \A h \in Barriers, m \in Events : <<h, eventID(m)>> # Key(w)
      BY <1>1, InboxAssumption DEF Key
    <2>5. BarrierExactlyOnce'
      BY <1>3, <1>6, <2>4 DEF BarrierRecords, BarrierExactlyOnce
    <2>6. \A v \in Workers : Inside(v)' /\ worker'[v].h \in Barriers => Key(v)' \notin inbox'
      BY <1>1, <1>6, Returned, InboxAssumption DEF BarrierRecords, Key
    <2>7. \A h \in Barriers, m \in Events : <<h, m>> \in acked' => <<h, eventID(m)>> \in inbox'
      BY <1>6 DEF BarrierRecords
    <2> QED
      BY <2>1, <2>2, <2>3, <2>5, <2>6, <2>7 DEF BarrierRecords
  <1>7. ASSUME Key(w) \notin inbox, inbox' = inbox \cup {Key(w)}, Goto(w, "handle"),
               UNCHANGED <<acked, mishaps>>
        PROVE  InboxInv'
    <2>1. /\ worker' \in [Workers -> Worker]
          /\ worker'[w].h = worker[w].h /\ worker'[w].m = worker[w].m
          /\ \A v \in Workers : v # w => worker'[v] = worker[v]
      BY <1>1, <1>7, Moved
    <2>2. Key(w)' = Key(w) /\ \A v \in Workers : v # w => Key(v)' = Key(v) /\ Inside(v)' = Inside(v)
      BY <2>1 DEF Key, Inside
    <2>3. InboxTypeOK'
      BY <1>2, <1>3, <1>7, <2>1 DEF InboxTypeOK
    <2>4. \A v \in Workers : v # w /\ Inside(v) => Key(v) # Key(w)
      BY <1>1, <1>7 DEF InboxRecords, Key
    <2>5. OneInside'
      BY <2>2, <2>4 DEF OneInside
    <2>6. applied[worker[w].h][worker[w].m] = 0
      BY <1>1, <1>2, <1>7 DEF InboxRecords, Key
    <2>7. InboxRecords'
      <3>1. \A h \in Inboxes, m \in Events :
              /\ applied'[h][m] <= 1
              /\ <<h, eventID(m)>> \notin inbox' => applied'[h][m] = 0
        BY <1>3, <1>7 DEF InboxRecords
      <3>2. \A v \in Workers : Inside(v)' /\ worker'[v].h \in Inboxes =>
              Key(v)' \in inbox' /\ applied'[worker'[v].h][worker'[v].m] = 0
        BY <1>3, <1>7, <2>1, <2>2, <2>6 DEF InboxRecords
      <3> QED
        BY <3>1, <3>2 DEF InboxRecords
    <2>8. \A h \in Barriers, m \in Events : <<h, eventID(m)>> # Key(w)
      BY <1>1, InboxAssumption DEF Key
    <2>9. BarrierExactlyOnce'
      BY <1>3, <1>7, <2>8 DEF BarrierRecords, BarrierExactlyOnce
    <2>10. \A v \in Workers : Inside(v)' /\ worker'[v].h \in Barriers => Key(v)' \notin inbox'
      <3> SUFFICES ASSUME NEW v \in Workers, Inside(v)', worker'[v].h \in Barriers
                   PROVE  Key(v)' \notin inbox'
        OBVIOUS
      <3>1. v # w
        BY <1>1, <2>1, InboxAssumption
      <3>2. Key(v)' = Key(v) /\ Inside(v) /\ worker[v].h \in Barriers
        BY <2>1, <2>2, <3>1
      <3> QED
        BY <1>1, <1>7, <3>2, InboxAssumption DEF BarrierRecords, Key
    <2>11. \A h \in Barriers, m \in Events : <<h, m>> \in acked' => <<h, eventID(m)>> \in inbox'
      BY <1>7 DEF BarrierRecords
    <2> QED
      BY <2>3, <2>5, <2>7, <2>9, <2>10, <2>11 DEF BarrierRecords
  <1> QED
    BY <1>4, <1>5, <1>6, <1>7 DEF InboxRecord, Mishap, InboxTypeOK

\* Inbox's handler: its one effect follows its record.
LEMMA InboxHandleStep ==
    ASSUME InboxInv, NEW w \in Workers, InboxHandle(w)
    PROVE  InboxInv'
  <1> USE DEF InboxInv
  <1>1. worker[w].pc = "handle" /\ worker[w].h \in Inboxes /\ worker[w].pc # "idle" /\ Inside(w)
    BY DEF InboxHandle, At, Inside
  <1>2. worker[w].h \in Handlers /\ worker[w].m \in Events
    BY <1>1, BusyWorker
  <1>3. Key(w) \in inbox /\ applied[worker[w].h][worker[w].m] = 0
    BY <1>1 DEF InboxRecords
  <1>4. /\ UNCHANGED <<available, inbox>> /\ Return(w) /\ mishaps' \in Nat
        /\ Effect(w) \/ UNCHANGED applied
        /\ \/ UNCHANGED acked
           \/ Key(w) \in inbox /\ acked' = acked \cup {<<worker[w].h, worker[w].m>>}
    BY <1>3 DEF InboxHandle, ReturnNil, Mishap, InboxTypeOK
  <1>5. CASE UNCHANGED applied
    BY <1>1, <1>4, <1>5, EndedQuietly DEF InboxTypeOK
  <1>6. CASE Effect(w)
    <2>1. /\ applied' \in [Handlers -> [Events -> Nat]]
          /\ \A h \in Handlers, m \in Events :
               applied'[h][m] = IF h = worker[w].h /\ m = worker[w].m
                                THEN applied[h][m] + 1 ELSE applied[h][m]
      BY <1>1, <1>6, Counted
    <2>2. InboxTypeOK'
      BY <1>2, <1>4, <2>1, Returned DEF InboxTypeOK
    <2>3. OneInside'
      BY <1>4, Returned DEF OneInside, Key
    <2>4. InboxRecords'
      <3>1. \A h \in Inboxes, m \in Events :
              /\ applied'[h][m] <= 1
              /\ <<h, eventID(m)>> \notin inbox' => applied'[h][m] = 0
        BY <1>3, <1>4, <2>1 DEF InboxRecords, Handlers, Key
      <3>2. ASSUME NEW v \in Workers, Inside(v)', worker'[v].h \in Inboxes
            PROVE  Key(v)' \in inbox' /\ applied'[worker'[v].h][worker'[v].m] = 0
        <4>1. v # w /\ Inside(v) /\ worker'[v] = worker[v]
          BY <1>4, <3>2, Returned
        <4>2. Key(v) # Key(w) /\ Key(v)' = Key(v) /\ Key(v) \in inbox
              /\ applied[worker[v].h][worker[v].m] = 0
          BY <1>1, <3>2, <4>1 DEF OneInside, InboxRecords, Key
        <4>3. worker[v].h \in Handlers /\ worker[v].m \in Events
          BY <4>1, BusyWorker DEF Inside
        <4>4. ~(worker[v].h = worker[w].h /\ worker[v].m = worker[w].m)
          BY <4>2 DEF Key
        <4> QED
          BY <1>4, <2>1, <4>1, <4>2, <4>3, <4>4
      <3> QED
        BY <3>1, <3>2 DEF InboxRecords
    <2>5. BarrierRecords'
      <3>1. BarrierExactlyOnce'
        BY <1>1, <1>4, <2>1, InboxAssumption DEF BarrierRecords, BarrierExactlyOnce, Handlers
      <3>2. \A v \in Workers : Inside(v)' /\ worker'[v].h \in Barriers => Key(v)' \notin inbox'
        BY <1>4, Returned DEF BarrierRecords, Key
      <3>3. \A h \in Barriers, m \in Events : <<h, m>> \in acked' => <<h, eventID(m)>> \in inbox'
        BY <1>4 DEF BarrierRecords, Key
      <3> QED
        BY <3>1, <3>2, <3>3 DEF BarrierRecords
    <2> QED
      BY <2>2, <2>3, <2>4, <2>5
  <1> QED
    BY <1>4, <1>5, <1>6

-----------------------------------------------------------------------------
\* A Barrier call that is not behind another one's transaction and finds no
\* record is let inside, alone; a move inside changes nothing more.
LEMMA BarrierMoves ==
    ASSUME InboxInv, NEW w \in Workers, worker[w].pc # "idle", worker[w].h \in Barriers,
           NEW to \in {"handle", "commit"}, Goto(w, to),
           Inside(w) \/ (~Locked(w) /\ Key(w) \notin inbox),
           UNCHANGED <<available, inbox, applied, acked, mishaps>>
    PROVE  InboxInv'
  <1> USE DEF InboxInv
  <1>1. /\ worker' \in [Workers -> Worker]
        /\ worker'[w].h = worker[w].h /\ worker'[w].m = worker[w].m
        /\ \A v \in Workers : v # w => worker'[v] = worker[v]
    BY Moved
  <1>2. Key(w)' = Key(w) /\ \A v \in Workers : v # w => Key(v)' = Key(v) /\ Inside(v)' = Inside(v)
    BY <1>1 DEF Key, Inside
  <1>3. InboxTypeOK'
    BY <1>1 DEF InboxTypeOK
  <1>4. Key(w) \notin inbox
    BY DEF BarrierRecords
  <1>5. \A v \in Workers : v # w /\ Inside(v) => Key(v) # Key(w)
    <2>1. CASE Inside(w)
      BY <2>1 DEF OneInside
    <2>2. CASE ~Locked(w)
      <3> SUFFICES ASSUME NEW v \in Workers, Inside(v), Key(v) = Key(w) PROVE FALSE
        OBVIOUS
      <3>1. worker[v].h = worker[w].h
        BY DEF Key
      <3> QED
        BY <2>2, <3>1 DEF Locked, Inside
    <2> QED
      BY <2>1, <2>2
  <1>6. OneInside'
    BY <1>2, <1>5 DEF OneInside
  <1>7. InboxRecords'
    <2>1. worker'[w].h \notin Inboxes
      BY <1>1, InboxAssumption
    <2>2. \A v \in Workers : Inside(v)' /\ worker'[v].h \in Inboxes =>
            Key(v)' \in inbox' /\ applied'[worker'[v].h][worker'[v].m] = 0
      BY <1>1, <1>2, <2>1 DEF InboxRecords
    <2> QED
      BY <2>2 DEF InboxRecords
  <1>8. BarrierRecords'
    BY <1>1, <1>2, <1>4 DEF BarrierRecords, BarrierExactlyOnce
  <1> QED
    BY <1>3, <1>6, <1>7, <1>8

LEMMA BarrierRecordStep ==
    ASSUME InboxInv, NEW w \in Workers, BarrierRecord(w)
    PROVE  InboxInv'
  <1>1. worker[w].pc # "idle" /\ worker[w].h \in Barriers
    BY DEF BarrierRecord, At
  <1>2. CASE ~Locked(w) /\ Key(w) \notin inbox /\ Goto(w, "handle") /\ UNCHANGED <<acked, mishaps>>
    BY <1>1, <1>2, BarrierMoves DEF BarrierRecord
  <1>3. CASE Key(w) \in inbox /\ ReturnNil(w) /\ UNCHANGED mishaps
    BY <1>1, <1>3, EndedQuietly DEF BarrierRecord, ReturnNil, InboxInv, InboxTypeOK
  <1>4. CASE Mishap /\ Return(w) /\ UNCHANGED acked
    BY <1>1, <1>4, EndedQuietly DEF BarrierRecord, Mishap, InboxInv, InboxTypeOK
  <1> QED
    BY <1>2, <1>3, <1>4 DEF BarrierRecord

LEMMA BarrierHandleStep ==
    ASSUME InboxInv, NEW w \in Workers, BarrierHandle(w)
    PROVE  InboxInv'
  <1>1. worker[w].pc # "idle" /\ worker[w].h \in Barriers /\ Inside(w)
    BY DEF BarrierHandle, At, Inside
  <1>2. CASE Goto(w, "commit") /\ UNCHANGED mishaps
    BY <1>1, <1>2, BarrierMoves DEF BarrierHandle
  <1>3. CASE Return(w) /\ (Mishap \/ UNCHANGED mishaps)
    BY <1>1, <1>3, EndedQuietly DEF BarrierHandle, Mishap, InboxInv, InboxTypeOK
  <1> QED
    BY <1>2, <1>3 DEF BarrierHandle

\* The commit adds the record and the effect together, whoever hears of it.
LEMMA BarrierCommitStep ==
    ASSUME InboxInv, NEW w \in Workers, BarrierCommit(w)
    PROVE  InboxInv'
  <1> USE DEF InboxInv
  <1>1. worker[w].pc # "idle" /\ worker[w].h \in Barriers /\ Inside(w)
    BY DEF BarrierCommit, At, Inside
  <1>2. worker[w].h \in Handlers /\ worker[w].m \in Events /\ Key(w) \in Keys
    BY <1>1, BusyWorker
  <1>3. Key(w) \notin inbox
    BY <1>1 DEF BarrierRecords
  <1>4. CASE Mishap /\ Return(w) /\ UNCHANGED <<inbox, applied, acked>>
    BY <1>1, <1>4, EndedQuietly DEF BarrierCommit, Mishap, InboxTypeOK
  <1>5. ASSUME inbox' = inbox \cup {Key(w)}, Effect(w), Return(w), mishaps' \in Nat,
               acked' = acked \/ acked' = acked \cup {<<worker[w].h, worker[w].m>>}
        PROVE  InboxInv'
    <2>1. /\ applied' \in [Handlers -> [Events -> Nat]]
          /\ \A h \in Handlers, m \in Events :
               applied'[h][m] = IF h = worker[w].h /\ m = worker[w].m
                                THEN applied[h][m] + 1 ELSE applied[h][m]
      BY <1>1, <1>5, Counted
    <2>2. InboxTypeOK'
      BY <1>2, <1>5, <2>1, Returned DEF BarrierCommit, InboxTypeOK
    <2>3. OneInside'
      BY <1>5, Returned DEF OneInside, Key
    <2>4. \A h \in Inboxes : h # worker[w].h /\ h \in Handlers
      BY <1>1, InboxAssumption DEF Handlers
    <2>5. InboxRecords'
      <3>1. \A h \in Inboxes, m \in Events :
              /\ applied'[h][m] <= 1
              /\ <<h, eventID(m)>> \notin inbox' => applied'[h][m] = 0
        BY <1>5, <2>1, <2>4 DEF InboxRecords
      <3>2. ASSUME NEW v \in Workers, Inside(v)', worker'[v].h \in Inboxes
            PROVE  Key(v)' \in inbox' /\ applied'[worker'[v].h][worker'[v].m] = 0
        <4>1. Inside(v) /\ worker'[v] = worker[v] /\ Key(v)' = Key(v)
          BY <1>5, <3>2, Returned DEF Key
        <4>2. worker[v].m \in Events
          BY <4>1, BusyWorker DEF Inside
        <4> QED
          BY <1>5, <2>1, <2>4, <3>2, <4>1, <4>2 DEF InboxRecords
      <3> QED
        BY <3>1, <3>2 DEF InboxRecords
    <2>6. BarrierExactlyOnce'
      <3> SUFFICES ASSUME NEW h \in Barriers, NEW m \in Events \ Anonymous
                   PROVE  applied'[h][m] = IF <<h, eventID(m)>> \in inbox' THEN 1 ELSE 0
        BY DEF BarrierExactlyOnce
      <3>1. applied[h][m] = (IF <<h, eventID(m)>> \in inbox THEN 1 ELSE 0) /\ h \in Handlers
        BY DEF BarrierRecords, BarrierExactlyOnce, Handlers
      <3>2. CASE h = worker[w].h /\ m = worker[w].m
        BY <1>3, <1>5, <2>1, <3>1, <3>2 DEF Key
      <3>3. CASE ~(h = worker[w].h /\ m = worker[w].m)
        <4>1. <<h, eventID(m)>> # Key(w)
          BY <1>2, <3>3, KeysDiffer DEF Key
        <4> QED
          BY <1>5, <2>1, <3>1, <3>3, <4>1
      <3> QED
        BY <3>2, <3>3
    <2>7. \A v \in Workers : Inside(v)' /\ worker'[v].h \in Barriers => Key(v)' \notin inbox'
      <3> SUFFICES ASSUME NEW v \in Workers, Inside(v)', worker'[v].h \in Barriers
                   PROVE  Key(v)' \notin inbox'
        OBVIOUS
      <3>1. v # w /\ Inside(v) /\ worker'[v] = worker[v] /\ Key(v)' = Key(v)
        BY <1>5, Returned DEF Key
      <3> QED
        BY <1>1, <1>5, <3>1 DEF OneInside, BarrierRecords
    <2>8. \A h \in Barriers, m \in Events : <<h, m>> \in acked' => <<h, eventID(m)>> \in inbox'
      BY <1>5 DEF BarrierRecords, Key
    <2> QED
      BY <2>2, <2>3, <2>5, <2>6, <2>7, <2>8 DEF BarrierRecords
  <1> QED
    BY <1>4, <1>5 DEF BarrierCommit, ReturnNil, Mishap, InboxTypeOK

-----------------------------------------------------------------------------
LEMMA InboxStep == InboxInv /\ [InboxNext]_ivars => InboxInv'
  <1> SUFFICES ASSUME InboxInv, [InboxNext]_ivars PROVE InboxInv'
    OBVIOUS
  <1>1. ASSUME NEW m \in Events, Arrive(m) PROVE InboxInv'
    BY <1>1 DEF Arrive, InboxInv, InboxTypeOK, OneInside, InboxRecords, BarrierRecords,
                BarrierExactlyOnce, Inside, Key
  <1>2. ASSUME NEW w \in Workers, Crash(w) PROVE InboxInv'
    BY <1>2, EndedQuietly DEF Crash, Busy, Mishap, InboxInv, InboxTypeOK
  <1>3. CASE UNCHANGED ivars
    BY <1>3 DEF ivars, InboxInv, InboxTypeOK, OneInside, InboxRecords, BarrierRecords,
                BarrierExactlyOnce, Inside, Key
  <1> QED
    BY <1>1, <1>2, <1>3, Delivered, InboxRecordStep, InboxHandleStep, BarrierRecordStep,
       BarrierHandleStep, BarrierCommitStep
    DEF InboxNext, Consume, HandlerStep

\* Across redeliveries, concurrent deliveries, crashes and lost answers, the
\* effects of a handler under Inbox (inbox.go:12-14) take place at most once,
\* those under Barrier (inbox.go:45-48) exactly when the event is recorded, and
\* Barrier acknowledges only what is applied.
THEOREM InboxCounts == InboxSpec => []EffectsAreCounted
  <1>1. InboxInv => EffectsAreCounted
    BY Zenon DEF InboxInv, InboxRecords, BarrierRecords, EffectsAreCounted, InboxAtMostOnce,
           BarrierExactlyOnce, BarrierAckedIsApplied
  <1> QED
    BY <1>1, InboxStart, InboxStep, PTL DEF InboxSpec
=============================================================================
