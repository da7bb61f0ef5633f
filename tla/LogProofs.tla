----------------------------- MODULE LogProofs ------------------------------
(***************************************************************************)
(* Proofs about the log adapters that batch (LogSink), for any number of   *)
(* loggers and any batch size.                                             *)
(*                                                                         *)
(* A line is in one place: stored, given up, carried by one flush or in    *)
(* one buffer.  Every step moves the lines of one place to another, or     *)
(* puts a new one into a buffer.                                           *)
(***************************************************************************)
EXTENDS LogSink, SequenceTheorems, TLAPS

Carrying == {"send", "token", "resend"}
Flushes == [at : {"idle", "take", "send", "token", "resend", "record"}, lines : Seq(Nat),
            token : Nat]

carried == [t \in Threads |->
              IF flushing[t].at \in Carrying THEN Range(flushing[t].lines) ELSE {}]
held == [b \in Buffers |-> Range(buffer[b])]

SinkTypes ==
    /\ sink \in {"cloudwatch", "loki"}
    /\ buffer \in [Buffers -> Seq(Nat)]
    /\ flushing \in [Threads -> Flushes]
    /\ sequence \in Nat /\ next \in Nat /\ posted \in Nat /\ outages \in Nat
    /\ stored \in Seq(Nat)
    /\ ctx \in {"live", "done"} /\ closer \in {"idle", "closing", "closed"}
    /\ clash \in BOOLEAN

\* No line in two of the places s (stored), l (given up), c (carried), b (buffered) ...
Apart(s, l, c, b) ==
    /\ s \cap l = {}
    /\ \A t \in Threads : c[t] \cap s = {} /\ c[t] \cap l = {}
    /\ \A x \in Buffers : b[x] \cap s = {} /\ b[x] \cap l = {}
    /\ \A t \in Threads, x \in Buffers : c[t] \cap b[x] = {}
    /\ \A t, u \in Threads : t # u => c[t] \cap c[u] = {}
    /\ \A x, y \in Buffers : x # y => b[x] \cap b[y] = {}

\* ... and each of the first k lines in one of them.
Whole(s, l, c, b, k) ==
    s \cup l \cup (UNION {c[t] : t \in Threads}) \cup (UNION {b[x] : x \in Buffers}) = 1 .. k

Placed ==
    /\ Apart(Range(stored), lost, carried, held)
    /\ Whole(Range(stored), lost, carried, held, posted)

\* No line twice in one place.
Once ==
    /\ IsInjective(stored)
    /\ \A b \in Buffers : IsInjective(buffer[b])
    /\ \A t \in Threads : flushing[t].at \in Carrying => IsInjective(flushing[t].lines)

\* A full buffer has a flush on its way to it.
FullIsTaken ==
    \A b \in Buffers : buffer[b] # <<>> /\ Len(buffer[b]) >= BatchSize =>
        \E t \in Threads : flushing[t].at = "take" /\ Source(t) = b

Unused ==
    /\ closer = "idle" => flushing["closer"].at = "idle"
    /\ sink = "loki" => /\ flushing["ticker"].at = "idle"
                        /\ \A t \in Threads : flushing[t].at \in {"idle", "take", "send"}

\* As long as no two of CloudWatch's flushes overlapped, the one under way has
\* the token the service expects.
Working == {t \in Threads : flushing[t].at \in {"send", "token", "resend", "record"}}
InTurn ==
    sink = "cloudwatch" /\ ~clash =>
        /\ \A t, u \in Working : t = u
        /\ Working = {} => sequence = next
        /\ \A t \in Threads :
             /\ flushing[t].at \notin {"token", "resend"}
             /\ flushing[t].at = "send" => flushing[t].token = next /\ sequence = next
             /\ flushing[t].at = "record" => flushing[t].token = next

Blamed == lost # {} => outages > 0 \/ clash \/ ctx = "done"

SinkInv == SinkTypes /\ Placed /\ Once /\ FullIsTaken /\ Unused /\ InTurn /\ Blamed

\* Whole, one line at a time.
Found(n, s, l, c, b) ==
    n \in s \/ n \in l \/ (\E t \in Threads : n \in c[t]) \/ (\E x \in Buffers : n \in b[x])

LEMMA WholeMembers ==
    ASSUME NEW s, NEW l, NEW c, NEW b, NEW k
    PROVE  Whole(s, l, c, b, k) <=> \A n : n \in 1 .. k <=> Found(n, s, l, c, b)
  <1>1. \A n : n \in UNION {c[t] : t \in Threads} <=> \E t \in Threads : n \in c[t]
    OBVIOUS
  <1>2. \A n : n \in UNION {b[x] : x \in Buffers} <=> \E x \in Buffers : n \in b[x]
    OBVIOUS
  <1> DEFINE U == UNION {c[t] : t \in Threads}
             V == UNION {b[x] : x \in Buffers}
  <1>3. \A n : Found(n, s, l, c, b) <=> n \in s \cup l \cup U \cup V
    BY <1>1, <1>2 DEF Found
  <1>4. Whole(s, l, c, b, k) <=> (s \cup l \cup U \cup V = 1 .. k)
    BY DEF Whole
  <1> HIDE DEF U, V
  <1>5. s \cup l \cup U \cup V = 1 .. k <=> \A n : n \in 1 .. k <=> n \in s \cup l \cup U \cup V
    BY Zenon
  <1>6. (\A n : n \in 1 .. k <=> n \in s \cup l \cup U \cup V)
          <=> (\A n : n \in 1 .. k <=> Found(n, s, l, c, b))
    BY <1>3, Zenon
  <1> QED BY <1>5, <1>6, <1>4, Zenon

LEMMA LineTaken ==
    ASSUME NEW s, NEW l, NEW c, NEW b, NEW k, NEW t \in Threads, NEW x \in Buffers,
           NEW c1, NEW b1, Apart(s, l, c, b), Whole(s, l, c, b, k), c[t] = {},
           c1[t] = b[x], \A u \in Threads \ {t} : c1[u] = c[u],
           b1[x] = {}, \A y \in Buffers \ {x} : b1[y] = b[y]
    PROVE  Apart(s, l, c1, b1) /\ Whole(s, l, c1, b1, k)
  <1>1. Apart(s, l, c1, b1)
    BY DEF Apart
  <1>2. Whole(s, l, c1, b1, k)
    BY WholeMembers DEF Found
  <1> QED BY <1>1, <1>2

LEMMA LineStored ==
    ASSUME NEW s, NEW l, NEW c, NEW b, NEW k, NEW t \in Threads, NEW c1, NEW s1,
           Apart(s, l, c, b), Whole(s, l, c, b, k),
           s1 = s \cup c[t], c1[t] = {}, \A u \in Threads \ {t} : c1[u] = c[u]
    PROVE  Apart(s1, l, c1, b) /\ Whole(s1, l, c1, b, k)
  <1>1. Apart(s1, l, c1, b)
    BY DEF Apart
  <1>2. Whole(s1, l, c1, b, k)
    BY WholeMembers DEF Found
  <1> QED BY <1>1, <1>2

LEMMA LineLost ==
    ASSUME NEW s, NEW l, NEW c, NEW b, NEW k, NEW t \in Threads, NEW c1, NEW l1,
           Apart(s, l, c, b), Whole(s, l, c, b, k),
           l1 = l \cup c[t], c1[t] = {}, \A u \in Threads \ {t} : c1[u] = c[u]
    PROVE  Apart(s, l1, c1, b) /\ Whole(s, l1, c1, b, k)
  <1>1. Apart(s, l1, c1, b)
    BY DEF Apart
  <1>2. Whole(s, l1, c1, b, k)
    BY WholeMembers DEF Found
  <1> QED BY <1>1, <1>2

LEMMA LineAdded ==
    ASSUME NEW s, NEW l, NEW c, NEW b, NEW k \in Nat, NEW x \in Buffers, NEW b1,
           Apart(s, l, c, b), Whole(s, l, c, b, k),
           b1[x] = b[x] \cup {k + 1}, \A y \in Buffers \ {x} : b1[y] = b[y]
    PROVE  Apart(s, l, c, b1) /\ Whole(s, l, c, b1, k + 1)
  <1>1. k + 1 \notin 1 .. k /\ 1 .. k + 1 = 1 .. k \cup {k + 1}
    OBVIOUS
  <1>2. /\ k + 1 \notin s /\ k + 1 \notin l
        /\ \A t \in Threads : k + 1 \notin c[t]
        /\ \A y \in Buffers : k + 1 \notin b[y]
    BY <1>1, WholeMembers DEF Found
  <1>3. Apart(s, l, c, b1)
    BY <1>2 DEF Apart
  <1>4. Whole(s, l, c, b1, k + 1)
    BY <1>1, WholeMembers DEF Found
  <1> QED BY <1>3, <1>4

LEMMA RangeAppend ==
    ASSUME NEW s \in Seq(Nat), NEW n \in Nat
    PROVE  /\ Range(Append(s, n)) = Range(s) \cup {n}
           /\ IsInjective(s) /\ n \notin Range(s) => IsInjective(Append(s, n))
  <1>1. /\ Append(s, n) \in Seq(Nat) /\ Len(Append(s, n)) = Len(s) + 1
        /\ \A i \in 1 .. Len(s) : Append(s, n)[i] = s[i]
        /\ Append(s, n)[Len(s) + 1] = n
    BY AppendProperties
  <1>2. DOMAIN Append(s, n) = 1 .. Len(s) + 1 /\ DOMAIN s = 1 .. Len(s) /\ Len(s) \in Nat
    BY <1>1, LenProperties
  <1> DEFINE q == Append(s, n)
  <1> HIDE DEF q
  <1>3. Range(q) = Range(s) \cup {n}
    <2>1. ASSUME NEW x \in Range(q) PROVE x \in Range(s) \cup {n}
      BY <1>1, <1>2, <2>1 DEF Range, q
    <2>2. ASSUME NEW x \in Range(s) \cup {n} PROVE x \in Range(q)
      <3>1. CASE x \in Range(s)
        BY <1>1, <1>2, <3>1 DEF Range, q
      <3>2. CASE x = n
        BY <1>1, <1>2, <3>2 DEF Range, q
      <3> QED BY <2>2, <3>1, <3>2
    <2> QED BY <2>1, <2>2
  <1>4. ASSUME IsInjective(s), n \notin Range(s) PROVE IsInjective(q)
    BY <1>1, <1>2, <1>4 DEF IsInjective, Range, q
  <1> QED BY <1>3, <1>4 DEF q

LEMMA RangeConcat ==
    ASSUME NEW s \in Seq(Nat), NEW r \in Seq(Nat)
    PROVE  /\ Range(s \o r) = Range(s) \cup Range(r)
           /\ IsInjective(s) /\ IsInjective(r) /\ Range(s) \cap Range(r) = {}
                => IsInjective(s \o r)
  <1> DEFINE q == s \o r
             m == Len(s)
             n == Len(r)
  <1>1. /\ q \in Seq(Nat) /\ Len(q) = m + n
        /\ \A i \in 1 .. m + n : q[i] = IF i <= m THEN s[i] ELSE r[i - m]
    BY ConcatProperties
  <1>2. /\ DOMAIN q = 1 .. m + n /\ DOMAIN s = 1 .. m /\ DOMAIN r = 1 .. n
        /\ m \in Nat /\ n \in Nat
    BY <1>1, LenProperties
  <1> HIDE DEF q, m, n
  <1>3. Range(q) = Range(s) \cup Range(r)
    <2>1. ASSUME NEW i \in 1 .. m + n PROVE q[i] \in Range(s) \cup Range(r)
      <3>1. CASE i <= m
        <4>1. i \in 1 .. m /\ q[i] = s[i]
          BY <1>1, <1>2, <3>1
        <4> QED BY <1>2, <4>1 DEF Range
      <3>2. CASE ~ (i <= m)
        <4>1. i - m \in 1 .. n /\ q[i] = r[i - m]
          BY <1>1, <1>2, <3>2
        <4> QED BY <1>2, <4>1 DEF Range
      <3> QED BY <3>1, <3>2
    <2>2. ASSUME NEW i \in 1 .. m PROVE s[i] \in Range(q)
      <3>1. i \in 1 .. m + n /\ q[i] = s[i]
        BY <1>1, <1>2
      <3> QED BY <1>2, <3>1 DEF Range
    <2>3. ASSUME NEW i \in 1 .. n PROVE r[i] \in Range(q)
      <3>1. i + m \in 1 .. m + n /\ q[i + m] = r[i]
        BY <1>1, <1>2
      <3> QED BY <1>2, <3>1 DEF Range
    <2> QED BY <1>2, <2>1, <2>2, <2>3, Zenon DEF Range
  <1>4. ASSUME IsInjective(s), IsInjective(r), Range(s) \cap Range(r) = {}
        PROVE  IsInjective(q)
    <2> SUFFICES ASSUME NEW i \in 1 .. m + n, NEW j \in 1 .. m + n, q[i] = q[j] PROVE i = j
      BY <1>2 DEF IsInjective
    <2>1. ASSUME NEW h \in 1 .. m + n, h <= m PROVE h \in 1 .. m /\ q[h] = s[h] /\ q[h] \in Range(s)
      <3>1. h \in 1 .. m /\ q[h] = s[h]
        BY <1>1, <1>2, <2>1
      <3> QED BY <1>2, <3>1, Zenon DEF Range
    <2>2. ASSUME NEW h \in 1 .. m + n, ~ (h <= m)
          PROVE  h - m \in 1 .. n /\ q[h] = r[h - m] /\ q[h] \in Range(r)
      <3>1. h - m \in 1 .. n /\ q[h] = r[h - m]
        BY <1>1, <1>2, <2>2
      <3> QED BY <1>2, <3>1, Zenon DEF Range
    <2>3. CASE i <= m /\ j <= m
      BY <1>2, <1>4, <2>1, <2>3, Zenon DEF IsInjective
    <2>4. CASE ~ (i <= m) /\ ~ (j <= m)
      <3>1. i - m = j - m
        BY <1>2, <1>4, <2>2, <2>4, Zenon DEF IsInjective
      <3> QED BY <1>2, <3>1
    <2>5. CASE (i <= m) # (j <= m)
      BY <1>4, <2>1, <2>2, <2>5
    <2> QED BY <2>3, <2>4, <2>5
  <1> QED BY <1>3, <1>4 DEF q

-----------------------------------------------------------------------------
\* A step changes the flush of one thread at most: it goes on with the same
\* lines, it starts with the lines of a buffer, or it ends.
Ats == {"idle", "take", "send", "token", "resend", "record"}

LEMMA FlushTyped ==
    ASSUME NEW f \in Flushes
    PROVE  /\ Idle \in Flushes
           /\ f.at \in Ats /\ f.lines \in Seq(Nat) /\ f.token \in Nat
           /\ \A a \in Ats : [f EXCEPT !.at = a] \in Flushes
           /\ \A a \in Ats, n \in Nat : [f EXCEPT !.at = a, !.token = n] \in Flushes
  <1>1. <<>> \in Seq(Nat) /\ 0 \in Nat
    OBVIOUS
  <1>2. Idle \in Flushes
    BY <1>1, Zenon DEF Idle, Flushes
  <1> QED
    BY <1>2, Zenon DEF Flushes, Ats

LEMMA Turned ==
    ASSUME SinkTypes, NEW t \in Threads, NEW a \in Ats,
           flushing' = [flushing EXCEPT ![t].at = a]
    PROVE  /\ flushing' \in [Threads -> Flushes]
           /\ \A u \in Threads \ {t} : flushing'[u] = flushing[u]
           /\ flushing'[t].at = a /\ flushing'[t].lines = flushing[t].lines
           /\ flushing'[t].token = flushing[t].token
  <1>1. flushing \in [Threads -> Flushes] /\ flushing[t] \in Flushes
    BY DEF SinkTypes
  <1> DEFINE r == [flushing[t] EXCEPT !.at = a]
  <1>2. r \in Flushes
    BY <1>1, FlushTyped, Zenon
  <1>3. r.at = a /\ r.lines = flushing[t].lines /\ r.token = flushing[t].token
    BY <1>1 DEF Flushes
  <1>4. flushing' = [flushing EXCEPT ![t] = r]
    OBVIOUS
  <1> HIDE DEF r
  <1>5. /\ flushing' \in [Threads -> Flushes] /\ flushing'[t] = r
        /\ \A u \in Threads \ {t} : flushing'[u] = flushing[u]
    BY <1>1, <1>2, <1>4
  <1> QED BY <1>3, <1>5 DEF r

LEMMA TurnedWithToken ==
    ASSUME SinkTypes, NEW t \in Threads, NEW a \in Ats, NEW n \in Nat,
           flushing' = [flushing EXCEPT ![t].at = a, ![t].token = n]
    PROVE  /\ flushing' \in [Threads -> Flushes]
           /\ \A u \in Threads \ {t} : flushing'[u] = flushing[u]
           /\ flushing'[t].at = a /\ flushing'[t].lines = flushing[t].lines
           /\ flushing'[t].token = n
  <1>1. flushing \in [Threads -> Flushes] /\ flushing[t] \in Flushes
    BY DEF SinkTypes
  <1> DEFINE r == [flushing[t] EXCEPT !.at = a, !.token = n]
  <1>2. r \in Flushes
    BY <1>1, FlushTyped, Zenon
  <1>3. r.at = a /\ r.lines = flushing[t].lines /\ r.token = n
    BY <1>1 DEF Flushes
  <1>4. flushing' = [flushing EXCEPT ![t] = r]
    BY <1>1, Zenon
  <1> HIDE DEF r
  <1>5. /\ flushing' \in [Threads -> Flushes] /\ flushing'[t] = r
        /\ \A u \in Threads \ {t} : flushing'[u] = flushing[u]
    BY <1>1, <1>2, <1>4, Zenon
  <1> QED BY <1>3, <1>5 DEF r

LEMMA Ended ==
    ASSUME SinkTypes, NEW t \in Threads, flushing' = [flushing EXCEPT ![t] = Idle]
    PROVE  /\ flushing' \in [Threads -> Flushes]
           /\ flushing'[t].at = "idle" /\ \A u \in Threads \ {t} : flushing'[u] = flushing[u]
  <1>1. flushing \in [Threads -> Flushes] /\ Idle \in Flushes /\ Idle.at = "idle"
    BY FlushTyped, Zenon DEF SinkTypes, Idle
  <1> QED BY <1>1

LEMMA Began ==
    ASSUME SinkTypes, NEW t \in Threads, NEW b \in Buffers,
           flushing' = [flushing EXCEPT ![t] = [at |-> "send", lines |-> buffer[b], token |-> sequence]]
    PROVE  /\ flushing' \in [Threads -> Flushes]
           /\ \A u \in Threads \ {t} : flushing'[u] = flushing[u]
           /\ flushing'[t].at = "send" /\ flushing'[t].lines = buffer[b]
           /\ flushing'[t].token = sequence
  <1> DEFINE r == [at |-> "send", lines |-> buffer[b], token |-> sequence]
  <1>1. flushing \in [Threads -> Flushes] /\ buffer[b] \in Seq(Nat) /\ sequence \in Nat
    BY DEF SinkTypes
  <1>2. r \in Flushes
    BY <1>1, Zenon DEF Flushes
  <1>3. r.at = "send" /\ r.lines = buffer[b] /\ r.token = sequence
    OBVIOUS
  <1> HIDE DEF r
  <1>4. /\ flushing' \in [Threads -> Flushes] /\ flushing'[t] = r
        /\ \A u \in Threads \ {t} : flushing'[u] = flushing[u]
    BY <1>1, <1>2, Zenon DEF r
  <1> QED BY <1>3, <1>4 DEF r

LEMMA Sources ==
    ASSUME SinkTypes, NEW t \in Threads
    PROVE  /\ t \in Writers => Buffer(t) \in Buffers
           /\ t # "ticker" \/ sink = "cloudwatch" => Source(t) \in Buffers
           /\ t \in Writers => Source(t) = Buffer(t)
  <1>1. (CHOOSE w \in Writers : TRUE) \in Writers
    BY SinkAssumption
  <1>2. t \in Writers => t # "closer"
    BY SinkAssumption
  <1> QED BY <1>1, <1>2, Zenon DEF Source, Buffer, Buffers, Threads

-----------------------------------------------------------------------------
\* What a step does to the lines: a new one is buffered, ...
Posts(w) ==
    /\ sink' = sink /\ stored' = stored /\ lost' = lost
    /\ flushing[w].at = "idle" /\ flushing'[w].at \in {"idle", "take"}
    /\ Len(buffer[Buffer(w)]) + 1 >= BatchSize => flushing'[w].at = "take"
    /\ \A u \in Threads \ {w} : flushing'[u] = flushing[u]
    /\ posted' = posted + 1
    /\ buffer' = [buffer EXCEPT ![Buffer(w)] = Append(@, posted + 1)]
    /\ next' = next /\ sequence' = sequence /\ clash' = clash /\ ctx' = ctx /\ outages' = outages
    /\ closer' = closer

\* ... a flush takes those of its buffer, ...
Takes(t) ==
    /\ flushing[t].at = "take" /\ buffer[Source(t)] # <<>>
    /\ flushing'[t].at = "send" /\ flushing'[t].lines = buffer[Source(t)]
    /\ flushing'[t].token = sequence
    /\ \A u \in Threads \ {t} : flushing'[u] = flushing[u]
    /\ buffer' = [buffer EXCEPT ![Source(t)] = <<>>]
    /\ clash' = (clash \/ Busy)
    /\ UNCHANGED <<sink, sequence, ctx, closer, next, stored, lost, posted, outages>>

\* ... one that carries them stores them, ...
Delivers(t) ==
    /\ flushing[t].at \in {"send", "resend"}
    /\ stored' = stored \o flushing[t].lines /\ next' = next + 1
    /\ flushing'[t].at = (IF sink = "cloudwatch" THEN "record" ELSE "idle")
    /\ flushing'[t].token = next + 1
    /\ sink = "cloudwatch" => flushing[t].token = next
    /\ \A u \in Threads \ {t} : flushing'[u] = flushing[u]
    /\ UNCHANGED <<sink, buffer, sequence, ctx, closer, posted, clash, lost, outages>>

\* ... or gives them up, ...
Abandons(t) ==
    /\ flushing[t].at \in Carrying
    /\ lost' = lost \cup Range(flushing[t].lines)
    /\ flushing'[t].at = "idle"
    /\ \A u \in Threads \ {t} : flushing'[u] = flushing[u]
    /\ \/ ctx = "done" /\ outages' = outages
       \/ outages' = outages + 1
       \/ sink = "cloudwatch" /\ flushing[t].at \in {"resend"} /\ outages' = outages
    /\ UNCHANGED <<sink, buffer, sequence, ctx, closer, next, stored, posted, clash>>

\* ... asks for the token and sends them again, ...
Retries(t) ==
    /\ \/ /\ sink = "cloudwatch" /\ flushing[t].at = "send" /\ flushing[t].token # next
          /\ flushing'[t].at = "token"
       \/ flushing[t].at = "token" /\ flushing'[t].at = "resend"
    /\ flushing'[t].lines = flushing[t].lines
    /\ \A u \in Threads \ {t} : flushing'[u] = flushing[u]
    /\ UNCHANGED <<sink, buffer, sequence, ctx, closer, next, stored, lost, posted, outages, clash>>

\* ... a flush starts, with nothing yet, or ends with nothing any more, ...
Starts(t) ==
    /\ \/ t = "ticker" /\ sink = "cloudwatch" /\ flushing[t].at = "idle"
       \/ t = "closer" /\ closer = "idle"
    /\ flushing'[t].at = "take"
    /\ closer' = (IF t = "closer" THEN "closing" ELSE closer)
    /\ ctx' = ctx \/ ctx' = "done"
    /\ \A u \in Threads \ {t} : flushing'[u] = flushing[u]
    /\ UNCHANGED <<sink, buffer, sequence, next, stored, lost, posted, outages, clash>>
Ends(t) ==
    /\ \/ flushing[t].at = "take" /\ buffer[Source(t)] = <<>> /\ sequence' = sequence
       \/ flushing[t].at = "record" /\ sequence' = flushing[t].token
    /\ flushing'[t].at = "idle"
    /\ \A u \in Threads \ {t} : flushing'[u] = flushing[u]
    /\ UNCHANGED <<sink, buffer, ctx, closer, next, stored, lost, posted, outages, clash>>

\* ... or nothing happens to them.
Rests ==
    /\ closer' = closer \/ closer' = "closed"
    /\ closer = "idle" => closer' = closer
    /\ UNCHANGED <<sink, buffer, sequence, ctx, flushing, next, stored, lost, posted, outages, clash>>

SinkStep ==
    \/ \E w \in Writers : Posts(w)
    \/ \E t \in Threads : \/ Takes(t) \/ Delivers(t) \/ Abandons(t) \/ Retries(t)
                          \/ Starts(t) \/ Ends(t)
    \/ Rests

LEMMA SinkSteps ==
    ASSUME SinkTypes, Unused, [SinkNext]_sinkVars
    PROVE  SinkTypes' /\ SinkStep
  <1>0. /\ buffer \in [Buffers -> Seq(Nat)] /\ posted \in Nat /\ outages \in Nat /\ next \in Nat
        /\ sequence \in Nat /\ stored \in Seq(Nat) /\ clash \in BOOLEAN
        /\ posted + 1 \in Nat /\ outages + 1 \in Nat /\ next + 1 \in Nat
        /\ sink \in {"cloudwatch", "loki"}
        /\ ctx \in {"live", "done"} /\ closer \in {"idle", "closing", "closed"}
        /\ flushing \in [Threads -> Flushes]
    BY DEF SinkTypes
  <1>1. ASSUME NEW w \in Writers, CloudWatchPost(w) \/ LokiPost(w) PROVE SinkTypes' /\ Posts(w)
    <2> DEFINE full == Len(buffer[Buffer(w)]) + 1 >= BatchSize
    <2>1. Post(w, full) /\ w \in Threads /\ Buffer(w) \in Buffers
      BY <1>1, Sources DEF CloudWatchPost, LokiPost, Threads
    <2> HIDE DEF full
    <2>2. /\ flushing' \in [Threads -> Flushes]
          /\ flushing'[w].at \in {"idle", "take"} /\ (full => flushing'[w].at = "take")
          /\ \A u \in Threads \ {w} : flushing'[u] = flushing[u]
      <3>1. CASE full
        <4>1. flushing' = [flushing EXCEPT ![w].at = "take"] /\ "take" \in Ats
          BY <2>1, <3>1 DEF Post, Ats
        <4> QED BY <2>1, <4>1, Turned, Zenon
      <3>2. CASE ~ full
        BY <1>0, <2>1, <3>2 DEF Post
      <3> QED BY <3>1, <3>2
    <2>3. buffer' \in [Buffers -> Seq(Nat)]
      <3>1. Append(buffer[Buffer(w)], posted + 1) \in Seq(Nat)
        BY <1>0, <2>1, AppendProperties
      <3> QED BY <1>0, <2>1, <3>1 DEF Post
    <2>4. Posts(w)
      BY <2>1, <2>2 DEF Post, Posts, full
    <2> QED BY <1>0, <2>1, <2>2, <2>3, <2>4 DEF Post, SinkTypes
  <1>2. ASSUME NEW t \in Threads, Take(t) PROVE SinkTypes' /\ (Takes(t) \/ Ends(t))
    <2>1. Source(t) \in Buffers
      BY <1>0, <1>2, Sources DEF Take, Unused
    <2>2. CASE buffer[Source(t)] = <<>>
      <3>1. flushing' = [flushing EXCEPT ![t] = Idle] /\ buffer' = buffer /\ clash' = clash
        BY <1>2, <2>2 DEF Take
      <3>2. Ends(t)
        BY <1>2, <2>2, <3>1, Ended, Zenon DEF Take, Ends
      <3> QED BY <1>0, <1>2, <3>1, <3>2, Ended, Zenon DEF Take, SinkTypes
    <2>3. CASE buffer[Source(t)] # <<>>
      <3>1. /\ flushing' = [flushing EXCEPT ![t] =
                  [at |-> "send", lines |-> buffer[Source(t)], token |-> sequence]]
            /\ buffer' = [buffer EXCEPT ![Source(t)] = <<>>]
            /\ clash' = (clash \/ Busy)
        BY <1>2, <2>3 DEF Take
      <3>2. Takes(t)
        BY <1>2, <2>1, <2>3, <3>1, Began, Zenon DEF Take, Takes
      <3>3. buffer' \in [Buffers -> Seq(Nat)]
        <4>1. <<>> \in Seq(Nat)
          OBVIOUS
        <4> QED BY <1>0, <2>1, <3>1, <4>1, Zenon
      <3>4. clash' \in BOOLEAN
        BY <1>0, <3>1 DEF Busy
      <3> QED BY <1>0, <1>2, <2>1, <3>1, <3>2, <3>3, <3>4, Began, Zenon DEF Take, SinkTypes
    <2> QED BY <2>2, <2>3
  <1>3. ASSUME NEW t \in Threads, GiveUp(t), flushing[t].at \in Carrying,
               \/ ctx = "done" /\ outages' = outages
               \/ outages' = outages + 1
               \/ sink = "cloudwatch" /\ flushing[t].at = "resend" /\ outages' = outages,
               UNCHANGED <<sink, buffer, sequence, ctx, closer, posted, clash>>
        PROVE  SinkTypes' /\ Abandons(t)
    <2>1. /\ flushing' \in [Threads -> Flushes] /\ flushing'[t].at = "idle"
          /\ \A u \in Threads \ {t} : flushing'[u] = flushing[u]
      BY <1>3, Ended, Zenon DEF GiveUp
    <2>2. Abandons(t)
      BY <1>3, <2>1 DEF Abandons, GiveUp
    <2> QED BY <1>0, <1>3, <2>1, <2>2 DEF GiveUp, SinkTypes
  <1>4. ASSUME NEW t \in Threads, flushing[t].at \in {"send", "resend"},
               Stores(t, IF sink = "cloudwatch" THEN "record" ELSE "idle"),
               sink = "cloudwatch" => flushing[t].token = next,
               UNCHANGED <<sink, buffer, sequence, ctx, closer, posted, clash, outages>>
        PROVE  SinkTypes' /\ Delivers(t)
    <2> DEFINE n == next + 1
    <2>1. n \in Nat /\ "record" \in Ats /\ "idle" \in Ats
      BY <1>0 DEF Ats
    <2>2. /\ flushing' \in [Threads -> Flushes]
          /\ flushing'[t].at = (IF sink = "cloudwatch" THEN "record" ELSE "idle")
          /\ flushing'[t].token = n
          /\ \A u \in Threads \ {t} : flushing'[u] = flushing[u]
      <3>1. CASE sink = "cloudwatch"
        <4>1. flushing' = [flushing EXCEPT ![t].at = "record", ![t].token = n]
          BY <1>4, <3>1 DEF Stores
        <4> HIDE DEF n
        <4>2. /\ flushing' \in [Threads -> Flushes]
              /\ flushing'[t].at = "record"
              /\ \A u \in Threads \ {t} : flushing'[u] = flushing[u]
          BY <2>1, <4>1, TurnedWithToken, Zenon
        <4>3. flushing'[t].token = n
          BY <1>0, <4>1 DEF Flushes
        <4> QED BY <3>1, <4>2, <4>3
      <3>2. CASE sink # "cloudwatch"
        <4>1. flushing' = [flushing EXCEPT ![t].at = "idle", ![t].token = n]
          BY <1>4, <3>2 DEF Stores
        <4> HIDE DEF n
        <4>2. /\ flushing' \in [Threads -> Flushes]
              /\ flushing'[t].at = "idle"
              /\ \A u \in Threads \ {t} : flushing'[u] = flushing[u]
          BY <2>1, <4>1, TurnedWithToken, Zenon
        <4>3. flushing'[t].token = n
          BY <1>0, <4>1 DEF Flushes
        <4> QED BY <3>2, <4>2, <4>3
      <3> QED BY <3>1, <3>2
    <2>3. stored' = stored \o flushing[t].lines /\ next' = next + 1 /\ lost' = lost
      BY <1>4 DEF Stores
    <2>4. Delivers(t)
      BY <1>4, <2>2, <2>3 DEF Delivers
    <2>5. stored' \in Seq(Nat)
      <3>1. flushing[t].lines \in Seq(Nat)
        BY <1>0, FlushTyped, Zenon
      <3> QED BY <1>0, <2>3, <3>1, ConcatProperties
    <2> QED BY <1>0, <1>4, <2>2, <2>3, <2>4, <2>5 DEF SinkTypes
  <1>5. ASSUME NEW t \in Threads, PutLogEvents(t)
        PROVE  SinkTypes' /\ (Abandons(t) \/ Delivers(t) \/ Retries(t))
    <2>1. flushing[t].at \in Carrying /\ flushing[t].at \in {"send", "resend"} /\ sink = "cloudwatch"
      BY <1>5 DEF PutLogEvents, Carrying
    <2>2. UNCHANGED <<sink, buffer, sequence, ctx, closer, posted, clash>>
      BY <1>5 DEF PutLogEvents
    <2>3. CASE \/ ctx = "done" /\ GiveUp(t) /\ UNCHANGED outages
               \/ Outage /\ GiveUp(t)
               \/ flushing[t].at = "resend" /\ GiveUp(t) /\ UNCHANGED outages
      BY <1>3, <2>1, <2>2, <2>3 DEF Outage
    <2>4. CASE UNCHANGED outages /\ flushing[t].token = next /\ Stores(t, "record")
      BY <1>4, <2>1, <2>2, <2>4
    <2>5. CASE /\ flushing[t].token # next /\ flushing[t].at = "send" /\ UNCHANGED outages
               /\ flushing' = [flushing EXCEPT ![t].at = "token"] /\ UNCHANGED <<next, stored, lost>>
      <3>1. /\ flushing' \in [Threads -> Flushes]
            /\ flushing'[t].at = "token" /\ flushing'[t].lines = flushing[t].lines
            /\ \A u \in Threads \ {t} : flushing'[u] = flushing[u]
        BY <2>5, Turned, Zenon DEF Ats
      <3>2. Retries(t)
        BY <2>1, <2>2, <2>5, <3>1 DEF Retries
      <3> QED BY <1>0, <2>2, <2>5, <3>1, <3>2 DEF SinkTypes
    <2> QED BY <1>5, <2>3, <2>4, <2>5 DEF PutLogEvents
  <1>6. ASSUME NEW t \in Threads, getSequenceToken(t)
        PROVE  SinkTypes' /\ (Abandons(t) \/ Retries(t))
    <2>1. /\ flushing[t].at \in Carrying /\ flushing[t].at = "token"
          /\ UNCHANGED <<sink, buffer, sequence, ctx, closer, posted, clash>>
      BY <1>6 DEF getSequenceToken, Carrying
    <2>2. CASE \/ ctx = "done" /\ GiveUp(t) /\ UNCHANGED outages
               \/ Outage /\ GiveUp(t)
      BY <1>3, <2>1, <2>2 DEF Outage
    <2>3. CASE /\ UNCHANGED <<outages, lost, next, stored>>
               /\ flushing' = [flushing EXCEPT ![t].at = "resend", ![t].token = next]
      <3>1. /\ flushing' \in [Threads -> Flushes]
            /\ flushing'[t].at = "resend" /\ flushing'[t].lines = flushing[t].lines
            /\ \A u \in Threads \ {t} : flushing'[u] = flushing[u]
        <4>1. "resend" \in Ats /\ next \in Nat
          BY <1>0 DEF Ats
        <4> QED BY <2>3, <4>1, TurnedWithToken, Zenon
      <3>2. Retries(t)
        BY <2>1, <2>3, <3>1 DEF Retries
      <3> QED BY <1>0, <2>1, <2>3, <3>1, <3>2 DEF SinkTypes
    <2> QED BY <1>6, <2>2, <2>3 DEF getSequenceToken
  <1>7. ASSUME NEW t \in Threads, Record(t) PROVE SinkTypes' /\ Ends(t)
    <2>1. flushing' = [flushing EXCEPT ![t] = Idle]
      BY <1>7 DEF Record
    <2>2. Ends(t)
      BY <1>7, <2>1, Ended, Zenon DEF Record, Ends
    <2>3. flushing[t].token \in Nat
      BY <1>0, FlushTyped, Zenon
    <2> QED BY <1>0, <1>7, <2>1, <2>2, <2>3, Ended, Zenon DEF Record, SinkTypes
  <1>8. ASSUME NEW t \in Threads, Push(t) PROVE SinkTypes' /\ (Abandons(t) \/ Delivers(t))
    <2>1. /\ flushing[t].at \in Carrying /\ flushing[t].at = "send" /\ sink = "loki"
          /\ UNCHANGED <<sink, buffer, sequence, ctx, closer, posted, clash>>
      BY <1>8 DEF Push, Carrying
    <2>2. CASE Outage /\ GiveUp(t)
      BY <1>3, <2>1, <2>2 DEF Outage
    <2>3. CASE UNCHANGED outages /\ Stores(t, "idle")
      BY <1>4, <2>1, <2>3
    <2> QED BY <1>8, <2>2, <2>3 DEF Push
  <1>9. ASSUME autoFlush \/ CloudWatchClose \/ LokiClose
        PROVE  SinkTypes' /\ \E t \in Threads : Starts(t)
    <2> DEFINE t == IF autoFlush THEN "ticker" ELSE "closer"
    <2>1. t \in Threads /\ "take" \in Ats /\ flushing' = [flushing EXCEPT ![t].at = "take"]
      BY <1>9 DEF autoFlush, CloudWatchClose, LokiClose, Close, Threads, Ats
    <2>2. /\ t = "ticker" => /\ sink = "cloudwatch" /\ flushing[t].at = "idle"
                             /\ closer' = closer /\ ctx' = ctx
          /\ t # "ticker" => t = "closer" /\ closer = "idle" /\ closer' = "closing"
          /\ ctx' = ctx \/ ctx' = "done"
          /\ UNCHANGED <<sink, buffer, sequence, next, stored, lost, posted, outages, clash>>
      BY <1>9 DEF autoFlush, CloudWatchClose, LokiClose, Close
    <2> HIDE DEF t
    <2>3. /\ flushing' \in [Threads -> Flushes] /\ flushing'[t].at = "take"
          /\ \A u \in Threads \ {t} : flushing'[u] = flushing[u]
      BY <2>1, Turned, Zenon
    <2>4. Starts(t)
      BY <2>2, <2>3 DEF Starts
    <2> QED BY <1>0, <2>1, <2>2, <2>3, <2>4 DEF SinkTypes
  <1>10. ASSUME Closed \/ UNCHANGED sinkVars PROVE SinkTypes' /\ Rests
    BY <1>0, <1>10 DEF Closed, sinkVars, SinkTypes, Rests
  <1> QED
    BY <1>1, <1>2, <1>5, <1>6, <1>7, <1>8, <1>9, <1>10, Zenon DEF SinkNext, SinkStep

-----------------------------------------------------------------------------
LEMMA SinkStart == SinkInit => SinkInv
  <1> SUFFICES ASSUME SinkInit PROVE SinkInv
    OBVIOUS
  <1>1. /\ buffer = [b \in Buffers |-> <<>>] /\ flushing = [t \in Threads |-> Idle]
        /\ sequence = 0 /\ next = 0 /\ posted = 0 /\ outages = 0 /\ stored = <<>> /\ lost = {}
        /\ ctx = "live" /\ closer = "idle" /\ clash = FALSE /\ sink \in {"cloudwatch", "loki"}
    BY DEF SinkInit
  <1>2. "closer" \in Threads /\ "ticker" \in Threads
    BY DEF Threads
  <1>3. Idle \in Flushes /\ Idle.at = "idle" /\ Idle.lines = <<>>
    <2>1. <<>> \in Seq(Nat) /\ 0 \in Nat
      OBVIOUS
    <2> QED BY <2>1, Zenon DEF Idle, Flushes
  <1>4. SinkTypes
    <2>1. buffer \in [Buffers -> Seq(Nat)]
      <3>1. <<>> \in Seq(Nat)
        OBVIOUS
      <3> QED BY <1>1, <3>1, Zenon
    <2>2. flushing \in [Threads -> Flushes]
      BY <1>1, <1>3, Zenon
    <2>3. sequence \in Nat /\ next \in Nat /\ posted \in Nat /\ outages \in Nat
      BY <1>1, SMT
    <2>4. stored \in Seq(Nat)
      <3>1. <<>> \in Seq(Nat)
        OBVIOUS
      <3> QED BY <1>1, <3>1, Zenon
    <2>5. /\ ctx \in {"live", "done"} /\ closer \in {"idle", "closing", "closed"}
          /\ clash \in BOOLEAN
      BY <1>1, Zenon
    <2> QED BY <1>1, <2>1, <2>2, <2>3, <2>4, <2>5, Zenon DEF SinkTypes
  <1>5. Range(<<>>) = {} /\ IsInjective(<<>>)
    BY DEF Range, IsInjective
  <1>6. /\ \A t \in Threads : carried[t] = {}
        /\ \A b \in Buffers : held[b] = {}
    BY <1>1, <1>3, <1>5 DEF carried, held, Carrying
  <1>7. Placed
    <2>1. Apart(Range(stored), lost, carried, held)
      BY <1>1, <1>5, <1>6 DEF Apart
    <2>2. 1 .. posted = {}
      BY <1>1
    <2>3. Whole(Range(stored), lost, carried, held, posted)
      BY <1>1, <1>5, <1>6, <2>2, WholeMembers DEF Found
    <2> QED BY <2>1, <2>3 DEF Placed
  <1>8. Once
    BY <1>1, <1>3, <1>5 DEF Once, Carrying
  <1>9. FullIsTaken /\ Unused /\ Blamed
    BY <1>1, <1>2, <1>3 DEF FullIsTaken, Unused, Blamed
  <1>10. InTurn
    BY <1>1, <1>3 DEF InTurn, Working
  <1> QED BY <1>4, <1>7, <1>8, <1>9, <1>10 DEF SinkInv

\* Where the lines are depends on the contents of the places alone.
LEMMA LineUnmoved ==
    ASSUME NEW s, NEW l, NEW c, NEW b, NEW k, NEW c1, NEW b1,
           Apart(s, l, c, b), Whole(s, l, c, b, k),
           \A t \in Threads : c1[t] = c[t], \A x \in Buffers : b1[x] = b[x]
    PROVE  Apart(s, l, c1, b1) /\ Whole(s, l, c1, b1, k)
  <1>1. Apart(s, l, c1, b1)
    BY DEF Apart
  <1>2. Whole(s, l, c1, b1, k)
    BY WholeMembers DEF Found
  <1> QED BY <1>1, <1>2

LEMMA OthersCarry ==
    ASSUME NEW t \in Threads, \A u \in Threads \ {t} : flushing'[u] = flushing[u]
    PROVE  /\ \A u \in Threads \ {t} : carried'[u] = carried[u]
           /\ carried[t] = IF flushing[t].at \in Carrying THEN Range(flushing[t].lines) ELSE {}
           /\ carried'[t] = IF flushing'[t].at \in Carrying THEN Range(flushing'[t].lines) ELSE {}
  BY Zenon DEF carried

LEMMA OthersHold ==
    ASSUME SinkTypes, NEW x \in Buffers, NEW q, buffer' = [buffer EXCEPT ![x] = q]
    PROVE  /\ held[x] = Range(buffer[x]) /\ held'[x] = Range(q) /\ buffer'[x] = q
           /\ \A y \in Buffers \ {x} : held'[y] = held[y] /\ buffer'[y] = buffer[y]
  BY DEF held, SinkTypes

LEMMA PlacedStep ==
    ASSUME SinkTypes, Unused, Placed, Once, SinkStep
    PROVE  Placed' /\ Once'
  <1> DEFINE s == Range(stored)
  <1>0. /\ Apart(s, lost, carried, held) /\ Whole(s, lost, carried, held, posted)
        /\ posted \in Nat /\ stored \in Seq(Nat)
        /\ \A b \in Buffers : buffer[b] \in Seq(Nat) /\ held[b] = Range(buffer[b])
    BY DEF Placed, SinkTypes, held
  <1> HIDE DEF s
  <1>t. ASSUME NEW t \in Threads, flushing[t].at = "take" PROVE Source(t) \in Buffers
    BY <1>t, Sources DEF Unused, SinkTypes
  <1>1. ASSUME NEW w \in Writers, Posts(w) PROVE Placed' /\ Once'
    <2> DEFINE x == Buffer(w)
               q == Append(buffer[x], posted + 1)
    <2>1. w \in Threads /\ x \in Buffers /\ posted + 1 \in Nat
      BY <1>0, Sources DEF Threads
    <2>2. buffer' = [buffer EXCEPT ![x] = q]
      BY <1>1 DEF Posts
    <2>3. posted + 1 \notin Range(buffer[x])
      <3>1. \A n : n \in held[x] => n \in 1 .. posted
        BY <1>0, <2>1, WholeMembers DEF Found
      <3> QED BY <1>0, <2>1, <3>1
    <2>4. Range(q) = Range(buffer[x]) \cup {posted + 1} /\ IsInjective(q)
      BY <1>0, <2>1, <2>3, RangeAppend DEF Once
    <2> HIDE DEF x, q
    <2>5. /\ held'[x] = held[x] \cup {posted + 1} /\ buffer'[x] = q
          /\ \A y \in Buffers \ {x} : held'[y] = held[y] /\ buffer'[y] = buffer[y]
      BY <2>1, <2>2, <2>4, OthersHold, Zenon
    <2>6. \A t \in Threads : carried'[t] = carried[t]
      BY <1>1, <2>1, OthersCarry DEF Posts, Carrying
    <2>7. stored' = stored /\ lost' = lost /\ posted' = posted + 1
      BY <1>1 DEF Posts
    <2>8. Placed'
      <3>1. Apart(s, lost, carried, held') /\ Whole(s, lost, carried, held', posted + 1)
        <4>1. \A y \in Buffers \ {x} : held'[y] = held[y]
          BY <2>5
        <4>2. /\ Apart(s, lost, carried, held) /\ Whole(s, lost, carried, held, posted)
              /\ posted \in Nat /\ x \in Buffers /\ held'[x] = held[x] \cup {posted + 1}
          BY <1>0, <2>1, <2>5
        <4> QED BY <4>1, <4>2, LineAdded
      <3>2. Apart(s, lost, carried', held') /\ Whole(s, lost, carried', held', posted + 1)
        BY <2>6, <3>1, LineUnmoved
      <3> QED BY <2>7, <3>2 DEF Placed, s
    <2>9. Once'
      <3>1. \A b \in Buffers : IsInjective(buffer'[b])
        BY <2>4, <2>5 DEF Once
      <3>2. \A t \in Threads : flushing'[t].at \in Carrying => IsInjective(flushing'[t].lines)
        BY <1>1 DEF Posts, Once, Carrying
      <3> QED BY <2>7, <3>1, <3>2 DEF Once
    <2> QED BY <2>8, <2>9
  <1>2. ASSUME NEW t \in Threads, Takes(t) PROVE Placed' /\ Once'
    <2> DEFINE x == Source(t)
    <2>1. /\ x \in Buffers /\ buffer' = [buffer EXCEPT ![x] = <<>>]
          /\ stored' = stored /\ lost' = lost /\ posted' = posted
      BY <1>2, <1>t DEF Takes
    <2>2. /\ flushing[t].at = "take" /\ flushing'[t].at = "send" /\ flushing'[t].lines = buffer[x]
          /\ \A u \in Threads \ {t} : flushing'[u] = flushing[u]
      BY <1>2 DEF Takes
    <2> HIDE DEF x
    <2>3. Range(<<>>) = {} /\ IsInjective(<<>>)
      BY DEF Range, IsInjective
    <2>4. /\ held'[x] = {} /\ held[x] = Range(buffer[x]) /\ buffer'[x] = <<>>
          /\ \A y \in Buffers \ {x} : held'[y] = held[y] /\ buffer'[y] = buffer[y]
      BY <2>1, <2>3, OthersHold, Zenon
    <2>5. /\ carried[t] = {} /\ carried'[t] = Range(buffer[x])
          /\ \A u \in Threads \ {t} : carried'[u] = carried[u]
      BY <2>2, OthersCarry DEF Carrying
    <2>6. Apart(s, lost, carried', held') /\ Whole(s, lost, carried', held', posted)
      <3>1. /\ \A y \in Buffers \ {x} : held'[y] = held[y]
            /\ \A u \in Threads \ {t} : carried'[u] = carried[u]
        BY <2>4, <2>5
      <3>2. /\ Apart(s, lost, carried, held) /\ Whole(s, lost, carried, held, posted)
            /\ x \in Buffers /\ held'[x] = {} /\ carried[t] = {} /\ carried'[t] = held[x]
        BY <1>0, <2>1, <2>4, <2>5
      <3> QED BY <3>1, <3>2, LineTaken
    <2>7. Once'
      BY <2>1, <2>2, <2>3, <2>4 DEF Once
    <2> QED BY <2>1, <2>6, <2>7 DEF Placed, s
  <1>3. ASSUME NEW t \in Threads, Delivers(t) PROVE Placed' /\ Once'
    <2>1. /\ flushing[t].at \in Carrying /\ flushing'[t].at \notin Carrying
          /\ \A u \in Threads \ {t} : flushing'[u] = flushing[u]
          /\ stored' = stored \o flushing[t].lines /\ lost' = lost /\ posted' = posted
          /\ buffer' = buffer
      BY <1>3 DEF Delivers, Carrying
    <2>2. /\ carried[t] = Range(flushing[t].lines) /\ carried'[t] = {}
          /\ \A u \in Threads \ {t} : carried'[u] = carried[u]
      BY <2>1, OthersCarry
    <2>3. held' = held
      BY <2>1 DEF held
    <2>4. flushing[t].lines \in Seq(Nat)
      BY FlushTyped, Zenon DEF SinkTypes
    <2>5. s \cap carried[t] = {}
      BY <1>0 DEF Apart
    <2>6. Range(stored') = s \cup carried[t]
      BY <1>0, <2>1, <2>2, <2>4, RangeConcat DEF s
    <2>7. IsInjective(stored')
      BY <1>0, <2>1, <2>2, <2>4, <2>5, RangeConcat DEF s, Once
    <2>8. Apart(Range(stored'), lost, carried', held) /\ Whole(Range(stored'), lost, carried', held, posted)
      BY <1>0, <2>2, <2>6, LineStored, Zenon
    <2>9. Once'
      BY <2>1, <2>7 DEF Once
    <2> QED BY <2>1, <2>3, <2>8, <2>9 DEF Placed
  <1>4. ASSUME NEW t \in Threads, Abandons(t) PROVE Placed' /\ Once'
    <2>1. /\ flushing[t].at \in Carrying /\ flushing'[t].at \notin Carrying
          /\ \A u \in Threads \ {t} : flushing'[u] = flushing[u]
          /\ stored' = stored /\ lost' = lost \cup Range(flushing[t].lines)
          /\ posted' = posted /\ buffer' = buffer
      BY <1>4 DEF Abandons, Carrying
    <2>2. /\ carried[t] = Range(flushing[t].lines) /\ carried'[t] = {}
          /\ \A u \in Threads \ {t} : carried'[u] = carried[u]
      BY <2>1, OthersCarry
    <2>3. held' = held /\ lost' = lost \cup carried[t]
      BY <2>1, <2>2 DEF held
    <2>4. Apart(s, lost', carried', held) /\ Whole(s, lost', carried', held, posted)
      BY <1>0, <2>2, <2>3, LineLost, Zenon
    <2>5. Once'
      BY <2>1 DEF Once
    <2> QED BY <2>1, <2>3, <2>4, <2>5 DEF Placed, s
  <1>5. ASSUME stored' = stored, lost' = lost, posted' = posted, buffer' = buffer,
               NEW t \in Threads, \A u \in Threads \ {t} : flushing'[u] = flushing[u],
               \/ /\ flushing[t].at \in Carrying /\ flushing'[t].at \in Carrying
                  /\ flushing'[t].lines = flushing[t].lines
               \/ flushing[t].at \notin Carrying /\ flushing'[t].at \notin Carrying
        PROVE  Placed' /\ Once'
    <2>1. \A u \in Threads : carried'[u] = carried[u]
      BY <1>5, OthersCarry
    <2>2. held' = held
      BY <1>5 DEF held
    <2>3. Apart(s, lost, carried', held) /\ Whole(s, lost, carried', held, posted)
      BY <1>0, <2>1, LineUnmoved
    <2>4. Once'
      BY <1>5 DEF Once
    <2> QED BY <1>5, <2>2, <2>3, <2>4 DEF Placed, s
  <1>6. ASSUME NEW t \in Threads, Retries(t) \/ Starts(t) \/ Ends(t) PROVE Placed' /\ Once'
    <2>1. /\ stored' = stored /\ lost' = lost /\ posted' = posted /\ buffer' = buffer
          /\ \A u \in Threads \ {t} : flushing'[u] = flushing[u]
      BY <1>6 DEF Retries, Starts, Ends
    <2>2. \/ /\ flushing[t].at \in Carrying /\ flushing'[t].at \in Carrying
             /\ flushing'[t].lines = flushing[t].lines
          \/ flushing[t].at \notin Carrying /\ flushing'[t].at \notin Carrying
      BY <1>6 DEF Retries, Starts, Ends, Unused, Carrying
    <2> QED BY <1>5, <2>1, <2>2
  <1>7. CASE Rests
    <2>1. stored' = stored /\ lost' = lost /\ posted' = posted /\ buffer' = buffer /\ flushing' = flushing
      BY <1>7 DEF Rests
    <2> QED BY <2>1 DEF Placed, Once, carried, held
  <1> QED BY <1>1, <1>2, <1>3, <1>4, <1>6, <1>7 DEF SinkStep

\* A flush on its way to a full buffer stays so until it has taken it.
LEMMA FullStep ==
    ASSUME SinkTypes, Unused, FullIsTaken, SinkStep
    PROVE  FullIsTaken'
  <1>0. sink' = sink
    BY DEF SinkStep, Posts, Takes, Delivers, Abandons, Retries, Starts, Ends, Rests
  <1>s. \A t : Source(t)' = Source(t)
    BY <1>0 DEF Source
  <1> DEFINE Full(b) == buffer[b] # <<>> /\ Len(buffer[b]) >= BatchSize
             Due(t, b) == flushing[t].at = "take" /\ Source(t) = b
  <1>f. \A b \in Buffers : Full(b) => \E t \in Threads : Due(t, b)
    BY DEF FullIsTaken
  <1> SUFFICES ASSUME NEW b \in Buffers, buffer'[b] # <<>>, Len(buffer'[b]) >= BatchSize
               PROVE  \E t \in Threads : flushing'[t].at = "take" /\ Source(t) = b
    BY <1>s DEF FullIsTaken
  <1>1. ASSUME NEW w \in Writers, Posts(w)
        PROVE  \E t \in Threads : flushing'[t].at = "take" /\ Source(t) = b
    <2>1. w \in Threads /\ Source(w) = Buffer(w) /\ Buffer(w) \in Buffers /\ posted + 1 \in Nat
      BY Sources DEF Threads, SinkTypes
    <2>2. CASE b = Buffer(w)
      <3>1. buffer'[b] = Append(buffer[b], posted + 1) /\ buffer[b] \in Seq(Nat)
        BY <1>1, <2>2 DEF Posts, SinkTypes
      <3>2. Len(buffer'[b]) = Len(buffer[b]) + 1
        BY <2>1, <3>1, AppendProperties
      <3>3. flushing'[w].at = "take"
        BY <1>1, <2>2, <3>2 DEF Posts
      <3> QED BY <2>1, <2>2, <3>3
    <2>3. CASE b # Buffer(w)
      <3>1. Full(b)
        BY <1>1, <2>3 DEF Posts, SinkTypes
      <3>2. PICK t \in Threads : Due(t, b)
        BY <1>f, <3>1
      <3>3. t # w
        BY <1>1, <3>2 DEF Posts
      <3> QED BY <1>1, <3>2, <3>3 DEF Posts
    <2> QED BY <2>2, <2>3
  <1>2. ASSUME NEW t \in Threads, Takes(t)
        PROVE  \E u \in Threads : flushing'[u].at = "take" /\ Source(u) = b
    <2>1. Source(t) \in Buffers
      BY <1>2, Sources DEF Takes, Unused, SinkTypes
    <2>2. b # Source(t)
      BY <1>2, <2>1 DEF Takes, SinkTypes
    <2>3. Full(b)
      BY <1>2, <2>2 DEF Takes, SinkTypes
    <2>4. PICK u \in Threads : Due(u, b)
      BY <1>f, <2>3
    <2> QED BY <1>2, <2>2, <2>4 DEF Takes
  <1>3. ASSUME NEW t \in Threads, Delivers(t) \/ Abandons(t) \/ Retries(t) \/ Starts(t) \/ Ends(t)
        PROVE  \E u \in Threads : flushing'[u].at = "take" /\ Source(u) = b
    <2>1. buffer' = buffer /\ \A u \in Threads \ {t} : flushing'[u] = flushing[u]
      BY <1>3 DEF Delivers, Abandons, Retries, Starts, Ends
    <2>2. flushing[t].at # "take" \/ buffer[Source(t)] = <<>>
      BY <1>3 DEF Delivers, Abandons, Retries, Starts, Ends, Carrying, Unused
    <2>3. Full(b)
      BY <2>1
    <2>4. PICK u \in Threads : Due(u, b)
      BY <1>f, <2>3
    <2> QED BY <2>1, <2>2, <2>3, <2>4
  <1>4. CASE Rests
    BY <1>f, <1>4 DEF Rests
  <1> QED BY <1>1, <1>2, <1>3, <1>4 DEF SinkStep

LEMMA UnusedStep ==
    ASSUME SinkTypes, Unused, SinkStep
    PROVE  Unused'
  <1>0. "closer" \in Threads /\ "ticker" \in Threads
    BY DEF Threads
  <1>1. ASSUME NEW w \in Writers, Posts(w) PROVE Unused'
    <2>1. w # "closer" /\ w # "ticker" /\ w \in Threads
      BY SinkAssumption DEF Threads
    <2> QED BY <1>0, <1>1, <2>1 DEF Posts, Unused
  <1>2. ASSUME NEW t \in Threads, Takes(t) PROVE Unused'
    BY <1>0, <1>2 DEF Takes, Unused
  <1>3. ASSUME NEW t \in Threads, Delivers(t) PROVE Unused'
    BY <1>0, <1>3 DEF Delivers, Unused
  <1>4. ASSUME NEW t \in Threads, Abandons(t) PROVE Unused'
    BY <1>0, <1>4 DEF Abandons, Unused
  <1>5. ASSUME NEW t \in Threads, Retries(t) PROVE Unused'
    BY <1>0, <1>5 DEF Retries, Unused
  <1>6. ASSUME NEW t \in Threads, Starts(t) PROVE Unused'
    BY <1>0, <1>6 DEF Starts, Unused
  <1>7. ASSUME NEW t \in Threads, Ends(t) PROVE Unused'
    BY <1>0, <1>7 DEF Ends, Unused
  <1>8. CASE Rests
    BY <1>8 DEF Rests, Unused
  <1> QED BY <1>1, <1>2, <1>3, <1>4, <1>5, <1>6, <1>7, <1>8 DEF SinkStep

\* Where the threads of CloudWatch are while no two flushes have overlapped.
LEMMA TurnStep ==
    ASSUME SinkTypes, Unused, InTurn, SinkStep
    PROVE  InTurn'
  <1> DEFINE Sending == {"send", "token", "resend", "record"}
  <1>0. /\ sink' = sink /\ (clash => clash')
        /\ clash \in BOOLEAN /\ next \in Nat /\ sequence \in Nat
    BY DEF SinkStep, Posts, Takes, Delivers, Abandons, Retries, Starts, Ends, Rests, SinkTypes
  <1> SUFFICES ASSUME sink = "cloudwatch", ~ clash' PROVE InTurn'
    BY <1>0 DEF InTurn
  <1>c. /\ \A t, u \in Threads :
             flushing[t].at \in Sending /\ flushing[u].at \in Sending => t = u
        /\ (\A t \in Threads : flushing[t].at \notin Sending) => sequence = next
        /\ \A t \in Threads :
             /\ flushing[t].at \notin {"token", "resend"}
             /\ flushing[t].at = "send" => flushing[t].token = next /\ sequence = next
             /\ flushing[t].at = "record" => flushing[t].token = next
    <2>1. ~ clash
      BY <1>0
    <2> QED BY <2>1 DEF InTurn, Working
  <1> DEFINE Goal == /\ \A t, u \in Threads :
                          flushing'[t].at \in Sending /\ flushing'[u].at \in Sending => t = u
                     /\ (\A t \in Threads : flushing'[t].at \notin Sending) => sequence' = next'
                     /\ \A t \in Threads :
                          /\ flushing'[t].at \notin {"token", "resend"}
                          /\ flushing'[t].at = "send" => flushing'[t].token = next' /\ sequence' = next'
                          /\ flushing'[t].at = "record" => flushing'[t].token = next'
  <1> SUFFICES Goal
    BY Zenon DEF InTurn, Working
  <1>q. ASSUME NEW t \in Threads, flushing[t].at \notin Sending, flushing'[t].at \notin Sending,
               \A u \in Threads \ {t} : flushing'[u] = flushing[u],
               sequence' = sequence, next' = next
        PROVE  Goal
    BY <1>c, <1>q
  <1>1. ASSUME NEW w \in Writers, Posts(w) PROVE Goal
    BY <1>1, <1>q DEF Posts, Threads
  <1>2. ASSUME NEW t \in Threads, Takes(t) PROVE Goal
    <2>1. \A u \in Threads : flushing[u].at \notin Sending
      BY <1>0, <1>2, Zenon DEF Takes, Busy
    <2>2. /\ flushing'[t].at = "send" /\ flushing'[t].token = sequence
          /\ \A u \in Threads \ {t} : flushing'[u] = flushing[u]
          /\ sequence' = sequence /\ next' = next
      BY <1>2 DEF Takes
    <2> QED BY <1>c, <2>1, <2>2
  <1>3. ASSUME NEW t \in Threads, Delivers(t) PROVE Goal
    <2>1. /\ flushing[t].at \in Sending /\ flushing'[t].at = "record"
          /\ flushing'[t].token = next'
          /\ \A u \in Threads \ {t} : flushing'[u] = flushing[u]
      BY <1>3 DEF Delivers
    <2>2. \A u \in Threads \ {t} : flushing[u].at \notin Sending
      BY <1>c, <2>1
    <2> QED BY <2>1, <2>2
  <1>4. ASSUME NEW t \in Threads, Abandons(t) PROVE Goal
    <2>1. /\ flushing[t].at = "send" /\ flushing'[t].at = "idle"
          /\ \A u \in Threads \ {t} : flushing'[u] = flushing[u]
          /\ sequence' = sequence /\ next' = next
      BY <1>4, <1>c DEF Abandons, Carrying
    <2>2. sequence = next /\ \A u \in Threads \ {t} : flushing[u].at \notin Sending
      BY <1>c, <2>1
    <2> QED BY <2>1, <2>2
  <1>5. ASSUME NEW t \in Threads, Retries(t) PROVE Goal
    BY <1>c, <1>5 DEF Retries
  <1>6. ASSUME NEW t \in Threads, Starts(t) PROVE Goal
    BY <1>6, <1>q DEF Starts, Unused
  <1>7. ASSUME NEW t \in Threads, Ends(t) PROVE Goal
    <2>1. CASE flushing[t].at = "take"
      BY <1>7, <1>q, <2>1 DEF Ends
    <2>2. CASE flushing[t].at = "record"
      <3>1. /\ sequence' = next' /\ flushing'[t].at = "idle"
            /\ \A u \in Threads \ {t} : flushing'[u] = flushing[u]
        BY <1>7, <1>c, <2>2 DEF Ends
      <3>2. \A u \in Threads \ {t} : flushing[u].at \notin Sending
        BY <1>c, <2>2
      <3> QED BY <3>1, <3>2
    <2> QED BY <1>7, <2>1, <2>2 DEF Ends
  <1>8. CASE Rests
    BY <1>8, <1>c DEF Rests
  <1> QED BY <1>1, <1>2, <1>3, <1>4, <1>5, <1>6, <1>7, <1>8, Zenon DEF SinkStep

\* What is given up was given up for a reason.
LEMMA BlamedStep ==
    ASSUME SinkTypes, InTurn, Blamed, SinkStep
    PROVE  Blamed'
  <1>0. outages \in Nat
    BY DEF SinkTypes
  <1>1. ASSUME lost' = lost, outages' = outages, clash => clash', ctx = "done" => ctx' = "done"
        PROVE  Blamed'
    BY <1>1 DEF Blamed
  <1>2. ASSUME NEW t \in Threads, Abandons(t) PROVE Blamed'
    <2>1. CASE ctx = "done"
      BY <1>2, <2>1 DEF Abandons, Blamed
    <2>2. CASE outages' = outages + 1
      BY <1>0, <2>2 DEF Blamed
    <2>3. CASE sink = "cloudwatch" /\ flushing[t].at = "resend"
      BY <1>2, <2>3 DEF Abandons, Blamed, InTurn
    <2> QED BY <1>2, <2>1, <2>2, <2>3 DEF Abandons
  <1>3. ASSUME NEW w \in Writers, Posts(w) PROVE Blamed'
    BY <1>1, <1>3 DEF Posts
  <1>4. ASSUME NEW t \in Threads, Takes(t) \/ Delivers(t) \/ Retries(t) \/ Starts(t) \/ Ends(t)
        PROVE  Blamed'
    BY <1>1, <1>4, Zenon DEF Takes, Delivers, Retries, Starts, Ends
  <1>5. CASE Rests
    BY <1>1, <1>5 DEF Rests
  <1> QED BY <1>2, <1>3, <1>4, <1>5 DEF SinkStep

LEMMA SinkKept == SinkInv /\ [SinkNext]_sinkVars => SinkInv'
  <1> SUFFICES ASSUME SinkInv, [SinkNext]_sinkVars PROVE SinkInv'
    OBVIOUS
  <1>1. SinkTypes' /\ SinkStep
    BY SinkSteps DEF SinkInv
  <1> QED
    BY <1>1, PlacedStep, FullStep, UnusedStep, TurnStep, BlamedStep DEF SinkInv

\* The log adapters, for any number of loggers, any batch size and however their
\* flushes overlap, fail and race with Close: no line disappears or is stored
\* twice, a full buffer has a flush on its way, and lines are only given up for an
\* outage, overlapping flushes or a Close.
THEOREM LinesKept == SinkSpec => []LinesAreAccountedFor
  <1>1. SinkInv => LinesAreAccountedFor
    <2> SUFFICES ASSUME SinkInv PROVE LinesAreAccountedFor
      OBVIOUS
    <2> DEFINE U == UNION {carried[t] : t \in Threads}
               V == UNION {held[b] : b \in Buffers}
    <2>1. InFlight = U
      BY DEF InFlight, carried, Carrying
    <2>2. Buffered = V
      BY DEF Buffered, held
    <2>3. /\ \A n : n \in U <=> \E t \in Threads : n \in carried[t]
          /\ \A n : n \in V <=> \E b \in Buffers : n \in held[b]
      OBVIOUS
    <2>4. Range(stored) \cup lost \cup U \cup V = 1 .. posted
      BY DEF SinkInv, Placed, Whole
    <2> HIDE DEF U, V
    <2>5. Apart(Range(stored), lost, carried, held)
      BY DEF SinkInv, Placed
    <2>6. /\ Range(stored) \cap (lost \cup U \cup V) = {}
          /\ (lost \cup U) \cap V = {} /\ lost \cap U = {}
      BY <2>3, <2>5 DEF Apart
    <2>7. \A b \in Buffers : buffer[b] # <<>> /\ Len(buffer[b]) >= BatchSize =>
            \E t \in Threads : flushing[t].at = "take"
      BY DEF SinkInv, FullIsTaken
    <2> QED
      BY <2>1, <2>2, <2>4, <2>6, <2>7 DEF SinkInv, Once, Blamed, LinesAreAccountedFor
  <1> QED
    BY <1>1, SinkStart, SinkKept, PTL DEF SinkSpec

=============================================================================
