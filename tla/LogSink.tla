------------------------------- MODULE LogSink -------------------------------
(***************************************************************************)
(* The two log adapters that batch: CloudWatch, whose derived loggers      *)
(* share one buffer, a sequence token and a flushing goroutine, and Loki,  *)
(* where every derived logger has a buffer of its own and only a full      *)
(* batch or Close sends it.  A flush takes the buffer under the lock and   *)
(* sends it outside, so flushes overlap.                                   *)
(*                                                                         *)
(* The service takes a batch only with the token of its last one.          *)
(*                                                                         *)
(* Definitions named Mutant... are faulty variants of the one after them.  *)
(***************************************************************************)
EXTENDS Integers, Sequences, Functions

CONSTANTS Writers,     \* goroutines that log, each through a logger of its own
          BatchSize,   \* WithBatchSize, which takes any number
          MaxLines, MaxOutages

ASSUME SinkAssumption ==
  /\ Writers # {} /\ Writers \cap {"ticker", "closer", "shared"} = {}
  /\ BatchSize \in Int /\ MaxLines \in Nat /\ MaxOutages \in Nat

VARIABLES sink,        \* "cloudwatch" or "loki"
          buffer,      \* logger -> the lines it holds
          sequence,    \* the token kept by the adapter; 0 is nil
          ctx,         \* flushCtx
          flushing,    \* thread -> the flush it is in
          closer,      \* "idle", "closing", "closed"
          next,        \* the token the service expects
          stored,      \* lines the service has, in order
          lost,        \* lines of a batch that was given up
          posted, outages,
          clash        \* two flushes overlapped

sinkVars == <<sink, buffer, sequence, ctx, flushing, closer, next, stored, lost, posted,
              outages, clash>>

Threads == Writers \cup {"ticker", "closer"}
Buffer(w) == IF sink = "cloudwatch" THEN "shared" ELSE w
Buffers == Writers \cup {"shared"}
Idle == [at |-> "idle", lines |-> <<>>, token |-> 0]

SinkInit ==
  /\ sink \in {"cloudwatch", "loki"}
  /\ buffer = [b \in Buffers |-> <<>>]
  /\ sequence = 0 /\ ctx = "live" /\ closer = "idle" /\ next = 0
  /\ flushing = [t \in Threads |-> Idle]
  /\ stored = <<>> /\ lost = {} /\ posted = 0 /\ outages = 0 /\ clash = FALSE

Busy == \E t \in Threads : flushing[t].at \in {"send", "token", "resend", "record"}

-----------------------------------------------------------------------------
\* post: the line is appended under the lock; whoever sees a full batch flushes.
Post(w, full) ==
  /\ flushing[w].at = "idle" /\ posted < MaxLines /\ posted' = posted + 1
  /\ buffer' = [buffer EXCEPT ![Buffer(w)] = Append(@, posted + 1)]
  /\ flushing' = IF full THEN [flushing EXCEPT ![w].at = "take"] ELSE flushing
  /\ UNCHANGED <<sink, sequence, ctx, closer, next, stored, lost, outages, clash>>
CloudWatchPost(w) ==
  sink = "cloudwatch" /\ Post(w, Len(buffer[Buffer(w)]) + 1 >= BatchSize)
LokiPost(w) ==
  sink = "loki" /\ Post(w, Len(buffer[Buffer(w)]) + 1 >= BatchSize)

\* The flush takes all that is buffered, with the token as it is now.
Source(t) == IF sink = "cloudwatch" THEN "shared" ELSE IF t = "closer" THEN CHOOSE w \in Writers : TRUE ELSE t
MutantTake(t) ==
  LET lines == buffer[Source(t)] IN
  /\ flushing[t].at = "take"
  /\ flushing' = [flushing EXCEPT ![t] = [at |-> "send", lines |-> lines, token |-> sequence]]
  /\ UNCHANGED <<sink, buffer, sequence, ctx, closer, next, stored, lost, posted, outages, clash>>
Take(t) ==
  LET lines == buffer[Source(t)] IN
  /\ flushing[t].at = "take"
  /\ IF lines = <<>>
     THEN flushing' = [flushing EXCEPT ![t] = Idle] /\ UNCHANGED <<buffer, clash>>
     ELSE /\ flushing' = [flushing EXCEPT ![t] = [at |-> "send", lines |-> lines, token |-> sequence]]
          /\ buffer' = [buffer EXCEPT ![Source(t)] = <<>>]
          /\ clash' = (clash \/ Busy)
  /\ UNCHANGED <<sink, sequence, ctx, closer, next, stored, lost, posted, outages>>

GiveUp(t) ==
  /\ lost' = lost \cup Range(flushing[t].lines)
  /\ flushing' = [flushing EXCEPT ![t] = Idle]
  /\ UNCHANGED <<next, stored>>
Stores(t, at) ==
  /\ stored' = stored \o flushing[t].lines /\ next' = next + 1
  /\ flushing' = [flushing EXCEPT ![t].at = at, ![t].token = next + 1]
  /\ UNCHANGED lost
Outage == outages < MaxOutages /\ outages' = outages + 1

\* PutLogEvents, with the shared context; a wrong token is looked up and tried once more.
PutLogEvents(t) ==
  /\ sink = "cloudwatch" /\ flushing[t].at \in {"send", "resend"}
  /\ \/ ctx = "done" /\ GiveUp(t) /\ UNCHANGED outages
     \/ ctx = "live" /\ Outage /\ GiveUp(t)
     \/ ctx = "live" /\ UNCHANGED outages /\ flushing[t].token = next /\ Stores(t, "record")
     \/ /\ ctx = "live" /\ UNCHANGED outages /\ flushing[t].token # next
        /\ IF flushing[t].at = "send"
           THEN flushing' = [flushing EXCEPT ![t].at = "token"] /\ UNCHANGED <<next, stored, lost>>
           ELSE GiveUp(t)
  /\ UNCHANGED <<sink, buffer, sequence, ctx, closer, posted, clash>>
getSequenceToken(t) ==
  /\ flushing[t].at = "token"
  /\ \/ /\ ctx = "live" /\ next # 0 /\ UNCHANGED <<outages, lost, next, stored>>
        /\ flushing' = [flushing EXCEPT ![t].at = "resend", ![t].token = next]
     \/ ctx = "done" /\ GiveUp(t) /\ UNCHANGED outages
     \/ ctx = "live" /\ Outage /\ GiveUp(t)
  /\ UNCHANGED <<sink, buffer, sequence, ctx, closer, posted, clash>>
Record(t) ==
  /\ flushing[t].at = "record"
  /\ sequence' = flushing[t].token /\ flushing' = [flushing EXCEPT ![t] = Idle]
  /\ UNCHANGED <<sink, buffer, ctx, closer, next, stored, lost, posted, outages, clash>>

\* Loki's push, under a timeout of its own.
Push(t) ==
  /\ sink = "loki" /\ flushing[t].at = "send"
  /\ \/ Outage /\ GiveUp(t)
     \/ UNCHANGED outages /\ Stores(t, "idle")
  /\ UNCHANGED <<sink, buffer, sequence, ctx, closer, posted, clash>>

\* The ticker flushes until the context is done.
autoFlush ==
  /\ sink = "cloudwatch" /\ ctx = "live"
  /\ flushing["ticker"].at = "idle" /\ buffer["shared"] # <<>>
  /\ flushing' = [flushing EXCEPT !["ticker"].at = "take"]
  /\ UNCHANGED <<sink, buffer, sequence, ctx, closer, next, stored, lost, posted, outages, clash>>

\* Close: CloudWatch cancels the context and then flushes, Loki flushes its own buffer.
Close(cancels) ==
  /\ closer = "idle" /\ closer' = "closing"
  /\ ctx' = IF cancels THEN "done" ELSE ctx
  /\ flushing' = [flushing EXCEPT !["closer"].at = "take"]
  /\ UNCHANGED <<sink, buffer, sequence, next, stored, lost, posted, outages, clash>>
CloudWatchClose == sink = "cloudwatch" /\ Close(TRUE)
LokiClose == sink = "loki" /\ Close(FALSE)
Closed ==
  /\ closer = "closing" /\ flushing["closer"].at = "idle" /\ closer' = "closed"
  /\ UNCHANGED <<sink, buffer, sequence, ctx, flushing, next, stored, lost, posted, outages, clash>>

SinkNext ==
  \/ \E w \in Writers : CloudWatchPost(w) \/ LokiPost(w)
  \/ \E t \in Threads : Take(t) \/ PutLogEvents(t) \/ getSequenceToken(t) \/ Record(t) \/ Push(t)
  \/ autoFlush \/ CloudWatchClose \/ LokiClose \/ Closed

SinkSpec == SinkInit /\ [][SinkNext]_sinkVars

InFlight == UNION {Range(flushing[t].lines) : t \in {u \in Threads : flushing[u].at \in {"send", "token", "resend"}}}
Buffered == UNION {Range(buffer[b]) : b \in Buffers}

\* Every logged line is in exactly one place, buffered, being sent, stored once, or given
\* up; a full buffer is being flushed; and without an outage, overlapping flushes or a
\* Close nothing is given up (log/cloudwatch/cloudwatch.go:100-166, log/loki/loki.go:128-201).
LinesAreAccountedFor ==
  /\ Range(stored) \cup lost \cup InFlight \cup Buffered = 1..posted
  /\ IsInjective(stored)
  /\ Range(stored) \cap (lost \cup InFlight \cup Buffered) = {}
  /\ (lost \cup InFlight) \cap Buffered = {} /\ lost \cap InFlight = {}
  /\ \A b \in Buffers : buffer[b] # <<>> /\ Len(buffer[b]) >= BatchSize =>
       \E t \in Threads : flushing[t].at = "take"
  /\ lost # {} => outages > 0 \/ clash \/ ctx = "done"
=============================================================================
