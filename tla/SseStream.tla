----------------------------- MODULE SseStream ------------------------------
(***************************************************************************)
(* transport/sse: one stream ID, the stream objects that come and go under *)
(* it, each with its run loop, the HTTP handlers of the subscribers with   *)
(* the goroutine that waits for their end, and a publisher.                *)
(* Definitions named Mutant... are faulty variants of the one after them.  *)
(***************************************************************************)
EXTENDS Naturals, Sequences, FiniteSets, SequencesExt

CONSTANTS Clients,
          MaxStreams,                       \* bounds: streams under the ID,
          MaxEvents, MaxAutoEvents,         \* and events, with streams made on demand
          BufferSize, ConnectionSize,       \* of the channels
          maxEventLogSize

VARIABLES autoStream, autoReplay,
          eventTTL,         \* an event may be too old when its handler gets to it (tried with
                            \* streams made before only, which it has nothing to do with)
          current,          \* StreamManager.streams: the stream under the ID, 0 for none
          made,             \* streams created so far
          stream,           \* stream -> its loop, its queue, its subscribers
          client,           \* subscriber -> its handler
          closer,           \* subscriber -> the goroutine that waits for its end
          publisher,        \* the stream a Publish has looked up, 0 for none
          published,
          unsubscribed,     \* subscriber -> calls of onUnsubscribe
          received,         \* subscriber -> events its handler has written, while it serves
          abandoned         \* a handler has left its connection unread

sseVars == <<autoStream, autoReplay, eventTTL, current, made, stream, client, closer, publisher, published, unsubscribed,
             received, abandoned>>
mode == <<autoStream, autoReplay, eventTTL>>

Streams == 1 .. MaxStreams
Sentinel == 0               \* the empty event that ends a connection
Fresh == [loop |-> "none", closed |-> FALSE, queue |-> <<>>, subs |-> {}, count |-> 0, sending |-> <<>>,
          log |-> <<>>, last |-> 0]

SseInit ==
    /\ autoStream \in BOOLEAN /\ autoReplay \in BOOLEAN 
    /\ eventTTL \in IF autoStream THEN {FALSE} ELSE BOOLEAN
    /\ \E c \in IF autoStream THEN {0} ELSE {1} :     \* CreateStream called before
          /\ current = c /\ made = c
          /\ stream = [s \in Streams |-> IF s <= c THEN [Fresh EXCEPT !.loop = "run"] ELSE Fresh]
    /\ client = [c \in Clients |-> [pc |-> "idle", s |-> 0, last |-> 0, from |-> 0, buffer |-> <<>>, open |-> FALSE]]
    /\ closer = [c \in Clients |-> "none"]
    /\ publisher = 0 /\ published = 0
    /\ unsubscribed = [c \in Clients |-> 0]
    /\ received = [c \in Clients |-> <<>>]
    /\ abandoned = FALSE

-----------------------------------------------------------------------------
(* ServeHTTP: look the stream up, or create it.                            *)
At(c, pc) == client[c].pc = pc
ServeHTTP(c) ==
    /\ At(c, "idle")
    /\ \E id \in IF current = 0 \/ ~autoReplay THEN {0} ELSE 0 .. stream[current].last :     \* Last-Event-ID
         client' = [client EXCEPT ![c].pc = IF current # 0 THEN "count" ELSE IF autoStream THEN "create" ELSE "done",
                                  ![c].s = current, ![c].last = id]
    /\ UNCHANGED <<mode, current, made, stream, closer, publisher, published, unsubscribed, received, abandoned>>
CreateStream(c) ==
    /\ At(c, "create")
    /\ IF current # 0
       THEN client' = [client EXCEPT ![c].pc = "count", ![c].s = current] /\ UNCHANGED <<made, stream>>
       ELSE /\ made < MaxStreams
            /\ made' = made + 1
            /\ stream' = [stream EXCEPT ![made + 1].loop = "run"]
            /\ client' = [client EXCEPT ![c].pc = "add", ![c].s = made + 1]
    /\ UNCHANGED <<mode, current, closer, publisher, published, unsubscribed, received, abandoned>>
Add(c) ==
    /\ At(c, "add")
    /\ current' = IF current = 0 THEN client[c].s ELSE current
    /\ client' = [client EXCEPT ![c].pc = "count"]
    /\ UNCHANGED <<mode, made, stream, closer, publisher, published, unsubscribed, received, abandoned>>

(* addSubscriber: counted first, then handed to the loop, which may be     *)
(* gone for good.                                                          *)
addSubscriber(c) ==
    /\ At(c, "count")
    /\ stream' = [stream EXCEPT ![client[c].s].count = @ + 1]
    /\ client' = [client EXCEPT ![c].pc = "register"]
    /\ UNCHANGED <<mode, current, made, closer, publisher, published, unsubscribed, received, abandoned>>
Ready(s) == stream[s].loop = "run" /\ stream[s].sending = <<>>

(* EventLog: the last maxEventLogSize events; a subscriber is sent those   *)
(* after its Last-Event-ID.  from is the first event it may expect: the    *)
(* oldest one after its own that the log should hold, or the next one.     *)
MutantEventLogAdd(log, e) == SubSeq(Append(log, e), 1, maxEventLogSize)
EventLogAdd(log, e) == LET all == Append(log, e) IN
    IF Len(all) > maxEventLogSize THEN SubSeq(all, Len(all) - maxEventLogSize + 1, Len(all)) ELSE all
MutantReplay(s, c) == SelectSeq(stream[s].log, LAMBDA e : e >= client[c].last)
Replay(s, c) == SelectSeq(stream[s].log, LAMBDA e : e > client[c].last)
Oldest(s) == IF stream[s].last > maxEventLogSize THEN stream[s].last - maxEventLogSize + 1 ELSE 1
From(s, c) == IF ~autoReplay THEN stream[s].last + 1
              ELSE IF client[c].last < Oldest(s) THEN Oldest(s) ELSE client[c].last + 1

Register(c) ==
    LET s == client[c].s IN
    /\ At(c, "register") /\ Ready(s)
    /\ stream' = [stream EXCEPT
                     ![s].subs = @ \cup {c},
                     ![s].sending = IF autoReplay THEN [i \in DOMAIN Replay(s, c) |-> <<c, Replay(s, c)[i]>>] ELSE <<>>]
    /\ client' = [client EXCEPT ![c].pc = "serving", ![c].open = TRUE, ![c].from = From(s, c)]
    /\ closer' = [closer EXCEPT ![c] = "waiting"]
    /\ UNCHANGED <<mode, current, made, publisher, published, unsubscribed, received, abandoned>>

(* The handler writes what comes through the connection until it is closed *)
(* or the empty event comes, and skips an event older than eventTTL (any   *)
(* may be: the time it spends on the way has no bound).                    *)
Leave(c, rest) ==
    /\ client' = [client EXCEPT ![c].buffer = rest, ![c].pc = "done", ![c].last = 0, ![c].from = 0]
    /\ received' = [received EXCEPT ![c] = <<>>]
    /\ closer' = IF closer[c] = "waiting" THEN [closer EXCEPT ![c] = "closing"] ELSE closer
Serve(c) ==
    LET b == client[c].buffer IN
    /\ At(c, "serving")
    /\ \/ /\ b # <<>> /\ Head(b) = Sentinel
          /\ Leave(c, Tail(b))
          /\ abandoned' = (abandoned \/ client[c].open)
       \/ /\ b # <<>> /\ Head(b) # Sentinel
          /\ client' = [client EXCEPT ![c].buffer = Tail(@)]
          /\ \E expired \in IF eventTTL THEN BOOLEAN ELSE {FALSE} :
                received' = IF expired THEN received ELSE [received EXCEPT ![c] = Append(@, Head(b))]
          /\ UNCHANGED <<closer, abandoned>>
       \/ /\ b = <<>> /\ ~client[c].open
          /\ Leave(c, <<>>)
          /\ UNCHANGED abandoned
    /\ UNCHANGED <<mode, current, made, stream, publisher, published, unsubscribed>>

(* The request's context ends: the closer tries to deregister, twenty      *)
(* times, and gives up when the loop is busy or gone.                      *)
Disconnect(c) ==
    /\ closer[c] = "waiting" /\ At(c, "serving")
    /\ closer' = [closer EXCEPT ![c] = "closing"]
    /\ UNCHANGED <<mode, current, made, stream, client, publisher, published, unsubscribed, received, abandoned>>
MutantDeregister(c) ==
    LET s == client[c].s IN
    /\ closer[c] = "closing"
    /\ \/ /\ Ready(s)
          /\ stream' = [stream EXCEPT ![s].count = IF c \in stream[s].subs THEN @ - 1 ELSE @]
          /\ client' = [client EXCEPT ![c].open = FALSE]
          /\ unsubscribed' = [unsubscribed EXCEPT ![c] = @ + 1]
       \/ ~Ready(s) /\ UNCHANGED <<stream, client, unsubscribed>>
    /\ closer' = [closer EXCEPT ![c] = "check"]
    /\ UNCHANGED <<mode, current, made, publisher, published, received, abandoned>>
Deregister(c) ==
    LET s == client[c].s IN
    /\ closer[c] = "closing"
    /\ \/ /\ Ready(s)
          /\ stream' = [stream EXCEPT ![s].subs = @ \ {c},
                                      ![s].count = IF c \in stream[s].subs THEN @ - 1 ELSE @]
          /\ client' = [client EXCEPT ![c].open = FALSE]
          /\ unsubscribed' = [unsubscribed EXCEPT ![c] = @ + 1]
       \/ ~Ready(s) /\ UNCHANGED <<stream, client, unsubscribed>>
    /\ closer' = [closer EXCEPT ![c] = "check"]
    /\ UNCHANGED <<mode, current, made, publisher, published, received, abandoned>>
CheckEmpty(c) ==
    /\ closer[c] = "check"
    /\ closer' = [closer EXCEPT ![c] = IF autoStream /\ ~autoReplay /\ stream[client[c].s].count = 0
                                       THEN "remove" ELSE "done"]
    /\ UNCHANGED <<mode, current, made, stream, client, publisher, published, unsubscribed, received, abandoned>>

(* RemoveWithID closes whatever stream is under the ID by now.             *)
Close == /\ stream' = IF current = 0 THEN stream ELSE [stream EXCEPT ![current].closed = TRUE]
         /\ current' = 0
RemoveWithID(c) ==
    /\ closer[c] = "remove"
    /\ Close
    /\ closer' = [closer EXCEPT ![c] = "done"]
    /\ UNCHANGED <<mode, made, client, publisher, published, unsubscribed, received, abandoned>>
Clean ==                        \* Stop, or RemoveStream
    /\ current # 0 /\ Close
    /\ UNCHANGED <<mode, made, client, closer, publisher, published, unsubscribed, received, abandoned>>

-----------------------------------------------------------------------------
(* Publish looks the stream up, then waits for room or for its end;        *)
(* TryPublish does not wait.                                               *)
Publish ==
    /\ publisher = 0 /\ published < (IF autoStream THEN MaxAutoEvents ELSE MaxEvents) /\ current # 0
    /\ publisher' = current
    /\ UNCHANGED <<mode, current, made, stream, client, closer, published, unsubscribed, received, abandoned>>
Enqueue ==
    /\ publisher # 0
    /\ \/ /\ Len(stream[publisher].queue) < BufferSize
          /\ \E e \in {"event", "end"} : stream' = [stream EXCEPT ![publisher].queue = Append(@, e)]
       \/ /\ stream[publisher].closed \/ Len(stream[publisher].queue) = BufferSize
          /\ UNCHANGED stream
    /\ published' = published + 1
    /\ publisher' = 0
    /\ UNCHANGED <<mode, current, made, client, closer, unsubscribed, received, abandoned>>

(* The loop: an event goes to the log, under a new number, and to every    *)
(* subscriber in turn; a full connection holds everybody up.               *)
Dispatch(s) ==
    /\ Ready(s) /\ stream[s].queue # <<>>
    /\ LET e == IF Head(stream[s].queue) = "end" THEN Sentinel ELSE stream[s].last + 1 IN
       stream' = [stream EXCEPT ![s].queue = Tail(@),
                                ![s].last = IF e = Sentinel THEN @ ELSE e,
                                ![s].log = IF autoReplay /\ e # Sentinel THEN EventLogAdd(@, e) ELSE @,
                                ![s].sending = SetToSeq({<<c, e>> : c \in stream[s].subs})]
    /\ UNCHANGED <<mode, current, made, client, closer, publisher, published, unsubscribed, received, abandoned>>
Send(s) ==
    /\ stream[s].loop = "run" /\ stream[s].sending # <<>>
    /\ LET c == Head(stream[s].sending)[1] IN
       /\ Len(client[c].buffer) < ConnectionSize
       /\ client' = [client EXCEPT ![c].buffer = Append(@, Head(stream[s].sending)[2])]
    /\ stream' = [stream EXCEPT ![s].sending = Tail(@)]
    /\ UNCHANGED <<mode, current, made, closer, publisher, published, unsubscribed, received, abandoned>>
MutantRemoveAll(s) ==
    /\ Ready(s) /\ stream[s].closed
    /\ unsubscribed' = [c \in Clients |-> unsubscribed[c] + (IF c \in stream[s].subs THEN 1 ELSE 0)]
    /\ stream' = [stream EXCEPT ![s].loop = "over", ![s].subs = {}, ![s].count = 0]
    /\ UNCHANGED <<mode, current, made, client, closer, publisher, published, received, abandoned>>
removeAllSubscribers(s) ==
    /\ Ready(s) /\ stream[s].closed
    /\ client' = [c \in Clients |-> IF c \in stream[s].subs THEN [client[c] EXCEPT !.open = FALSE] ELSE client[c]]
    /\ unsubscribed' = [c \in Clients |-> unsubscribed[c] + (IF c \in stream[s].subs THEN 1 ELSE 0)]
    /\ stream' = [stream EXCEPT ![s].loop = "over", ![s].subs = {}, ![s].count = 0]
    /\ UNCHANGED <<mode, current, made, closer, publisher, published, received, abandoned>>

Handler(c) == CreateStream(c) \/ Add(c) \/ addSubscriber(c) \/ Register(c) \/ Serve(c)
Closer(c) == Deregister(c) \/ CheckEmpty(c) \/ RemoveWithID(c)
Loop(s) == Dispatch(s) \/ Send(s) \/ removeAllSubscribers(s)
SseNext ==
    \/ \E c \in Clients : ServeHTTP(c) \/ Disconnect(c) \/ Handler(c) \/ Closer(c)
    \/ \E s \in Streams : Loop(s)
    \/ Publish \/ Enqueue \/ Clean

(* Handlers, closers and loops are goroutines and go on when they can; the *)
(* loop's select takes the closed quit channel sooner or later.            *)
SseFairness ==
    /\ \A c \in Clients : WF_sseVars(Handler(c)) /\ WF_sseVars(Closer(c))
    /\ \A s \in Streams : WF_sseVars(Loop(s)) /\ SF_sseVars(removeAllSubscribers(s))
SseSpec == SseInit /\ [][SseNext]_sseVars /\ SseFairness

-----------------------------------------------------------------------------
(* onUnsubscribe is called once for every subscriber, when it leaves or    *)
(* when the stream is closed, never for both (stream.go:172-174), and      *)
(* every handler writes its events in order and without a repetition,      *)
(* beginning with the first one it may expect, replayed ones included; and *)
(* without a gap but for the events that expired on the way (run 61-102,   *)
(* EventLog.Add and Replay event_log.go:17-44, http.go:113-115).           *)
OnceAndInOrder ==
    \A c \in Clients :
        /\ unsubscribed[c] <= (IF client[c].open THEN 0 ELSE 1)
        /\ \A i \in 1 .. Len(received[c]) :
              IF eventTTL THEN received[c][i] > (IF i = 1 THEN client[c].from - 1 ELSE received[c][i - 1])
              ELSE received[c][i] = client[c].from + i - 1

(* A handler whose subscriber has been deregistered, or whose stream has   *)
(* been closed, drains its connection and ends, unless a loop hangs on a   *)
(* connection that another handler left at the empty event (Subscriber.    *)
(* close subscriber.go:21-38, ServeHTTP http.go:95-110, stream.go:92-98).  *)
HandlersEnded ==
    \A c \in Clients :
        At(c, "serving") /\ (~client[c].open \/ stream[client[c].s].closed) => abandoned
HandlersEnd == <>[]HandlersEnded
=============================================================================
