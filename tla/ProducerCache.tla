--------------------------- MODULE ProducerCache ----------------------------
(***************************************************************************)
(* The publishing side of the drivers under broker/ that keep a producer   *)
(* (a connection with goroutines and buffers of its own) between calls of  *)
(* Publish: goroutines that publish to one topic, and Disconnect.  The     *)
(* lock is held while the cache is looked up or changed, never during a    *)
(* send.  Each driver's publish is the record of its decisions:            *)
(*   refusable   creating a producer can fail                              *)
(*   client      what it does when Disconnect has set the client to nil:   *)
(*               "none" (it needs no client), "checked" (before the cache  *)
(*               is locked) or "unchecked"                                 *)
(*   shared      it reads the cached pointer again at each use             *)
(*   again       a failed send on a producer just created is repeated once *)
(*   retries     sends through a replacement of a cached producer that     *)
(*               failed; 0 if it is not replaced                           *)
(*   discards    a replacement that fails too is closed                    *)
(*   stop        Disconnect's closing of a producer: "surely" succeeds, or *)
(*               "may fail", which ends Disconnect; v5 has closed done     *)
(*               before that, so that it panics when called again ("once") *)
(* kafka-go's Writer.Close and Pulsar's Producer.Close never fail.         *)
(***************************************************************************)
EXTENDS Naturals

CONSTANTS CachePublishers,   \* calls of Publish
          MaxSendFaults \* sends, creations and closings that fail on a good producer

Cached == [refusable |-> TRUE, client |-> "none", shared |-> FALSE,
           again |-> FALSE, retries |-> 0, discards |-> FALSE, stop |-> "surely"]

PulsarCached == [Cached EXCEPT !.client = "unchecked", !.retries = 1, !.discards = TRUE]
KafkaPublishMultipleWriter == [Cached EXCEPT !.refusable = FALSE, !.again = TRUE,
                                             !.retries = 1, !.discards = TRUE]
KafkaPublishOneWriter == [KafkaPublishMultipleWriter EXCEPT !.shared = TRUE]
RocketV2Cached == [Cached EXCEPT !.retries = 1, !.stop = "may fail"]
RocketV5Cached == [Cached EXCEPT !.stop = "once"]
GcpCached == [Cached EXCEPT !.refusable = FALSE, !.client = "checked"]

AllProducers == {PulsarCached, KafkaPublishMultipleWriter, KafkaPublishOneWriter,
                 RocketV2Cached, RocketV5Cached, GcpCached}

VARIABLES publishFn,    \* the driver's publish function
          cache,      \* producers[topic], 0 if absent
          made,       \* producers created
          openP,      \* producers not closed
          connectedP, \* Disconnect has not run
          ending,     \* of Disconnect: "no", "closing" (GCP's, before it drops the
                      \* client), "failed" (v5's) or "panic"
          publishing, \* each call of Publish
          sendFaults,
          misused     \* history: calls overlapped, or came after Disconnect

producerVars == <<publishFn, cache, made, openP, connectedP, ending,
                  publishing, sendFaults, misused>>

NewCall == [pc |-> "new", p |-> 0, cached |-> FALSE, sent |-> FALSE]

ProducerInit ==
    /\ publishFn \in AllProducers
    /\ cache = 0 /\ made = 0 /\ openP = {}
    /\ connectedP = TRUE /\ ending = "no"
    /\ publishing = [c \in CachePublishers |-> NewCall]
    /\ sendFaults = 0
    /\ misused = FALSE

Over == {"new", "ok", "error"}
UnderWay == {c \in CachePublishers : publishing[c].pc \notin Over}
Crashed == ending = "panic" \/ \E c \in CachePublishers : publishing[c].pc = "crashed"

Step(c, r) == publishing' = [publishing EXCEPT ![c] = r]
Answer(c, a) == Step(c, [publishing[c] EXCEPT !.pc = a])
ProducerFault == sendFaults < MaxSendFaults /\ sendFaults' = sendFaults + 1

(* The producer a statement of the call uses.                              *)
Held(c) == IF publishFn.shared THEN cache ELSE publishing[c].p

Begin(c) ==
    /\ ~Crashed /\ publishing[c].pc = "new"
    /\ misused' = (misused \/ UnderWay # {} \/ ~connectedP)
    /\ Answer(c, IF publishFn.client = "checked" /\ ~connectedP THEN "error" ELSE "lookup")
    /\ UNCHANGED <<publishFn, cache, made, openP, connectedP, ending, sendFaults>>

(* The first locked section: the cached producer, or a new one.            *)
Lookup(c) ==
    /\ ~Crashed /\ publishing[c].pc = "lookup"
    /\ \/ /\ cache # 0
          /\ Step(c, [publishing[c] EXCEPT !.pc = "send", !.p = cache, !.cached = TRUE])
          /\ UNCHANGED <<cache, made, openP, sendFaults>>
       \/ /\ publishFn.client = "unchecked" /\ ~connectedP /\ cache = 0
          /\ Answer(c, "crashed")
          /\ UNCHANGED <<cache, made, openP, sendFaults>>
       \/ /\ publishFn.client # "unchecked" \/ connectedP
          /\ cache = 0
          /\ made' = made + 1 /\ openP' = openP \cup {made + 1}
          /\ cache' = made + 1
          /\ Step(c, [publishing[c] EXCEPT !.pc = "send", !.p = made + 1])
          /\ UNCHANGED sendFaults
       \/ /\ publishFn.client # "unchecked" \/ connectedP
          /\ cache = 0 /\ publishFn.refusable /\ ProducerFault
          /\ Answer(c, "error")
          /\ UNCHANGED <<cache, made, openP>>
    /\ UNCHANGED <<publishFn, connectedP, ending, misused>>

(* The send outside the lock, and the switch on cached.                    *)
Sent(c) == Step(c, [publishing[c] EXCEPT !.pc = "ok", !.sent = TRUE])

SendFailed(c) ==
    IF publishing[c].pc = "again" THEN Answer(c, "error")
    ELSE IF publishing[c].cached
    THEN Answer(c, IF publishFn.retries > 0 THEN "replace" ELSE "error")
    ELSE \/ Answer(c, "error")
         \/ publishFn.again /\ Answer(c, "again")

SendCached(c) ==
    /\ ~Crashed /\ publishing[c].pc \in {"send", "again"}
    /\ \/ Held(c) = 0 /\ Answer(c, "crashed") /\ UNCHANGED sendFaults
       \/ Held(c) \in openP /\ Sent(c) /\ UNCHANGED sendFaults
       \/ Held(c) \in openP /\ ProducerFault /\ SendFailed(c)
       \/ Held(c) \notin openP \cup {0} /\ SendFailed(c) /\ UNCHANGED sendFaults
    /\ UNCHANGED <<publishFn, cache, made, openP, connectedP, ending, misused>>

(* The second locked section closes the producer and deletes the entry of  *)
(* the topic, whichever producer that holds by now.                        *)
Replace(c) ==
    /\ ~Crashed /\ publishing[c].pc = "replace"
    /\ IF Held(c) = 0
       THEN Answer(c, "crashed") /\ UNCHANGED <<cache, openP>>
       ELSE /\ openP' = openP \ {Held(c)}
            /\ cache' = 0
            /\ Answer(c, "create")
    /\ UNCHANGED <<publishFn, made, connectedP, ending, sendFaults, misused>>

Create(c) ==
    /\ ~Crashed /\ publishing[c].pc = "create"
    /\ \/ /\ publishFn.client # "none" /\ ~connectedP
          /\ Answer(c, "crashed")
          /\ UNCHANGED <<made, openP, sendFaults>>
       \/ /\ publishFn.client = "none" \/ connectedP
          /\ made' = made + 1 /\ openP' = openP \cup {made + 1}
          /\ Step(c, [publishing[c] EXCEPT !.pc = "retry", !.p = made + 1])
          /\ UNCHANGED sendFaults
       \/ /\ publishFn.refusable /\ ProducerFault
          /\ Answer(c, "error")
          /\ UNCHANGED <<made, openP>>
    /\ UNCHANGED <<publishFn, cache, connectedP, ending, misused>>

(* The send through the replacement; retriesCount is always 1.             *)
RetrySend(c) ==
    /\ ~Crashed /\ publishing[c].pc = "retry"
    /\ \/ /\ Step(c, [publishing[c] EXCEPT !.pc = "store", !.sent = TRUE])
          /\ UNCHANGED <<openP, sendFaults>>
       \/ /\ ProducerFault /\ Answer(c, "error")
          /\ openP' = IF publishFn.discards THEN openP \ {publishing[c].p} ELSE openP
    /\ UNCHANGED <<publishFn, cache, made, connectedP, ending, misused>>

(* The third locked section.                                               *)
Store(c) ==
    /\ ~Crashed /\ publishing[c].pc = "store"
    /\ cache' = publishing[c].p
    /\ Answer(c, "ok")
    /\ UNCHANGED <<publishFn, made, openP, connectedP, ending, sendFaults, misused>>

(* Disconnect closes the cached producers and empties the cache, whether   *)
(* or not it is connected in GCP's case; that drops the client in a second *)
(* section.                                                                *)
MayDisconnect == ~Crashed /\ ending = "no" /\ (publishFn.client = "checked" \/ connectedP)
MutantDisconnectProducers ==
    /\ MayDisconnect
    /\ openP' = openP /\ cache' = 0
    /\ connectedP' = (connectedP /\ publishFn.client = "checked")
    /\ ending' = IF publishFn.client = "checked" THEN "closing" ELSE "no"
    /\ misused' = (misused \/ UnderWay # {} \/ ~connectedP)
    /\ UNCHANGED <<publishFn, made, publishing, sendFaults>>
DisconnectProducers ==
    /\ MayDisconnect
    /\ openP' = openP \ {cache} /\ cache' = 0
    /\ connectedP' = (connectedP /\ publishFn.client = "checked")
    /\ ending' = IF publishFn.client = "checked" THEN "closing" ELSE "no"
    /\ misused' = (misused \/ UnderWay # {} \/ ~connectedP)
    /\ UNCHANGED <<publishFn, made, publishing, sendFaults>>

DisconnectClient ==
    /\ ~Crashed /\ ending = "closing"
    /\ connectedP' = FALSE /\ ending' = "no"
    /\ UNCHANGED <<publishFn, cache, made, openP, publishing, sendFaults, misused>>

(* Shutdown or GracefulStop fails: Disconnect returns, still connected.    *)
DisconnectFails ==
    /\ MayDisconnect /\ publishFn.stop # "surely" /\ cache # 0 /\ ProducerFault
    /\ openP' \in {openP, openP \ {cache}}
    /\ ending' = IF publishFn.stop = "once" THEN "failed" ELSE "no"
    /\ misused' = (misused \/ UnderWay # {})
    /\ UNCHANGED <<publishFn, cache, made, connectedP, publishing>>

DisconnectAgain ==
    /\ ~Crashed /\ ending = "failed" /\ ending' = "panic"
    /\ UNCHANGED <<publishFn, cache, made, openP, connectedP, publishing, sendFaults, misused>>

ProducerNext ==
    \/ \E c \in CachePublishers : \/ Begin(c) \/ Lookup(c) \/ SendCached(c) \/ Replace(c)
                                  \/ Create(c) \/ RetrySend(c) \/ Store(c)
    \/ DisconnectProducers \/ DisconnectClient \/ DisconnectFails \/ DisconnectAgain

ProducerSpec == ProducerInit /\ [][ProducerNext]_producerVars

-----------------------------------------------------------------------------
(* A publish that never replaces its producer keeps at most the cached one *)
(* open, whatever overlaps and even after Disconnect; one that closes a    *)
(* replacement that fails does so between calls, provided they neither     *)
(* overlap nor come after Disconnect; and none of these crashes ("If all   *)
(* retries failed, close the orphaned writer", kafka/kafka.go:462,         *)
(* pulsar/pulsar.go:284), but for RocketMQ v5's Disconnect when it is      *)
(* called again after it failed (rocketmq-clients/rocketmq.go:214).        *)
(* RocketMQ's v2 publish, which does not close a replacement that fails,   *)
(* is left out.                                                            *)
OneProducerPerTopic ==
    /\ publishFn.retries = 0 => openP \subseteq {cache} /\ (Crashed => ending = "panic")
    /\ publishFn.discards /\ ~misused =>
          ~Crashed /\ (UnderWay = {} => openP \subseteq {cache})
=============================================================================
