------------------------------ MODULE SfuRouter ------------------------------
(***************************************************************************)
(* The WebRTC server's forwarding unit: which session publishes which      *)
(* track, who is subscribed to it (SFURouter), to whom each track forwards *)
(* (MediaTrack), and the renegotiation that makes a new track known to the *)
(* other side, in which either side may be the one that offers.  One       *)
(* subscribing session is followed with its peer connection at both ends;  *)
(* the data channel that carries the signalling keeps the order of what is *)
(* handed to it, but a message may be given up on the way there.           *)
(*                                                                         *)
(* Definitions named Mutant... are faulty variants of the one after them.  *)
(***************************************************************************)
EXTENDS Naturals, Sequences, SequencesExt, FiniteSets

CONSTANTS Publishers, TrackIDs, MaxPublishes, MaxSubscribes, MaxUploads, MaxLosses

VARIABLES tracks,         \* publisher -> its tracks: track ID -> the MediaTrack
          media,          \* MediaTrack -> [closed, subscribed, id, replaced by another]
          subscriptions,  \* the subscriber's list of track IDs
          sub,            \* the SubscribeToPublisher call in progress
          present,        \* the subscribing session is in the session table
          raced,          \* an Unsubscribe ran inside the call, the session went, or an
                          \* ID of two publishers was dropped
          pc,             \* side -> its peer connection
          ready,          \* side -> the messages it has made and not yet sent
          wire,           \* side -> the signalling messages on their way to it
          text,           \* both ends were set up for text messages
          hurt,           \* the sides an offer of which went wrong, as told at Negotiated
          losses,         \* how often the connection or the channel failed
          subscribes, uploads

sfuVars == <<tracks, media, subscriptions, sub, present, raced, pc, ready, wire, text, hurt,
             losses, subscribes, uploads>>

Sides == {"server", "client"}
Other(side) == IF side = "server" THEN "client" ELSE "server"
NoSub == [at |-> "idle", from |-> "none", todo |-> {}, added |-> FALSE]

NewPeer == [signal |-> "stable", senders |-> {}, agreed |-> {}]

SfuInit ==
  /\ tracks = [p \in Publishers |-> << >>] /\ media = << >>
  /\ subscriptions = <<>> /\ sub = NoSub /\ present = TRUE /\ raced = FALSE
  /\ pc = [s \in Sides |-> NewPeer]
  /\ ready = [s \in Sides |-> <<>>] /\ wire = [s \in Sides |-> <<>>] /\ text \in BOOLEAN
  /\ hurt = {} /\ losses = 0 /\ subscribes = 0 /\ uploads = 0

RouterUnchanged == UNCHANGED <<tracks, media, subscriptions>>
SignalUnchanged == UNCHANGED <<pc, ready, wire, text, hurt, losses, uploads>>

Dropped(ids) == SelectSeq(subscriptions, LAMBDA t : t \notin ids)
CloseTrack(track) == [track EXCEPT !.closed = TRUE, !.subscribed = FALSE]
AddSubscriber(track) == IF track.closed THEN track ELSE [track EXCEPT !.subscribed = TRUE]
RemoveSubscriber(track) == [track EXCEPT !.subscribed = FALSE]
Shared(p, ids) == \E q \in Publishers \ {p} : ids \cap DOMAIN tracks[q] # {}

\* Bounds: failures and text messages are tried with one MediaTrack, and two calls that
\* negotiate, of either side, with more than that.
Plain == ~text /\ losses = 0
MoreSignals == subscribes + uploads < IF Plain /\ Len(media) <= 1 THEN MaxSubscribes + MaxUploads ELSE 2

-----------------------------------------------------------------------------
\* A new MediaTrack starts forwarding; one under the same ID is replaced, not closed.
AddTrack(p, t) ==
  /\ Len(media) < IF Plain THEN MaxPublishes ELSE 1
  /\ media' = Append([m \in DOMAIN media |->
                        IF t \in DOMAIN tracks[p] /\ m = tracks[p][t]
                        THEN [media[m] EXCEPT !.replaced = TRUE] ELSE media[m]],
                     [closed |-> FALSE, subscribed |-> FALSE, id |-> t, replaced |-> FALSE])
  /\ tracks' = [tracks EXCEPT ![p] = [u \in DOMAIN @ \cup {t} |->
                                        IF u = t THEN Len(media) + 1 ELSE @[u]]]
  /\ SignalUnchanged /\ UNCHANGED <<subscriptions, sub, present, raced, subscribes>>

\* Every subscription to that ID goes, whoever publishes it.
MutantRemoveTrack(p, t) ==
  /\ t \in DOMAIN tracks[p]
  /\ media' = [media EXCEPT ![tracks[p][t]] = CloseTrack(@)]
  /\ tracks' = [tracks EXCEPT ![p] = [u \in DOMAIN @ \ {t} |-> @[u]]]
  /\ SignalUnchanged /\ UNCHANGED <<subscriptions, sub, present, raced, subscribes>>
RemoveTrack(p, t) ==
  /\ t \in DOMAIN tracks[p]
  /\ media' = [media EXCEPT ![tracks[p][t]] = CloseTrack(@)]
  /\ tracks' = [tracks EXCEPT ![p] = [u \in DOMAIN @ \ {t} |-> @[u]]]
  /\ subscriptions' = Dropped({t}) /\ raced' = (raced \/ Shared(p, {t}))
  /\ SignalUnchanged /\ UNCHANGED <<sub, present, subscribes>>

\* The publishing session ends: all its tracks are closed, and what names them goes.
RemoveSessionTracks(p) ==
  /\ tracks[p] # << >>
  /\ media' = [m \in DOMAIN media |-> IF m \in Range(tracks[p]) THEN CloseTrack(media[m]) ELSE media[m]]
  /\ tracks' = [tracks EXCEPT ![p] = << >>]
  /\ subscriptions' = Dropped(DOMAIN tracks[p])
  /\ raced' = (raced \/ Shared(p, DOMAIN tracks[p]))
  /\ SignalUnchanged /\ UNCHANGED <<sub, present, subscribes>>
\* The subscribing session ends: its own list and its connection go; the publishers'
\* tracks keep it as a subscriber.
SubscriberGoes ==
  /\ present /\ present' = FALSE
  /\ subscriptions' = <<>> /\ raced' = TRUE
  /\ pc' = [s \in Sides |-> NewPeer] /\ hurt' = {}
  /\ ready' = [s \in Sides |-> <<>>] /\ wire' = [s \in Sides |-> <<>>]
  /\ UNCHANGED <<tracks, media, sub, text, losses, subscribes, uploads>>

\* The remote track ends: forwardRTP closes the MediaTrack, which stays in the table.
TrackEnds(m) ==
  /\ m \in DOMAIN media /\ ~media[m].closed
  /\ media' = [media EXCEPT ![m] = CloseTrack(@)]
  /\ SignalUnchanged /\ UNCHANGED <<tracks, subscriptions, sub, present, raced, subscribes>>

-----------------------------------------------------------------------------
\* SubscribeToPublisher: the session is looked up and the subscription recorded, then
\* every track gets a local track on the peer connection, then one offer is sent.
Subscribe(p) ==
  /\ sub.at = "idle" /\ subscribes < MaxSubscribes /\ MoreSignals /\ present
  /\ subscribes' = subscribes + 1
  /\ IF tracks[p] = << >>
     THEN UNCHANGED <<sub, subscriptions>>
     ELSE /\ sub' = [at |-> "create", from |-> p, added |-> FALSE,
                     todo |-> {<<t, tracks[p][t]>> : t \in DOMAIN tracks[p]}]
          /\ subscriptions' = subscriptions \o SetToSeq(DOMAIN tracks[p])
  /\ SignalUnchanged /\ UNCHANGED <<tracks, media, present, raced>>

\* AddSubscriber leaves a closed track alone; the sender is on the connection already.
CreateLocalTrackForSubscriber(ok) ==
  /\ sub.at = "create" /\ sub.todo # {}
  /\ \E x \in sub.todo :
       /\ sub' = [sub EXCEPT !.todo = @ \ {x}, !.added = @ \/ ok]
       /\ media' = IF ok THEN [media EXCEPT ![x[2]] = AddSubscriber(@)] ELSE media
       /\ pc' = IF ok /\ present THEN [pc EXCEPT !["server"].senders = @ \cup {x}] ELSE pc
  /\ UNCHANGED <<tracks, subscriptions, present, raced, ready, wire, text, hurt, losses,
                 subscribes, uploads>>

\* The lists and the tracks of that publisher are cleared of the subscriber.
Unsubscribe(p) ==
  /\ Range(subscriptions) \cap DOMAIN tracks[p] # {}
  /\ LET gone == Range(subscriptions) \cap DOMAIN tracks[p] IN
     /\ media' = [m \in DOMAIN media |->
                    IF m \in {tracks[p][t] : t \in gone} THEN RemoveSubscriber(media[m])
                    ELSE media[m]]
     /\ subscriptions' = Dropped(gone)
     /\ raced' = (raced \/ sub.at = "create" \/ Shared(p, gone))
  /\ SignalUnchanged /\ UNCHANGED <<tracks, sub, present, subscribes>>

-----------------------------------------------------------------------------
Fails == ~text /\ Len(media) <= 1 /\ losses < MaxLosses /\ losses' = losses + 1

\* An offer carries all the senders of that side, once CreateOffer and SetLocalDescription
\* have succeeded: they need not, least of all while an offer is open.
Offer(side, senders) ==
  \/ /\ pc[side].signal # "remote"
     /\ pc' = [pc EXCEPT ![side].senders = senders, ![side].signal = "offered"]
     /\ ready' = [ready EXCEPT ![side] = Append(@, [type |-> "offer", of |-> senders])]
     /\ hurt' = IF pc[side].signal = "offered" THEN hurt \cup {side} ELSE hurt
     /\ UNCHANGED losses
  \/ /\ IF pc[side].signal = "stable" THEN Fails ELSE UNCHANGED losses
     /\ pc' = [pc EXCEPT ![side].senders = senders]
     /\ hurt' = hurt \cup {side} /\ UNCHANGED ready

sendRenegotiation ==
  IF present THEN Offer("server", pc["server"].senders) ELSE UNCHANGED <<pc, ready, hurt, losses>>
SubscribeEnds ==
  /\ sub.at = "create" /\ sub.todo = {} /\ sub' = NoSub
  /\ IF sub.added THEN sendRenegotiation ELSE UNCHANGED <<pc, ready, hurt, losses>>
  /\ RouterUnchanged /\ UNCHANGED <<present, raced, wire, text, subscribes, uploads>>

\* The client adds a track of its own and offers it.
negotiate(senders) == Offer("client", senders)
AddLocalTrack ==
  /\ present /\ uploads < MaxUploads /\ MoreSignals /\ uploads' = uploads + 1
  /\ negotiate(pc["client"].senders \cup {<<"upload", uploads + 1>>})
  /\ RouterUnchanged /\ UNCHANGED <<sub, present, raced, wire, text, subscribes>>

\* After the wait for the ICE candidates the message is sent, or given up: the client's
\* offer when the wait is too long, any message when it cannot be encoded or the send
\* buffer stays full.  Whose offer is lost with it:
OfferedBy(side, msg) == IF msg.type = "offer" THEN side ELSE Other(side)
SendMessage(side) ==
  \E i \in DOMAIN ready[side] :
    LET msg == ready[side][i] IN
    /\ ready' = [ready EXCEPT ![side] = RemoveAt(@, i)]
    /\ \/ /\ wire' = [wire EXCEPT ![Other(side)] = Append(@, msg)]
          /\ UNCHANGED <<hurt, losses>>
       \/ Fails /\ hurt' = hurt \cup {OfferedBy(side, msg)} /\ UNCHANGED wire
    /\ RouterUnchanged /\ UNCHANGED <<sub, present, raced, pc, text, subscribes, uploads>>

\* The server packs its messages the binary way, which a client set up for text cannot
\* read.
Readable(side) == side = "client" => ~text

\* Both sides' handleSignalRenegotiation, one message after the other: an answer closes
\* the open offer; an offer is answered unless an own offer is open (SetRemoteDescription
\* refuses it then, and nothing is sent back) or a call on the connection fails.
Settled(side, msg) ==
  IF pc[side].signal = "offered"
  THEN [pc EXCEPT ![side].signal = "stable", ![side].agreed = msg.of] ELSE pc
Receive(side, settled) ==
  /\ wire[side] # <<>> /\ \A i \in DOMAIN ready[side] : ready[side][i].type = "offer"
  /\ wire' = [wire EXCEPT ![side] = Tail(@)]
  /\ LET msg == Head(wire[side])
         Refused == hurt' = hurt \cup {OfferedBy(Other(side), msg)} /\ UNCHANGED ready
     IN \/ ~Readable(side) /\ Refused /\ UNCHANGED <<pc, losses>>
        \/ /\ Readable(side) /\ msg.type = "answer"
           /\ pc' = settled /\ UNCHANGED <<ready, hurt, losses>>
        \/ /\ Readable(side) /\ msg.type = "offer" /\ pc[side].signal # "stable"
           /\ Refused /\ UNCHANGED <<pc, losses>>
        \/ /\ Readable(side) /\ msg.type = "offer" /\ pc[side].signal = "stable"
           /\ \/ /\ ready' = [ready EXCEPT ![side] = Append(@, [type |-> "answer", of |-> msg.of])]
                 /\ UNCHANGED <<pc, hurt, losses>>
              \/ /\ Fails /\ Refused
                 /\ \E signal \in {"stable", "remote"} : pc' = [pc EXCEPT ![side].signal = signal]
  /\ RouterUnchanged /\ UNCHANGED <<sub, present, raced, text, subscribes, uploads>>
MutantHandleRenegotiation == wire["server"] # <<>> /\ Receive("server", pc)
handleSignalRenegotiation ==
  wire["server"] # <<>> /\ Receive("server", Settled("server", Head(wire["server"])))
clientHandleSignalRenegotiation ==
  wire["client"] # <<>> /\ Receive("client", Settled("client", Head(wire["client"])))

SfuNext ==
  \/ \E p \in Publishers :
       \/ \E t \in TrackIDs : AddTrack(p, t) \/ RemoveTrack(p, t)
       \/ RemoveSessionTracks(p) \/ Subscribe(p) \/ Unsubscribe(p)
  \/ \E m \in DOMAIN media : TrackEnds(m)
  \/ \E ok \in BOOLEAN : CreateLocalTrackForSubscriber(ok)
  \/ SubscriberGoes \/ SubscribeEnds \/ AddLocalTrack \/ \E s \in Sides : SendMessage(s)
  \/ handleSignalRenegotiation \/ clientHandleSignalRenegotiation

\* A started call goes on, and the channel delivers what it was given.
SfuFairness ==
  /\ WF_sfuVars(\E ok \in BOOLEAN : CreateLocalTrackForSubscriber(ok))
  /\ WF_sfuVars(SubscribeEnds) /\ \A s \in Sides : WF_sfuVars(SendMessage(s))
  /\ WF_sfuVars(handleSignalRenegotiation) /\ WF_sfuVars(clientHandleSignalRenegotiation)

SfuSpec == SfuInit /\ [][SfuNext]_sfuVars /\ SfuFairness

TypeOK ==
  /\ \A p \in Publishers : DOMAIN tracks[p] \subseteq TrackIDs
  /\ \A p \in Publishers : Range(tracks[p]) \subseteq DOMAIN media
  /\ subscriptions \in Seq(TrackIDs)
  /\ \A s \in Sides : pc[s].signal \in {"stable", "offered", "remote"}

Forwarding == {m \in DOMAIN media : media[m].subscribed}

\* The subscription list names only tracks somebody publishes, a closed track forwards to
\* nobody, and what a track forwards to the subscriber is on the subscriber's list, unless
\* the session went or unsubscribed while the subscription was being set up, or an ID of
\* two publishers was dropped with one of them.  A track whose ID is published anew goes on
\* forwarding, out of the router's reach, until its remote track ends (sfu_router.go:35)
\* (transport/webrtc/sfu_router.go:46-172, media_track.go:59-68, 130-144).
ForwardsToSubscribers ==
  /\ Range(subscriptions) \subseteq UNION {DOMAIN tracks[p] : p \in Publishers}
  /\ \A m \in DOMAIN media : media[m].closed => ~media[m].subscribed
  /\ ~raced => \A m \in Forwarding : media[m].replaced \/ media[m].id \in Range(subscriptions)

\* A side comes to rest with all its tracks agreed on and no offer open, whatever the other
\* side does meanwhile, unless one of its offers went wrong: the connection failed or
\* refused to make it, it was made while an earlier one was open, it or its answer was
\* given up or could not be read, or the other side had an offer of its own open or failed
\* to answer (transport/webrtc/server.go:769-873, client.go:458-544, session.go:133-142).
\* Such an offer stays open: neither side rolls one back or repeats it.
Negotiated ==
  present => \A s \in Sides \ hurt : pc[s].signal # "offered" /\ pc[s].senders = pc[s].agreed
TracksAreNegotiated == <>[]Negotiated
=============================================================================
