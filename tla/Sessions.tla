------------------------------ MODULE Sessions ------------------------------
(***************************************************************************)
(* The session servers of transport/: tcp, kcp, websocket, webrtc and      *)
(* webtransport.  An accepted connection becomes a session that is put in  *)
(* the table, announced to the connect handler and given its pumps; it is  *)
(* closed (once) by a pump, a callback of the connection or a shutdown,    *)
(* and then leaves the table and is announced again.  A shutdown (Stop, or *)
(* the end of Start's context) runs beside all of that.                    *)
(*                                                                         *)
(* The second part is the clients of these servers.                        *)
(* Definitions named Mutant... are faulty variants of the one after them.  *)
(***************************************************************************)
EXTENDS Naturals, FiniteSets, Sequences

CONSTANTS Sessions,         \* the connections that arrive
          channelBufSize    \* capacity of Session.send

VARIABLES srv,              \* the server, one of AllSessionServers
          running, listening,
          setup,            \* how far the set-up of each session is
          up,               \* is its connection up?
          closing,          \* how far Session.Close is; 0 while the session is open
          table,            \* the session manager's table
          told,             \* calls of the connect handler, per session
          pumps,            \* the running pumps of each session
          buffer,           \* messages in Session.send
          at, todo,         \* per shutdown: step of its plan, sessions to close
          listed,           \* sessions in the table when the first shutdown began
          crashed           \* a nil dereference ended the process

sessionVars == <<srv, running, listening, setup, up, closing, table, told, pumps, buffer,
                 at, todo, listed, crashed>>

-----------------------------------------------------------------------------
(* What tells the servers apart, each as the steps its functions take:     *)
(* setting a session up, closing it, its pumps, and the two shutdowns      *)
(* (Stop, and Start when its context ends).                                *)
TcpOnSessionAdded == "announce"
TcpOnSessionRemoved == "tell"
TcpAddSession == <<"store", TcpOnSessionAdded>>
TcpListen == "listen"
TcpDoAccept == TcpAddSession \o <<TcpListen>>
TcpRemoveSession == <<"delete", TcpOnSessionRemoved>>
TcpReadPump == "reader"
TcpWritePump == "writer"
TcpRangeSessions == <<"snapshot", "close">>
TcpStart == <<"listener">> \o TcpRangeSessions
TcpStop == <<"listener">> \o TcpRangeSessions

KcpOnSessionAdded == "announce"
KcpOnSessionRemoved == "tell"
KcpAddSession == <<"store", KcpOnSessionAdded>>
KcpListen == "listen"
KcpDoAccept == KcpAddSession \o <<KcpListen>>
KcpRemoveSession == <<"delete", KcpOnSessionRemoved>>
KcpReadPump == "reader"
KcpWritePump == "writer"
KcpRangeSessions == <<"snapshot", "close">>
KcpCloseAllSessions == KcpRangeSessions
KcpStart == <<"listener">> \o KcpCloseAllSessions
KcpStop == <<"listener">> \o KcpCloseAllSessions

WebsocketOnSessionAdded == "announce"
WebsocketOnSessionRemoved == "tell"
WebsocketAddSession == <<"store", WebsocketOnSessionAdded>>
WebsocketListen == "listen"
WsHandler == WebsocketAddSession \o <<WebsocketListen>>
WebsocketRemoveSession == <<"delete", WebsocketOnSessionRemoved>>
WebsocketReadPump == "reader"
WebsocketWritePump == "writer"
MutantWebsocketClean == <<"clear">>
WebsocketClean == <<"snapshot", "close", "clear">>
WebsocketStart == WebsocketClean \o <<"listener">>
WebsocketStop == WebsocketClean \o <<"listener">>

WebrtcOnSessionAdded == "announce"
WebrtcOnSessionRemoved == "tell"
WebrtcAddSession == <<"check", "store", WebrtcOnSessionAdded>>
WebrtcListen == "listen"
SignalHandler == WebrtcAddSession \o <<WebrtcListen>>
WebrtcRemoveSession == <<"loadAndDelete", WebrtcOnSessionRemoved>>
WebrtcWritePump == "writer"
CloseAllAndWait == <<"snapshot", "close", "snapshot", "wait">>
WebrtcStop == <<"listener">> \o CloseAllAndWait

WebtransportAddHandler == <<"store", "announce", "listen">>
WebtransportDone == <<"delete", "tell">>
ServeSession == "reader"
WebtransportStop == <<"listener", "cut", "refs">>

Server(name, setups, closes, ps, stop, ctx) ==
    [name |-> name, setup |-> setups, close |-> closes, pumps |-> ps,
     plan |-> [Stop |-> stop, ctx |-> ctx]]
Tcp == Server("tcp", TcpDoAccept, TcpRemoveSession, {TcpReadPump, TcpWritePump}, TcpStop, TcpStart)
Kcp == Server("kcp", KcpDoAccept, KcpRemoveSession, {KcpReadPump, KcpWritePump}, KcpStop, KcpStart)
Websocket == Server("websocket", WsHandler, WebsocketRemoveSession,
                    {WebsocketReadPump, WebsocketWritePump}, WebsocketStop, WebsocketStart)
Webrtc == Server("webrtc", SignalHandler, WebrtcRemoveSession, {WebrtcWritePump}, WebrtcStop, <<>>)
Webtransport == Server("webtransport", WebtransportAddHandler, WebtransportDone, {ServeSession},
                       WebtransportStop, <<>>)
AllSessionServers == {Tcp, Kcp, Websocket, Webrtc, Webtransport}

Stoppers == {"Stop", "ctx"}
Serial == srv.name \in {"tcp", "kcp"}
Buffered == "writer" \in srv.pumps

(* A session is set up from 1 on, ready past the end; it is closing from 1 *)
(* on, closed past the end.                                                *)
Ready(s) == setup[s] > Len(srv.setup)
Open(s) == closing[s] = 0
Closed(s) == closing[s] > Len(srv.close)
SetUp(s, step) == /\ setup[s] \in DOMAIN srv.setup
                  /\ srv.setup[setup[s]] = step
Next(f, s) == [f EXCEPT ![s] = @ + 1]
Closes(s, step) == /\ closing[s] \in DOMAIN srv.close
                   /\ srv.close[closing[s]] = step

SessionInit ==
    /\ srv \in AllSessionServers
    /\ running = FALSE /\ listening = FALSE
    /\ setup = [s \in Sessions |-> 0]
    /\ up = [s \in Sessions |-> FALSE]
    /\ closing = [s \in Sessions |-> 0]
    /\ table = {}
    /\ told = [s \in Sessions |-> <<>>]
    /\ pumps = [s \in Sessions |-> {}]
    /\ buffer = [s \in Sessions |-> 0]
    /\ at = [k \in Stoppers |-> 0]
    /\ todo = [k \in Stoppers |-> {}]
    /\ listed = [k \in Stoppers |-> {}]
    /\ crashed = FALSE

Start ==
    /\ ~running /\ \A k \in Stoppers : at[k] = 0
    /\ running' = TRUE /\ listening' = TRUE
    /\ UNCHANGED <<srv, setup, up, closing, table, told, pumps, buffer, at, todo, listed, crashed>>

-----------------------------------------------------------------------------
(* Setting a session up.                                                   *)
Accept(s) ==
    /\ listening /\ setup[s] = 0
    /\ Serial => \A t \in Sessions : setup[t] = 0 \/ Ready(t)
    /\ setup' = Next(setup, s)
    /\ up' = [up EXCEPT ![s] = TRUE]
    /\ UNCHANGED <<srv, running, listening, closing, table, told, pumps, buffer, at, todo, listed, crashed>>

(* addSession of webrtc skips a session that is closed already.            *)
CheckClosed(s) ==
    /\ SetUp(s, "check")
    /\ setup' = [setup EXCEPT ![s] = IF Open(s) THEN @ + 1 ELSE Len(srv.setup)]
    /\ UNCHANGED <<srv, running, listening, up, closing, table, told, pumps, buffer, at, todo, listed, crashed>>

AddSession(s) ==
    /\ SetUp(s, "store")
    /\ setup' = Next(setup, s)
    /\ table' = table \cup {s}
    /\ UNCHANGED <<srv, running, listening, up, closing, told, pumps, buffer, at, todo, listed, crashed>>

OnSessionAdded(s) ==
    /\ SetUp(s, "announce")
    /\ setup' = Next(setup, s)
    /\ told' = [told EXCEPT ![s] = Append(@, TRUE)]
    /\ UNCHANGED <<srv, running, listening, up, closing, table, pumps, buffer, at, todo, listed, crashed>>

(* The pumps start.  websocket's reader uses the connection before it      *)
(* looks whether it is still there (with a read timeout configured).       *)
Listen(s) ==
    /\ SetUp(s, "listen")
    /\ setup' = Next(setup, s)
    /\ pumps' = [pumps EXCEPT ![s] = srv.pumps]
    /\ \/ UNCHANGED crashed
       \/ srv.name = "websocket" /\ ~Open(s) /\ crashed' = TRUE
    /\ UNCHANGED <<srv, running, listening, up, closing, table, told, buffer, at, todo, listed>>

-----------------------------------------------------------------------------
(* Session.Close: the first caller runs the steps, the others wait.        *)
BeginClose(s) == /\ closing' = Next(closing, s)
                 /\ up' = [up EXCEPT ![s] = FALSE]

MutantRemoveSession(s) ==
    /\ Closes(s, "delete") \/ Closes(s, "loadAndDelete")
    /\ closing' = Next(closing, s)
    /\ UNCHANGED <<srv, running, listening, setup, up, table, told, pumps, buffer, at, todo, listed, crashed>>
RemoveSession(s) ==
    /\ \/ Closes(s, "delete") /\ closing' = Next(closing, s)
       \/ /\ Closes(s, "loadAndDelete")
          /\ closing' = [closing EXCEPT ![s] = IF s \in table THEN @ + 1 ELSE Len(srv.close) + 1]
    /\ table' = table \ {s}
    /\ UNCHANGED <<srv, running, listening, setup, up, told, pumps, buffer, at, todo, listed, crashed>>

OnSessionRemoved(s) ==
    /\ Closes(s, "tell")
    /\ closing' = Next(closing, s)
    /\ told' = [told EXCEPT ![s] = Append(@, FALSE)]
    /\ UNCHANGED <<srv, running, listening, setup, up, table, pumps, buffer, at, todo, listed, crashed>>

PeerGone(s) ==
    /\ up[s]
    /\ up' = [up EXCEPT ![s] = FALSE]
    /\ UNCHANGED <<srv, running, listening, setup, closing, table, told, pumps, buffer, at, todo, listed, crashed>>

(* A reader sees that the connection is gone, a writer when it next        *)
(* writes; webrtc is told by callbacks, whatever state the session is in.  *)
PumpFails(s) ==
    /\ Open(s) /\ ~up[s]
    /\ \/ "reader" \in pumps[s]
       \/ "writer" \in pumps[s] /\ buffer[s] > 0
       \/ srv.name = "webrtc" /\ setup[s] > 0
    /\ BeginClose(s)
    /\ UNCHANGED <<srv, running, listening, setup, table, told, pumps, buffer, at, todo, listed, crashed>>

PumpExits(s, p) ==
    /\ p \in pumps[s] /\ Closed(s)
    /\ pumps' = [pumps EXCEPT ![s] = @ \ {p}]
    /\ UNCHANGED <<srv, running, listening, setup, up, closing, table, told, buffer, at, todo, listed, crashed>>

(* SendMessage to a session of the table: it may still enter the buffer of *)
(* one that is closing; with a full buffer it is dropped after a timeout.  *)
SendMessage(s) ==
    /\ Buffered /\ s \in table
    /\ buffer[s] < channelBufSize
    /\ buffer' = [buffer EXCEPT ![s] = @ + 1]
    /\ UNCHANGED <<srv, running, listening, setup, up, closing, table, told, pumps, at, todo, listed, crashed>>

WritePump(s) ==
    /\ "writer" \in pumps[s] /\ buffer[s] > 0
    /\ up[s]
    /\ buffer' = [buffer EXCEPT ![s] = @ - 1]
    /\ UNCHANGED <<srv, running, listening, setup, up, closing, table, told, pumps, at, todo, listed, crashed>>

-----------------------------------------------------------------------------
(* The two shutdowns, one step of their plan at a time.                    *)
Doing(k, step) == /\ at[k] \in DOMAIN srv.plan[k]
                  /\ srv.plan[k][at[k]] = step
Advance(k) == at' = [at EXCEPT ![k] = @ + 1]
Returned(k) == srv.plan[k] # <<>> /\ at[k] > Len(srv.plan[k])

NotBegun == [k \in Stoppers |-> 0]

StopBegins(k) ==
    /\ srv.plan[k] # <<>> /\ at[k] = 0
    /\ running \/ (at # NotBegun /\ (k = "ctx" \/ srv.name = "websocket"))
    /\ running' = FALSE
    /\ Advance(k)
    /\ listed' = [listed EXCEPT ![k] = IF at = NotBegun THEN table ELSE {}]
    /\ UNCHANGED <<srv, listening, setup, up, closing, table, told, pumps, buffer, todo, crashed>>

(* tcp's Stop reads s.lis without the lock under which the end of Start    *)
(* clears it.                                                              *)
CloseListener(k) ==
    /\ Doing(k, "listener") /\ Advance(k)
    /\ listening' = FALSE
    /\ \/ UNCHANGED crashed
       \/ srv.name = "tcp" /\ k = "Stop" /\ at["ctx"] > 0 /\ crashed' = TRUE
    /\ UNCHANGED <<srv, running, setup, up, closing, table, told, pumps, buffer, todo, listed>>

Snapshot(k) ==
    /\ Doing(k, "snapshot") /\ Advance(k)
    /\ todo' = [todo EXCEPT ![k] = table]
    /\ UNCHANGED <<srv, running, listening, setup, up, closing, table, told, pumps, buffer, listed, crashed>>

MutantCloseSessions(k) ==
    /\ Doing(k, "close")
    /\ \/ todo[k] = {} /\ Advance(k) /\ UNCHANGED <<closing, up, todo>>
       \/ \E s \in todo[k] :
            /\ Open(s) /\ BeginClose(s)
            /\ todo' = [todo EXCEPT ![k] = @ \ {s}]
            /\ UNCHANGED at
    /\ UNCHANGED <<srv, running, listening, setup, table, told, pumps, buffer, listed, crashed>>
CloseSessions(k) ==
    /\ Doing(k, "close")
    /\ \/ todo[k] = {} /\ Advance(k) /\ UNCHANGED <<closing, up, todo>>
       \/ \E s \in todo[k] :
            \/ Open(s) /\ BeginClose(s) /\ UNCHANGED <<at, todo>>
            \/ /\ Closed(s)
               /\ todo' = [todo EXCEPT ![k] = @ \ {s}]
               /\ UNCHANGED <<at, closing, up>>
    /\ UNCHANGED <<srv, running, listening, setup, table, told, pumps, buffer, listed, crashed>>

(* websocket clears the table, webtransport cuts the streams in it first.  *)
ClearTable(k) ==
    /\ Doing(k, "clear") \/ Doing(k, "cut")
    /\ Advance(k)
    /\ table' = {}
    /\ up' = [s \in Sessions |-> up[s] /\ ~(Doing(k, "cut") /\ s \in table)]
    /\ UNCHANGED <<srv, running, listening, setup, closing, told, pumps, buffer, todo, listed, crashed>>

(* webrtc waits for the pumps of the sessions in a second snapshot,        *)
(* webtransport (refCount) for every session being served.                 *)
WaitAll(k) ==
    /\ \/ Doing(k, "wait") /\ \A s \in todo[k] : pumps[s] = {}
       \/ Doing(k, "refs") /\ \A s \in Sessions : pumps[s] = {}
    /\ Advance(k)
    /\ UNCHANGED <<srv, running, listening, setup, up, closing, table, told, pumps, buffer, todo, listed, crashed>>

StopSteps(k) == CloseListener(k) \/ Snapshot(k) \/ CloseSessions(k) \/ ClearTable(k) \/ WaitAll(k)
SessionSteps(s) == \/ CheckClosed(s) \/ AddSession(s) \/ OnSessionAdded(s) \/ Listen(s)
                   \/ RemoveSession(s) \/ OnSessionRemoved(s) \/ PumpFails(s) \/ WritePump(s)
                   \/ \E p \in srv.pumps : PumpExits(s, p)

SessionNext ==
    /\ ~crashed
    /\ \/ Start
       \/ \E s \in Sessions : Accept(s) \/ PeerGone(s) \/ SendMessage(s) \/ SessionSteps(s)
       \/ \E k \in Stoppers : StopBegins(k) \/ StopSteps(k)

(* Goroutines that can run do run; peers, callers and shutdowns need not.  *)
SessionFairness ==
    /\ \A s \in Sessions : WF_sessionVars(~crashed /\ SessionSteps(s))
    /\ \A k \in Stoppers : WF_sessionVars(~crashed /\ StopSteps(k))
SessionSpec == SessionInit /\ [][SessionNext]_sessionVars /\ SessionFairness

-----------------------------------------------------------------------------
(* A closed session has left the table for good (removeSession in Close,   *)
(* tcp/session.go:79-88), although the accept path, both pumps and two     *)
(* shutdowns work on it at once; the connect handler heard of it once per  *)
(* direction.  webrtc is left out: its addSession can store a session that *)
(* was closed since it looked (webrtc/session_manager.go:97-104).          *)
ClosedIsForgotten ==
    srv.name # "webrtc" =>
        \A s \in Sessions :
            /\ Closed(s) => s \notin table
            /\ \A way \in BOOLEAN : Cardinality({i \in DOMAIN told[s] : told[s][i] = way}) <= 1

(* When the first shutdown (Stop, or Start after its context ended)        *)
(* returns, every session that was in the table when it began has been     *)
(* closed or cut (tcp/server.go:159 and 189,                               *)
(* websocket/session_manager.go:33-41).                                    *)
StopClosesListed ==
    \A k \in Stoppers : Returned(k) => \A s \in listed[k] : ~up[s]

(* A session whose Close has begun ends: it leaves the table, its pumps    *)
(* return and the connect handler hears of it; a session whose peer is     *)
(* gone closes; a shutdown returns.  (The Stops of               *)
(* webrtc and webtransport may wait for a session that was added behind    *)
(* their back: webrtc/session_manager.go:86-88, webtransport/server.go:274)*)
Settled ==
    \/ crashed
    \/ /\ \A s \in Sessions :
           /\ ~Open(s) => Closed(s) /\ Ready(s) /\ pumps[s] = {}
           /\ pumps[s] # {} /\ ~up[s] => buffer[s] = 0 /\ pumps[s] = {"writer"}
       /\ \A k \in Stoppers :
           at[k] > 0 /\ srv.name \notin {"webrtc", "webtransport"} => Returned(k)
SessionsSettle == <>[]Settled

-----------------------------------------------------------------------------
(***************************************************************************)
(* The clients of transport/: tcp, kcp, webtransport and webrtc.  Connect  *)
(* dials, makes the new connection the current one and starts a read loop  *)
(* (webrtc: callbacks of the peer connection); Disconnect drops and closes *)
(* the current one.  The loop of an old connection is still about while    *)
(* the application connects again.                                         *)
(***************************************************************************)

CONSTANTS MaxConnects       \* bound on the calls of Connect

VARIABLES client,           \* one of AllClients
          dialled,          \* connections made so far: 1 .. dialled
          current,          \* c.conn (c.stream, c.pc), 0 for nil
          live,             \* connections that are up
          loops,            \* read loop (callback) of each Connect: its state
          reads,            \* the connection that loop reads, 0 for none yet
          murdered          \* connections closed by the loop of another one

clientVars == <<client, dialled, current, live, loops, reads, murdered>>
Conns == 1 .. MaxConnects

(* How a client starts and ends its loop: what the loop reads ("field":    *)
(* c.conn when it gets to run, "own": its own connection), what it does    *)
(* when its connection fails, and whether Connect returns at once while    *)
(* there is a current connection.                                          *)
Client(n, captures, onFail, once) == [name |-> n, captures |-> captures, onFail |-> onFail, once |-> once]
TcpConnect == "always"
TcpRun == [captures |-> "field", onFail |-> "dropOwn"]
KcpConnect == "always"
KcpRun == [captures |-> "field", onFail |-> "dropOwn"]
WebtransportConnect == "once"
WebtransportRun == [captures |-> "field", onFail |-> "checkThenDisconnect"]
WebrtcConnect == "always"
WebrtcOnStateChange == [captures |-> "own", onFail |-> "disconnect"]

TcpClient == Client("tcp", TcpRun.captures, TcpRun.onFail, TcpConnect = "once")
KcpClient == Client("kcp", KcpRun.captures, KcpRun.onFail, KcpConnect = "once")
WebtransportClient == Client("webtransport", WebtransportRun.captures, WebtransportRun.onFail,
                       WebtransportConnect = "once")
WebrtcClient == Client("webrtc", WebrtcOnStateChange.captures, WebrtcOnStateChange.onFail,
                 WebrtcConnect = "once")
AllClients == {TcpClient, KcpClient, WebtransportClient, WebrtcClient}

ClientInit ==
    /\ client \in AllClients
    /\ dialled = 0 /\ current = 0 /\ live = {}
    /\ loops = [l \in Conns |-> "none"]
    /\ reads = [l \in Conns |-> 0]
    /\ murdered = {}

(* A Connect that dials; one that fails to dial changes nothing, except    *)
(* that webrtc waits for the data channel and disconnects when it stays    *)
(* closed (that is a Disconnect after the Connect).                        *)
Connect ==
    /\ dialled < MaxConnects
    /\ client.once => current = 0
    /\ dialled' = dialled + 1
    /\ current' = dialled'
    /\ live' = live \cup {dialled'}
    /\ loops' = [loops EXCEPT ![dialled'] = "starting"]
    /\ reads' = [reads EXCEPT ![dialled'] = IF client.captures = "own" THEN dialled' ELSE 0]
    /\ UNCHANGED <<client, murdered>>

Drop(victims) == /\ current' = 0
                 /\ live' = live \ victims
Disconnect ==
    /\ current # 0
    /\ Drop({current})
    /\ UNCHANGED <<client, dialled, loops, reads, murdered>>

Break(c) ==
    /\ c \in live
    /\ live' = live \ {c}
    /\ UNCHANGED <<client, dialled, current, loops, reads, murdered>>

(* run() gets to run: it takes the connection it finds in the field.       *)
LoopStarts(l) ==
    /\ loops[l] = "starting"
    /\ IF client.captures = "own" THEN loops' = [loops EXCEPT ![l] = "reading"] /\ UNCHANGED reads
       ELSE /\ reads' = [reads EXCEPT ![l] = current]
            /\ loops' = [loops EXCEPT ![l] = IF current = 0 THEN "ended" ELSE "reading"]
    /\ UNCHANGED <<client, dialled, current, live, murdered>>

(* Its connection failed or was closed.  tcp and kcp drop the field only   *)
(* if it still holds that connection, under the lock; webtransport looks   *)
(* first and disconnects after; webrtc disconnects whatever is current.    *)
MutantLoopFails(l) ==
    /\ loops[l] = "reading" /\ reads[l] \notin live
    /\ loops' = [loops EXCEPT ![l] = "ended"]
    /\ Drop({current})
    /\ murdered' = murdered \cup ((live \cap {current}) \ {reads[l]})
    /\ UNCHANGED <<client, dialled, reads>>
LoopFails(l) ==
    /\ loops[l] = "reading" /\ reads[l] \notin live
    /\ CASE client.onFail = "dropOwn" ->
              /\ current' = (IF current = reads[l] THEN 0 ELSE current)
              /\ loops' = [loops EXCEPT ![l] = "ended"]
              /\ UNCHANGED <<live, murdered>>
         [] client.onFail = "checkThenDisconnect" ->
              /\ loops' = [loops EXCEPT ![l] = IF current = reads[l] THEN "disconnecting" ELSE "ended"]
              /\ UNCHANGED <<current, live, murdered>>
         [] client.onFail = "disconnect" ->
              /\ loops' = [loops EXCEPT ![l] = "disconnecting"]
              /\ UNCHANGED <<current, live, murdered>>
    /\ UNCHANGED <<client, dialled, reads>>

LoopDisconnects(l) ==
    /\ loops[l] = "disconnecting"
    /\ loops' = [loops EXCEPT ![l] = "ended"]
    /\ Drop({current})
    /\ murdered' = murdered \cup ((live \cap {current}) \ {reads[l]})
    /\ UNCHANGED <<client, dialled, reads>>

LoopSteps(l) == LoopStarts(l) \/ LoopFails(l) \/ LoopDisconnects(l)
ClientNext == \/ Connect \/ Disconnect
              \/ \E c \in Conns : Break(c)
              \/ \E l \in Conns : LoopSteps(l)
(* A goroutine that can run runs, and a read on a dead connection returns. *)
ClientFairness == \A l \in Conns : WF_clientVars(LoopSteps(l))
ClientSpec == ClientInit /\ [][ClientNext]_clientVars /\ ClientFairness

-----------------------------------------------------------------------------
(* An old read loop that ends never closes a connection the application    *)
(* has made since (tcp/client.go:209, kcp/client.go:214).  webtransport    *)
(* looks and then disconnects whatever is current (webtransport/client.go: *)
(* 309-312); webrtc's callback does not look.                              *)
OldLoopSparesNewConn == client.name \in {"tcp", "kcp"} => murdered = {}

(* A current connection that died does not stay current: some loop still   *)
(* reads it, notices and drops it, however Connect and Disconnect calls    *)
(* and late goroutines interleave (run, tcp/client.go:208-224).            *)
CurrentIsLive == current \in Conns => current \in live
DeadIsDropped == <>[]CurrentIsLive
=============================================================================
