--------------------------- MODULE AMQPConnection ---------------------------
(***************************************************************************)
(* The connection engine of pika/connection.py (class Connection) talking  *)
(* to an AMQP 0-9-1 broker over one transport per connection.              *)
(*                                                                         *)
(* Every handler of the engine is a function from the whole state (a       *)
(* record W with one field per variable) to the next one, so that a call   *)
(* chain such as on_data_available -> callbacks.process -> handler ->      *)
(* close -> rpc -> send_method is one step, as it is in the single-threaded *)
(* code, and the callbacks of a callbacks.process run in registration      *)
(* order.  The callback registry is one value shared by all connections,   *)
(* as CallbackManager.instance() is a process-wide singleton.              *)
(*                                                                         *)
(* The broker is the environment: it answers as AMQP 0-9-1 requires and    *)
(* records in berr any frame it did not expect.                            *)
(***************************************************************************)
EXTENDS Naturals, Sequences, FiniteSets, SequencesExt, TLC, CallbackRegistry,
        ContentFragmentation

CONSTANTS
    Conns,               \* Connection objects of the process.
    ClientChannelMax,    \* ConnectionParameters.channel_max.
    ServerChannelMax,    \* channel_max of the broker's Connection.Tune.
    MaxChannelNumber,    \* Bound: highest channel number a user may open.
    MaxConnects,         \* Bound: transports opened per connection.
    MaxFailures,         \* Bound: network failures per connection.
    BrokerMayForceClose, \* The broker may close an open connection.
    BrokerMayRefuseOpen  \* The broker may answer Connection.Open with Close.

ASSUME ClientChannelMax \in Nat /\ ServerChannelMax \in Nat
ASSUME MaxChannelNumber \in Nat \ {0} /\ MaxConnects \in Nat \ {0}
ASSUME BrokerMayForceClose \in BOOLEAN /\ BrokerMayRefuseOpen \in BOOLEAN

VARIABLES
    open, closing, closed, \* The lifecycle flags of Connection.
    channels,              \* _channels: channel number -> channel state.
    channel_max,           \* state.channel_max (0 until tuned).
    callbacks,             \* The CallbackManager singleton.
    transport,             \* "down" or "up" (the adapter's socket).
    toServer, toClient,    \* Frames in flight on the current transport.
    closeSent,             \* History: Connection.Close sent on this transport.
    broker,                \* The broker's connection state.
    brokerChannels,        \* Channels open at the broker.
    brokerChannelMax,      \* channel_max the client's TuneOk announced.
    berr,                  \* The broker received a frame it did not expect.
    fault,                 \* on_data_available raised (KeyError).
    closeCalled,           \* close() ran past its guard on this state.
    rsNotified,            \* Calls of the reconnection strategy's hook.
    userClosed,            \* History: the user's close() is the last call.
    connects,              \* Transports opened (bounded).
    failures               \* Network failures (bounded).

vars == <<open, closing, closed, channels, channel_max, callbacks, transport,
          toServer, toClient, closeSent, broker, brokerChannels, brokerChannelMax,
          berr, fault, closeCalled, rsNotified, userClosed, connects, failures>>

CHANNEL_MAX == 32767

ChanNums == 1..MaxChannelNumber
ChannelPrefixes == 0..MaxChannelNumber

\* Method names.  "Close"/"CloseOk" are Connection.*, "Ch*" Channel.*.
ClientMethods == {"Header", "StartOk", "TuneOk", "Open", "Close", "CloseOk",
                  "ChOpen", "ChClose"}
ServerMethods == {"Start", "Tune", "OpenOk", "Close", "CloseOk",
                  "ChOpenOk", "ChCloseOk"}
\* Registry keys: inbound methods and the lifecycle tags connection.py uses;
\* "_on_connection_close" is the key close() removes from (line 436).
Keys == ServerMethods \cup {"_on_connection_open", "_on_connection_closed",
                            "_on_connection_close"}
Handlers == {"StartH", "TuneH", "OpenH", "RemoteCloseH", "ClosedH",
             "ChannelCloseH", "ChannelOpenOkH", "RSClosed", "Reconnect", "OnOpen"}

Frame(ch, m, arg) == [ch |-> ch, m |-> m, arg |-> arg]
NoFrame == Frame(0, "None", 0)

BrokerStates == {"none", "startok", "tuneok", "openwait", "open", "closing",
                 "closed"}

\* The whole state as a record, and the step that installs a new one.
State == [open |-> open, closing |-> closing, closed |-> closed,
          channels |-> channels, channel_max |-> channel_max,
          callbacks |-> callbacks, transport |-> transport,
          toServer |-> toServer, toClient |-> toClient, closeSent |-> closeSent,
          broker |-> broker, brokerChannels |-> brokerChannels,
          brokerChannelMax |-> brokerChannelMax, berr |-> berr,
          fault |-> fault, closeCalled |-> closeCalled,
          rsNotified |-> rsNotified, userClosed |-> userClosed,
          connects |-> connects,
          failures |-> failures]

Commit(W) ==
    /\ open' = W.open /\ closing' = W.closing /\ closed' = W.closed
    /\ channels' = W.channels /\ channel_max' = W.channel_max
    /\ callbacks' = W.callbacks /\ transport' = W.transport
    /\ toServer' = W.toServer /\ toClient' = W.toClient /\ closeSent' = W.closeSent
    /\ broker' = W.broker /\ brokerChannels' = W.brokerChannels
    /\ brokerChannelMax' = W.brokerChannelMax /\ berr' = W.berr
    /\ fault' = W.fault /\ closeCalled' = W.closeCalled
    /\ rsNotified' = W.rsNotified /\ userClosed' = W.userClosed
    /\ connects' = W.connects
    /\ failures' = W.failures

DeleteKey(f, k) == [x \in DOMAIN f \ {k} |-> f[x]]
-----------------------------------------------------------------------------
(***************************************************************************)
(* Outbound frames and the connection's helpers.                           *)
(***************************************************************************)

\* _send_frame: marshal the frame and hand it to the transport.
SendFrame(W, c, f) ==
    [W EXCEPT !.toServer[c] = Append(@, f),
              !.closeSent[c] = @ \/ f = Frame(0, "Close", 0)]

\* send_method without content (content is ContentFragmentation's part).
SendMethod(W, c, ch, m, arg) == SendFrame(W, c, Frame(ch, m, arg))

\* rpc(callback, channel_number, method, [reply]): register the callback
\* one-shot under the reply, then send the method.
Rpc(W, c, h, ch, m, reply) ==
    SendMethod([W EXCEPT !.callbacks = AddCallback(@, ch, reply, Entry(c, h, TRUE))],
               c, ch, m, 0)

\* add_on_close_callback: a persistent entry under "_on_connection_closed".
AddOnCloseCallback(W, c, h) ==
    [W EXCEPT !.callbacks =
        AddCallback(@, 0, "_on_connection_closed", Entry(c, h, FALSE))]

\* is_open()
IsOpen(c) == open[c] /\ ~closing[c] /\ ~closed[c]

\* _init_connection_state: fresh state for a new transport; the registry
\* is the singleton and keeps what earlier transports registered.
InitConnectionState(W, c) ==
    [W EXCEPT !.open[c] = FALSE, !.closing[c] = FALSE, !.closed[c] = TRUE,
              !.channels[c] = <<>>, !.channel_max[c] = 0,
              !.closeCalled[c] = FALSE,
              !.callbacks = AddCallback(@, 0, "Start", Entry(c, "StartH", TRUE))]

\* _on_connected: send the protocol header (the strategy's
\* on_transport_connected changes nothing the model keeps).
OnConnected(W, c) == SendFrame(W, c, Frame(0, "Header", 0))

\* _connect: the adapter's blocking connect opens a new transport, whose
\* broker session starts afresh, and calls _on_connected.
Connect(W, c) ==
    OnConnected([W EXCEPT !.transport[c] = "up", !.toServer[c] = <<>>,
                    !.toClient[c] = <<>>, !.closeSent[c] = FALSE,
                    !.broker[c] = "none", !.brokerChannels[c] = {},
                    !.brokerChannelMax[c] = 0, !.connects[c] = @ + 1], c)

\* The adapter's disconnect: the transport is torn down.
Disconnect(W, c) ==
    [W EXCEPT !.transport[c] = "down", !.toServer[c] = <<>>,
              !.toClient[c] = <<>>, !.broker[c] = "none",
              !.brokerChannels[c] = {}]

\* Channel.close of pika/channel.py: send Channel.Close once.
ChannelClose(W, c, n) ==
    IF W.channels[c][n] = "closing" THEN W
    ELSE SendMethod([W EXCEPT !.channels[c][n] = "closing"], c, n, "ChClose", 0)

\* Mutant: numbering starts at 0 when there is no channel.
NextChannelNumber_FromZero(W, c) ==
    IF DOMAIN W.channels[c] = {} THEN 0
    ELSE 1 + CHOOSE n \in DOMAIN W.channels[c] : \A m \in DOMAIN W.channels[c] : m =< n

\* _next_channel_number: max(keys) + 1, or 1.
NextChannelNumber(W, c) ==
    IF DOMAIN W.channels[c] = {} THEN 1
    ELSE 1 + CHOOSE n \in DOMAIN W.channels[c] : \A m \in DOMAIN W.channels[c] : m =< n

\* _next_channel_number raises NoFreeChannels when len(_channels) reaches
\* state.channel_max or CHANNEL_MAX; MaxChannelNumber bounds the model.
CanOpenChannel(W, c) ==
    LET limit == IF W.channel_max[c] = 0 THEN CHANNEL_MAX ELSE W.channel_max[c]
    IN /\ Cardinality(DOMAIN W.channels[c]) # limit
       /\ NextChannelNumber(W, c) =< MaxChannelNumber

\* channel(on_open_callback): _on_channel_close registered for the
\* channel's Channel.CloseOk, the channel added to _channels, and the new
\* Channel (pika/channel.py) sends Channel.Open as an rpc.  channel() does
\* not look at the connection's flags.
OpenChannel(W, c) ==
    LET n  == NextChannelNumber(W, c)
        W1 == [W EXCEPT !.callbacks = AddCallback(@, n, "ChCloseOk",
                                                  Entry(c, "ChannelCloseH", TRUE)),
                        !.channels[c] = (n :> "opening") @@ @]
    IN Rpc(W1, c, "ChannelOpenOkH", n, "ChOpen", "ChOpenOk")

-----------------------------------------------------------------------------
(***************************************************************************)
(* Handlers.  Process and the handlers that call it are mutually recursive.*)
(***************************************************************************)
RECURSIVE Process(_, _, _, _)

\* _on_close_ready: send Connection.Close unless already closed.
CloseReady(W, c) ==
    IF W.closed[c] THEN W ELSE Rpc(W, c, "ClosedH", 0, "Close", "CloseOk")

\* Mutant: close() without the final "if not len(self._channels)".
Close_NoCloseReady(W, c) ==
    IF W.closing[c] \/ W.closed[c] THEN W
    ELSE LET W1 == [W EXCEPT !.closing[c] = TRUE, !.closeCalled[c] = TRUE,
                        !.callbacks = RemoveCallback(@, 0, "_on_connection_close",
                                                     c, "RSClosed")]
         IN FoldLeft(LAMBDA w, n : ChannelClose(w, c, n), W1,
                     SetToSortSeq(DOMAIN W1.channels[c], <))

\* close(code, text): no-op when closing or closed; otherwise close every
\* channel and, when there are none, go straight to _on_close_ready.
Close(W, c) ==
    IF W.closing[c] \/ W.closed[c] THEN W
    ELSE LET W1 == [W EXCEPT !.closing[c] = TRUE, !.closeCalled[c] = TRUE,
                        !.callbacks = RemoveCallback(@, 0, "_on_connection_close",
                                                     c, "RSClosed")]
             W2 == FoldLeft(LAMBDA w, n : ChannelClose(w, c, n), W1,
                            SetToSortSeq(DOMAIN W1.channels[c], <))
         IN IF DOMAIN W2.channels[c] = {} THEN CloseReady(W2, c) ELSE W2

\* _ensure_closed
EnsureClosed(W, c) ==
    IF W.open[c] /\ ~W.closing[c] /\ ~W.closed[c] THEN Close(W, c) ELSE W

\* Mutant: the start handler marks the connection open.
StartH_SetsOpen(W, c, f) ==
    SendMethod([W EXCEPT !.open[c] = TRUE,
                   !.callbacks = AddCallback(@, 0, "Tune", Entry(c, "TuneH", TRUE))],
               c, 0, "StartOk", 0)

\* _on_connection_start (the broker always offers 0-9 and PLAIN here).
StartH(W, c, f) ==
    SendMethod([W EXCEPT !.closed[c] = FALSE,
                   !.callbacks = AddCallback(@, 0, "Tune", Entry(c, "TuneH", TRUE))],
               c, 0, "StartOk", 0)

\* Mutant: Connection.Open sent before Connection.TuneOk.
TuneH_OpenFirst(W, c, f) ==
    LET cmax == Combine(ClientChannelMax, f.arg)
    IN SendMethod(Rpc([W EXCEPT !.channel_max[c] = cmax], c, "OpenH", 0, "Open", "OpenOk"),
                  c, 0, "TuneOk", cmax)

\* Mutant: Connection.Open is sent without registering _on_connection_open
\* for its reply.
TuneH_NoOpenCallback(W, c, f) ==
    LET cmax == Combine(ClientChannelMax, f.arg)
    IN SendMethod(SendMethod([W EXCEPT !.channel_max[c] = cmax], c, 0, "TuneOk", cmax),
                  c, 0, "Open", 0)

\* _on_connection_tune: tune, send TuneOk, then the Connection.Open rpc.
TuneH(W, c, f) ==
    LET cmax == Combine(ClientChannelMax, f.arg)
    IN Rpc(SendMethod([W EXCEPT !.channel_max[c] = cmax], c, 0, "TuneOk", cmax),
           c, "OpenH", 0, "Open", "OpenOk")

\* _on_connection_open
OpenH(W, c, f) ==
    Process([W EXCEPT !.open[c] = TRUE,
                !.callbacks = AddCallback(@, 0, "Close", Entry(c, "RemoteCloseH", TRUE))],
            0, "_on_connection_open", NoFrame)

\* Mutant: self.open = False missing from _on_connection_closed.
ConnectionClosed_KeepsOpen(W, c, fromAdapter) ==
    LET W1 == Process([W EXCEPT !.closed[c] = TRUE, !.closing[c] = FALSE],
                      0, "_on_connection_closed", NoFrame)
    IN IF fromAdapter THEN W1 ELSE Disconnect(W1, c)

\* _on_connection_closed(frame, from_adapter)
ConnectionClosed(W, c, fromAdapter) ==
    LET W1 == Process([W EXCEPT !.closed[c] = TRUE, !.closing[c] = FALSE,
                                !.open[c] = FALSE],
                      0, "_on_connection_closed", NoFrame)
    IN IF fromAdapter THEN W1 ELSE Disconnect(W1, c)

\* Mutant: _on_close_ready called on the first CloseOk while closing.
ChannelCloseH_AnyClose(W, c, f) ==
    LET W1 == IF f.ch \in DOMAIN W.channels[c]
              THEN [W EXCEPT !.channels[c] = DeleteKey(@, f.ch)] ELSE W
    IN IF W1.closing[c] THEN CloseReady(W1, c) ELSE W1

\* _on_channel_close
ChannelCloseH(W, c, f) ==
    LET W1 == IF f.ch \in DOMAIN W.channels[c]
              THEN [W EXCEPT !.channels[c] = DeleteKey(@, f.ch)] ELSE W
    IN IF W1.closing[c] /\ DOMAIN W1.channels[c] = {} THEN CloseReady(W1, c)
       ELSE W1

\* The channel's Channel.OpenOk callback (pika/channel.py).
ChannelOpenOkH(W, c, f) ==
    IF f.ch \in DOMAIN W.channels[c] /\ W.channels[c][f.ch] = "opening"
    THEN [W EXCEPT !.channels[c][f.ch] = "open"] ELSE W

\* _reconnect
ReconnectH(W, c) == Connect(InitConnectionState(W, c), c)

\* The user's on_open_callback, as pika's examples write it: it opens a
\* channel on the connection it is given.
OnOpen(W, c) == IF CanOpenChannel(W, c) THEN OpenChannel(W, c) ELSE W

\* Invoke one registered callback: the bound method of entry e.
RunHandler(W, e, f) ==
    CASE e.h = "StartH"         -> StartH(W, e.conn, f)
      [] e.h = "TuneH"          -> TuneH(W, e.conn, f)
      [] e.h = "OpenH"          -> OpenH(W, e.conn, f)
      [] e.h = "RemoteCloseH"   -> Close(W, e.conn)
      [] e.h = "ClosedH"        -> ConnectionClosed(W, e.conn, FALSE)
      [] e.h = "ChannelCloseH"  -> ChannelCloseH(W, e.conn, f)
      [] e.h = "ChannelOpenOkH" -> ChannelOpenOkH(W, e.conn, f)
      [] e.h = "RSClosed"       -> [W EXCEPT !.rsNotified[e.conn] = @ + 1]
      [] e.h = "Reconnect"      -> ReconnectH(W, e.conn)
      [] e.h = "OnOpen"         -> OnOpen(W, e.conn)

\* callbacks.process: the entries registered when it starts, in order;
\* a one-shot entry is removed after it ran.
RECURSIVE RunAll(_, _, _, _, _)
RunAll(W, p, k, list, f) ==
    IF list = <<>> THEN W
    ELSE LET e  == Head(list)
             W1 == RunHandler(W, e, f)
             W2 == IF e.one
                   THEN [W1 EXCEPT !.callbacks = RemoveCallback(@, p, k, e.conn, e.h)]
                   ELSE W1
         IN RunAll(W2, p, k, Tail(list), f)

Process(W, p, k, f) == RunAll(W, p, k, W.callbacks[<<p, k>>], f)
-----------------------------------------------------------------------------
(***************************************************************************)
(* Entry points of the engine.                                             *)
(***************************************************************************)

\* The registry __init__ leaves: the user's on_open_callback under
\* "_on_connection_open" (add_on_open_callback), the reconnection
\* strategy's hook under "_on_connection_closed" and _on_connection_start
\* under Connection.Start.
InitCallbacks ==
    LET order == SetToSeq(Conns)
        at(h, one) == [i \in 1..Len(order) |-> Entry(order[i], h, one)]
    IN [pk \in ChannelPrefixes \X Keys |->
          CASE pk = <<0, "_on_connection_open">> -> at("OnOpen", FALSE)
            [] pk = <<0, "_on_connection_closed">> -> at("RSClosed", FALSE)
            [] pk = <<0, "Start">> -> at("StartH", TRUE)
            [] OTHER -> <<>>]

\* Connection.__init__: _init_connection_state, then _connect, which
\* sends the protocol header.
Init ==
    /\ open = [c \in Conns |-> FALSE]
    /\ closing = [c \in Conns |-> FALSE]
    /\ closed = [c \in Conns |-> TRUE]
    /\ channels = [c \in Conns |-> <<>>]
    /\ channel_max = [c \in Conns |-> 0]
    /\ callbacks = InitCallbacks
    /\ transport = [c \in Conns |-> "up"]
    /\ toServer = [c \in Conns |-> <<Frame(0, "Header", 0)>>]
    /\ toClient = [c \in Conns |-> <<>>]
    /\ closeSent = [c \in Conns |-> FALSE]
    /\ broker = [c \in Conns |-> "none"]
    /\ brokerChannels = [c \in Conns |-> {}]
    /\ brokerChannelMax = [c \in Conns |-> 0]
    /\ berr = [c \in Conns |-> FALSE]
    /\ fault = [c \in Conns |-> FALSE]
    /\ closeCalled = [c \in Conns |-> FALSE]
    /\ rsNotified = [c \in Conns |-> 0]
    /\ userClosed = [c \in Conns |-> FALSE]
    /\ connects = [c \in Conns |-> 1]
    /\ failures = [c \in Conns |-> 0]

\* on_data_available with one complete frame: callbacks pending for it run;
\* otherwise a frame for channel n > 0 goes to _channels[n] (KeyError when
\* n is not there) and a frame for channel 0 is dropped.
Dispatch(W, c, f) ==
    IF Pending(W.callbacks, f.ch, f.m) THEN Process(W, f.ch, f.m, f)
    ELSE IF f.ch > 0 /\ f.ch \notin DOMAIN W.channels[c]
         THEN [W EXCEPT !.fault[c] = TRUE]
         ELSE W

Receive(c) ==
    /\ transport[c] = "up"
    /\ toClient[c] # <<>>
    /\ Commit(Dispatch([State EXCEPT !.toClient[c] = Tail(@)], c,
                       Head(toClient[c])))

\* channel(on_open_callback) called by the user on an open connection
\* (NoFreeChannels leaves the state as it was).
UserChannel(c) ==
    /\ IsOpen(c)
    /\ CanOpenChannel(State, c)
    /\ Commit(OpenChannel(State, c))

\* Channel.close by the user on one open channel.
UserChannelClose(c, n) ==
    /\ IsOpen(c)
    /\ n \in DOMAIN channels[c]
    /\ channels[c][n] = "open"
    /\ Commit(ChannelClose(State, c, n))

\* close() by the user (its early return is a step that changes nothing).
UserClose(c) ==
    /\ ~closing[c] /\ ~closed[c]
    /\ Commit(Close([State EXCEPT !.userClosed[c] = TRUE], c))

\* reconnect()
Reconnect(W, c) ==
    IF W.closing[c] THEN AddOnCloseCallback(W, c, "Reconnect")
    ELSE IF W.open[c] THEN EnsureClosed(AddOnCloseCallback(W, c, "Reconnect"), c)
    ELSE ReconnectH(W, c)

UserReconnect(c) ==
    /\ connects[c] < MaxConnects
    /\ Commit(Reconnect([State EXCEPT !.userClosed[c] = FALSE], c))

\* The adapter sees the transport fail and calls _on_connection_closed
\* with from_adapter.
TransportLost(W, c) == ConnectionClosed(Disconnect(W, c), c, TRUE)

NetworkFailure(c) ==
    /\ transport[c] = "up"
    /\ failures[c] < MaxFailures
    /\ Commit(TransportLost([State EXCEPT !.failures[c] = @ + 1], c))
-----------------------------------------------------------------------------
(***************************************************************************)
(* The broker (environment), per AMQP 0-9-1.  After it sent or received    *)
(* Connection.Close it discards everything but Close and CloseOk.          *)
(***************************************************************************)
Reply(c, f) == toClient' = [toClient EXCEPT ![c] = Append(@, f)]
BrokerGoes(c, s) == broker' = [broker EXCEPT ![c] = s]

\* A channel number the broker accepts in Channel.Open.
ValidChannel(c, n) ==
    /\ n \notin brokerChannels[c]
    /\ brokerChannelMax[c] = 0 \/ n =< brokerChannelMax[c]

Expected(c, f) ==
    \/ broker[c] = "none" /\ f.m = "Header"
    \/ broker[c] = "startok" /\ f.m = "StartOk"
    \/ broker[c] = "tuneok" /\ f.m = "TuneOk"
    \/ broker[c] = "openwait" /\ f.m = "Open"
    \/ broker[c] = "open" /\ f.m = "ChOpen" /\ ValidChannel(c, f.ch)
    \/ broker[c] = "open" /\ f.m = "ChClose" /\ f.ch \in brokerChannels[c]
    \/ broker[c] \notin {"none", "closed"} /\ f.m = "Close"
    \/ broker[c] \in {"closing", "closed"}

BrokerHandle(c, f) ==
    \/ /\ broker[c] = "none" /\ f.m = "Header"
       /\ BrokerGoes(c, "startok") /\ Reply(c, Frame(0, "Start", 0))
       /\ UNCHANGED <<brokerChannels, brokerChannelMax, berr>>
    \/ /\ broker[c] = "startok" /\ f.m = "StartOk"
       /\ BrokerGoes(c, "tuneok") /\ Reply(c, Frame(0, "Tune", ServerChannelMax))
       /\ UNCHANGED <<brokerChannels, brokerChannelMax, berr>>
    \/ /\ broker[c] = "tuneok" /\ f.m = "TuneOk"
       /\ BrokerGoes(c, "openwait")
       /\ brokerChannelMax' = [brokerChannelMax EXCEPT ![c] = f.arg]
       /\ UNCHANGED <<toClient, brokerChannels, berr>>
    \/ /\ broker[c] = "openwait" /\ f.m = "Open"
       /\ BrokerGoes(c, "open") /\ Reply(c, Frame(0, "OpenOk", 0))
       /\ UNCHANGED <<brokerChannels, brokerChannelMax, berr>>
    \/ /\ broker[c] = "openwait" /\ f.m = "Open" /\ BrokerMayRefuseOpen
       /\ BrokerGoes(c, "closing") /\ Reply(c, Frame(0, "Close", 0))
       /\ UNCHANGED <<brokerChannels, brokerChannelMax, berr>>
    \/ /\ broker[c] = "open" /\ f.m = "ChOpen" /\ ValidChannel(c, f.ch)
       /\ brokerChannels' = [brokerChannels EXCEPT ![c] = @ \cup {f.ch}]
       /\ Reply(c, Frame(f.ch, "ChOpenOk", 0))
       /\ UNCHANGED <<broker, brokerChannelMax, berr>>
    \/ /\ broker[c] = "open" /\ f.m = "ChClose" /\ f.ch \in brokerChannels[c]
       /\ brokerChannels' = [brokerChannels EXCEPT ![c] = @ \ {f.ch}]
       /\ Reply(c, Frame(f.ch, "ChCloseOk", 0))
       /\ UNCHANGED <<broker, brokerChannelMax, berr>>
    \/ /\ broker[c] \notin {"none", "closed"} /\ f.m = "Close"
       /\ BrokerGoes(c, "closed") /\ Reply(c, Frame(0, "CloseOk", 0))
       /\ UNCHANGED <<brokerChannels, brokerChannelMax, berr>>
    \/ /\ broker[c] = "closing" /\ f.m = "CloseOk"
       /\ BrokerGoes(c, "closed")
       /\ UNCHANGED <<toClient, brokerChannels, brokerChannelMax, berr>>
    \/ /\ \/ broker[c] = "closed"
          \/ broker[c] = "closing" /\ f.m \notin {"Close", "CloseOk"}
       /\ UNCHANGED <<toClient, broker, brokerChannels, brokerChannelMax, berr>>
    \/ /\ ~Expected(c, f)
       /\ berr' = [berr EXCEPT ![c] = TRUE]
       /\ BrokerGoes(c, "closing") /\ Reply(c, Frame(0, "Close", 0))
       /\ UNCHANGED <<brokerChannels, brokerChannelMax>>

BrokerReceive(c) ==
    /\ transport[c] = "up"
    /\ toServer[c] # <<>>
    /\ toServer' = [toServer EXCEPT ![c] = Tail(@)]
    /\ BrokerHandle(c, Head(toServer[c]))
    /\ UNCHANGED <<open, closing, closed, channels, channel_max, callbacks,
                   transport, closeSent, fault, closeCalled, rsNotified, userClosed,
                   connects, failures>>

\* The broker closes an open connection (connection.forced).
BrokerForceClose(c) ==
    /\ BrokerMayForceClose
    /\ transport[c] = "up" /\ broker[c] = "open"
    /\ BrokerGoes(c, "closing") /\ Reply(c, Frame(0, "Close", 0))
    /\ UNCHANGED <<open, closing, closed, channels, channel_max, callbacks,
                   transport, toServer, closeSent, brokerChannels, brokerChannelMax,
                   berr, fault, closeCalled, rsNotified, userClosed, connects, failures>>

\* The broker closes the socket once the connection is closed, or when its
\* close handshake times out; the client reads every frame before the EOF.
BrokerDropsSocket(c) ==
    /\ transport[c] = "up" /\ broker[c] \in {"closing", "closed"}
    /\ toClient[c] = <<>>
    /\ Commit(TransportLost(State, c))

-----------------------------------------------------------------------------
Next ==
    \E c \in Conns :
        \/ Receive(c)
        \/ UserChannel(c)
        \/ \E n \in ChanNums : UserChannelClose(c, n)
        \/ UserClose(c)
        \/ UserReconnect(c)
        \/ NetworkFailure(c)
        \/ BrokerReceive(c)
        \/ BrokerForceClose(c)
        \/ BrokerDropsSocket(c)

\* The engine runs whenever the adapter delivers; the broker answers and
\* closes dead sockets.  Users and the network are under no obligation.
Fairness ==
    \A c \in Conns :
        /\ WF_vars(Receive(c))
        /\ WF_vars(BrokerReceive(c))
        /\ WF_vars(BrokerDropsSocket(c))

Spec == Init /\ [][Next]_vars /\ Fairness
-----------------------------------------------------------------------------
(***************************************************************************)
(* Properties.                                                             *)
(***************************************************************************)
Frames == [ch : 0..MaxChannelNumber, m : ClientMethods \cup ServerMethods,
           arg : Nat]

TypeOK ==
    /\ open \in [Conns -> BOOLEAN] /\ closing \in [Conns -> BOOLEAN]
    /\ closed \in [Conns -> BOOLEAN]
    /\ \A c \in Conns : /\ DOMAIN channels[c] \subseteq ChanNums
                        /\ \A n \in DOMAIN channels[c] :
                              channels[c][n] \in {"opening", "open", "closing"}
    /\ channel_max \in [Conns -> Nat]
    /\ transport \in [Conns -> {"down", "up"}]
    /\ \A c \in Conns : \A i \in 1..Len(toServer[c]) : toServer[c][i] \in Frames
    /\ \A c \in Conns : \A i \in 1..Len(toClient[c]) : toClient[c][i] \in Frames
    /\ broker \in [Conns -> BrokerStates]
    /\ brokerChannels \in [Conns -> SUBSET ChanNums]
    /\ userClosed \in [Conns -> BOOLEAN]
    /\ \A pk \in DOMAIN callbacks : \A i \in 1..Len(callbacks[pk]) :
          callbacks[pk][i] \in [conn : Conns, h : Handlers, one : BOOLEAN]

\* The broker never receives a frame AMQP 0-9-1 forbids in its state, and
\* on_data_available never meets a frame for a channel it does not know:
\* the handshake, channel and close sequences the handlers of
\* connection.py emit are well formed under every interleaving with the
\* broker, network failures and reconnects.
ProtocolRespected == \A c \in Conns : ~berr[c] /\ ~fault[c]

\* Connection.Close is sent only once every channel that close() closed
\* has confirmed its Channel.Close (close() and _on_channel_close,
\* connection.py 440-445 and 551-552): no channel still waits for its
\* Channel.CloseOk.  (A channel the on_open callback opens after
\* Connection.Close is not one of them.)
CloseAfterChannelsClosed ==
    \A c \in Conns : closeSent[c] =>
        \A n \in DOMAIN channels[c] : channels[c][n] # "closing"

\* The engine considers a connection open (_on_connection_open) only while
\* its own broker has answered Connection.Open with OpenOk: the callbacks
\* a frame triggers belong to the connection that received it, and
\* _on_connection_closed resets the flags when the transport goes away.
OpenAgreesWithBroker ==
    \A c \in Conns : open[c] => broker[c] \in {"open", "closing", "closed"}

\* Spec section 3: every channel number in _channels is in
\* [1, channel_max] (_next_channel_number, connection.py 520-539).
ChannelNumbersWithinMax ==
    \A c \in Conns : \A n \in DOMAIN channels[c] :
        1 =< n /\ (channel_max[c] = 0 \/ n =< channel_max[c])

\* Spec section 8: after close() nothing but Channel.Close frames and the
\* final Connection.Close are emitted: once Connection.Close is sent, no
\* frame is added to that transport.
NothingSentAfterClose ==
    [][\A c \in Conns : closeSent[c] /\ connects'[c] = connects[c]
                          => Len(toServer'[c]) =< Len(toServer[c])]_vars

\* The step of on_data_available that consumes a Connection.Close of the
\* broker on this transport.
ReceivesBrokerClose(c) ==
    /\ transport[c] = "up" /\ transport'[c] = "up"
    /\ toClient[c] # <<>> /\ Head(toClient[c]) = Frame(0, "Close", 0)
    /\ toClient'[c] = Tail(toClient[c])

\* Spec section 4.4 (Open, Connection.Close (remote)) and section 8,
\* scenario 5: an open connection answers the broker's Connection.Close
\* with Connection.CloseOk in the step that handles it
\* (_on_remote_close, connection.py 482-488).
BrokerCloseAnswered ==
    [][\A c \in Conns :
          ReceivesBrokerClose(c) /\ IsOpen(c) =>
              \E i \in Len(toServer[c]) + 1 .. Len(toServer'[c]) :
                  toServer'[c][i] = Frame(0, "CloseOk", 0)]_vars

\* Every close() completes: the connection reaches closed.
CloseCompletes == \A c \in Conns : closing[c] ~> closed[c]

\* A close() by the user is final until the user calls reconnect(): no
\* new transport is opened for it.  reconnect() while open registers
\* _reconnect as an on-close callback (connection.py 268-271) "that can't
\* be added more than once", and nothing ever removes it.
UserCloseIsFinal ==
    [][\A c \in Conns : userClosed'[c] => connects'[c] = connects[c]]_vars

\* The lifecycle the flags of connection.py stand for: closing wins over
\* open, and a connection that is neither open nor closed is between
\* Connection.Start and Connection.OpenOk.
Lifecycle(c) ==
    IF closing[c] THEN "closing"
    ELSE IF open[c] THEN "open"
    ELSE IF closed[c] THEN "closed"
    ELSE "opening"

Abstract == INSTANCE ConnectionLifecycle WITH lc <- [c \in Conns |-> Lifecycle(c)]

\* The open, closing and closed flags that the handlers, close(),
\* reconnect() and the adapter's callbacks set move each connection only
\* along the lifecycle of ConnectionLifecycle: never back from closing to
\* open, never open without the handshake.
Refinement == Abstract!Spec

\* Every handshake ends: a connection that has left closed (the
\* Start/StartOk, Tune/TuneOk, Open/OpenOk chain of one-shot callbacks
\* registered by _on_connection_start and _on_connection_tune) reaches
\* open or closed, also when the broker refuses Open, closes it, or the
\* user closes or reconnects in the middle.
HandshakeTerminates ==
    \A c \in Conns : Lifecycle(c) = "opening" ~> Lifecycle(c) \in {"open", "closed"}
=============================================================================
