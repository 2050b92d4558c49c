# TLA+ models of pika's connection engine and field-table codec

This directory holds TLA+ models of the sources under `src/pika/`:
`connection.py` (the AMQP 0-9-1 connection engine) and `table.py` (the
field-table codec). TLC checks them. `PROJECT.json` lists:

- the components;
- the runs, with their properties and mutants;
- the map from every modelling definition to the source lines it translates;
- the findings;
- the hazards.

## The system

### `Connection` (connection.py)

The connection is driven by an adapter. The adapter owns the socket, calls
`_on_connected`, hands received bytes to `on_data_available`, and reports a
lost socket through `_on_connection_closed(from_adapter=True)`.

The connection's state:

- the flags `open`, `closing` and `closed`;
- the `_channels` dict;
- the negotiated `state.channel_max`.

All control flow goes through a callback registry,
`callback.CallbackManager.instance()`. This registry is one object per
*process*, and entries are keyed by (channel number, method or event name).

The operations:

- **Handshake.** `__init__` registers the user's `on_open_callback` under
  `_on_connection_open`, and the reconnection strategy's hook under
  `_on_connection_closed`. `_init_connection_state` registers
  `_on_connection_start` under Connection.Start. `_connect` connects, and
  `_on_connected` sends the protocol header. The chain is Start → `_on_connection_start`
  (sends StartOk, registers Tune) → Tune → `_on_connection_tune` (sends TuneOk,
  rpc Open) → OpenOk → `_on_connection_open`. The last step registers
  `_on_remote_close` under Connection.Close, sets `open`, and runs the
  `_on_connection_open` callbacks, whatever `closing` says. The model's
  user on_open callback does what pika's examples do: it opens a channel.
- **Channels.** `channel()` registers `_on_channel_close` under
  Channel.CloseOk and adds a Channel (which sends Channel.Open).
  `_next_channel_number` picks the next number.
- **Close.** `close()` does three things:
  - it removes the reconnection strategy's hook;
  - it closes every channel;
  - when no channel is left, it calls `_on_close_ready`, which sends
    Connection.Close by rpc.

  CloseOk → `_on_connection_closed` sets `closed`, runs the
  `_on_connection_closed` callbacks, and disconnects. `_on_channel_close`
  calls `_on_close_ready` when the last channel goes.
- **Remote close.** `_on_remote_close` calls `close()`.
- **Reconnect.** `reconnect()` either registers `_reconnect` as a persistent
  close callback or calls `_reconnect` at once. `_reconnect` calls
  `_init_connection_state`, then `_connect`.

- **Tune.** `_on_connection_tune` combines the client's and the broker's
  channel_max, frame_max and heartbeat with `_combine` (0 means "no
  preference"; otherwise the smaller wins). It creates a `HeartbeatChecker`
  when the heartbeat is not 0.
- **Content.** `send_method` sends the method frame. For a
  `(properties, body)` tuple with properties it then sends a content header
  carrying the body length. Any body goes out in pieces of
  `frame_max - 8` bytes.
- **Heartbeat.** `on_data_available` adds every consumed byte to
  `bytes_received`. The checker compares that counter between its timer ticks.

### The field-table codec (table.py)

`encode_table` appends the pieces of a dict to a list, with a placeholder for
the u32 length, and returns the number of bytes plus 4. `decode_table` walks
the bytes and returns the dict together with the offset after it. The two
functions are recursive through nested dicts and arrays of dicts.

### Outside `src/`

`callback.py`, `channel.py`, `codec.py` and the heartbeat checker are not in
the sources. Where the model needs them, it follows the spec (`spec.md`). The
map marks these definitions `spec_modelled`.

## Modules

### `CallbackRegistry.tla`

The registry as a value: a function from (prefix, key) to a sequence of
entries. An entry names the connection and handler and records one-shot or
not. The operators are `add` (which skips a duplicate callable), `remove`
and `pending`. This module is spec-modelled.

### `AMQPConnection.tla`

The connection engine, for a set `Conns` of connections that share one
registry.

**State.** Each flag of the code is a variable (a function over `Conns`), and
`channels` maps a channel number to its state. The model also has:

- the broker's protocol state;
- frame queues in each direction;
- ghost variables for the properties: `closeSent`, `closeCalled`,
  `rsNotified`, `berr` (the broker saw a protocol error) and `fault` (the
  KeyError at line 605).

**Handlers as functions.** Every handler is a function from a record of all
variables to a new record. This lets a chain the code runs synchronously
happen in one atomic step, as it does in the code. For example:
`on_data_available` → `process` → `_on_remote_close` → `close` →
`_on_close_ready` → `rpc`.

**Actions.**

- `Receive`: one frame through `on_data_available`.
- `UserChannel`: `channel()` called by the user on an open connection.
  `channel()` itself checks no flag (`OpenChannel`); the call from the
  on_open callback is the handler `OnOpen`, which runs whenever
  `_on_connection_open` does, also while closing.
- `UserChannelClose`: `Channel.close`.
- `UserClose`: `close()`.
- `UserReconnect`: `reconnect()`.
- `NetworkFailure`: the adapter reports a dead socket.

**The broker.** It is the environment and follows AMQP 0-9-1. It answers the
handshake and channel methods. It may force a close or refuse `Connection.Open`
(constants `BrokerMayForceClose` and `BrokerMayRefuseOpen`). After a Close it
discards everything except Close and CloseOk. It drops the socket once it is
closed or closing (this stands for its close timeout). An unexpected frame
sets `berr`.

### `TableCodec.tla`

`encode_table` and `decode_table` as recursive operators over byte sequences.
`struct.pack` and `struct.unpack_from` become `Unsigned`, `Signed` and
`Unpack`, with the range checks that make `struct` raise. Python's clamping
slice becomes `Slice`. `Decimal.normalize` becomes `Normalize`. `Canon` is
Python equality: a dict is compared as a function, and a Decimal by value.

A byte is a digit in base `Base`. TLC's integers cannot hold 256^8, so the
model uses `Base = 8`. The widths in bytes, and the signed and unsigned
boundaries relative to them, are the code's.

### `MCTableCodec.tla`

The harness:

1. choose a table from a pool;
2. `Encode` it;
3. `Decode` the bytes.

The pools hold values at and past the edges of every width: 0,
Base^4 − 1, Base^4, Decimals that need normalizing or overflow, nested dicts
and arrays.

**History.** `userClosed[c]` records that the user's last call was
`close()`. `UserReconnect` clears it.

**Refinement.** `Lifecycle(c)` maps the flags `closing`, `open` and `closed`
to one of four abstract states. `Abstract` is `ConnectionLifecycle`
instantiated with this mapping, and `Refinement == Abstract!Spec` is checked
as a temporal property.

### `ConnectionLifecycle.tla`

The abstract promise of a connection: closed → opening → open → closing →
closed. Opening may also go straight to closing or closed (a close in the
handshake, a refused Open, a lost socket). Open may go straight to closed
(a lost socket). One step of the concrete model may move several connections,
because the shared registry runs handlers of two connections in one step.

### `MCAMQPConnection.tla`

It adds `ConnectsBound`, a state constraint that bounds the reconnects.

### `ContentFragmentation.tla`

Pure operators:

- `Combine` is `_combine`.
- `StateTuneFrameMax` is the spec's clamp of a non-zero frame_max to at least
  4096, applied by `ConnectionState.tune`.
- `MaxPiece`, the recursive `Loop` and `BodyPieces` are the body loop of
  `send_method`.
- `SendMethodFrames` is the whole of `send_method`: it returns the frames
  sent, as records of type, channel and size.
- `SuggestedBufferSize` is `suggested_buffer_size`.

`ReferenceSplit` is the reference definition: ceil(len / (frame_max − 8))
pieces, all full except the last.

### `MCContentFragmentation.tla`

A harness with three phases:

1. `Tune` combines a client frame_max with a broker frame_max.
2. `SendMethod` sends one content: no content, a bare body, or a tuple with
   or without properties, for each body length of the pool.
3. If the piece size is not positive, the loop of the code never ends. The
   harness records this as the phase "loop" and does not unroll it.

### `Heartbeat.tla`

The heartbeat checkers of one connection across reconnects. A checker is
named by the transport it was created on. Frames stand in for bytes: every
handshake receives the same three frames, Start, Tune and OpenOk.

- `HandshakeFrame` is `on_data_available` during the handshake. The Tune
  frame's handler creates the checker and stores it in `self.heartbeat`.
- `DataArrives` is a frame consumed on an open connection, which increments
  `bytes_received`.
- `Reconnect` is `_reconnect`. `_init_connection_state` zeroes
  `bytes_received` and sets `self.heartbeat = None`, but nothing stops the old
  checker's timer.
- `Tick(i)` is checker i's `send_and_check`, in the order
  `test_send_and_check_missed_bytes` pins:
  1. When its stored idle count has reached `MAX_IDLE_COUNT` (`IsStale`),
     it tears down the connection's transport, whichever that is now, and
     returns.
  2. Otherwise it compares the counter with its snapshot, counts the idle
     interval or resets the count (`IdleCount`, `UpdateCounters`), and sets
     its timer again, but only while it is still the connection's checker
     (`Rearms`, the unit tests' `active`).
- The ghosts are:
  - `silent[i]`: ticks since a frame arrived on checker i's transport;
  - `torn`: the (checker, transport) pairs of teardowns.

`heartbeat.py` is not in the sources, so `Tick` follows the checker's unit
tests in `src/tests/unit/heartbeat_tests.py`. Where they and spec section
4.6 disagree (the spec updates the count before testing it), the tests win.

## Runs

| run | checks | result |
|---|---|---|
| lifecycle | TypeOK, ProtocolRespected, CloseAfterChannelsClosed, OpenAgreesWithBroker, CloseCompletes, Refinement, HandshakeTerminates | pass |
| channel_limit | ChannelNumbersWithinMax | violated |
| close_in_handshake | NothingSentAfterClose | violated |
| remote_close | BrokerCloseAnswered | violated |
| two_connections | OpenAgreesWithBroker | violated |
| table_roundtrip | RoundTrip, LengthAccounting | pass |
| negative_decimal | RoundTrip | violated |
| close_final | UserCloseIsFinal | violated |
| fragmentation_split | FragmentsMatchReference | pass |
| frame_max_zero | MaxPiecePositive | violated |
| heartbeat | TypeOK, DetectedInTime, DeadPeerDetected | pass |
| stale_checker | TearsDownOwnTransport | violated |

### lifecycle

One connection, two channel numbers, one reconnect and one network failure.
The broker may force a close and may refuse Open. Over everything the user,
the broker and the network can interleave, the run shows that:

- the client never sends a frame the broker does not expect at that point,
  and no frame for an unknown channel reaches it;
- Connection.Close goes out only after every channel that `close()` closed
  has confirmed its Channel.Close, through `close()` and
  `_on_channel_close` over several channels;
- `open` implies the broker has opened the connection;
- every close eventually completes;
- the flags always follow the abstract lifecycle (`Refinement`);
- every handshake ends in open or closed (`HandshakeTerminates`). This
  includes a refused Open, a broker Close before OpenOk, which the client
  drops (the broker's socket timeout ends it), and a user's close or
  reconnect in the middle.

### Violation runs

- **channel_limit:** `_next_channel_number` allocates max+1 beyond a
  channel_max of 2, after a channel was closed.
- **close_in_handshake:** `close()` while Tune is in flight is followed by
  TuneOk and Open after Connection.Close.
- **remote_close:** an open connection that receives the broker's
  Connection.Close runs `_on_remote_close`, which calls `close()`: the trace
  sends Channel.Close for the channel the on_open callback opened, and
  never Connection.CloseOk, which spec section 4.4 requires.
- **two_connections:** the singleton registry lets connection c1's Start
  frame run c2's `_on_connection_start`, so c2 ends up `open` while its
  broker is not.
- **close_final:** the user closes during the handshake and calls
  `reconnect()` while closing. This registers `_reconnect` as a persistent
  close callback. Later, the user reconnects and closes again, and the same
  callback reconnects a second time. A user's close is not final.

### table_roundtrip

Every table that `encode_table` accepts decodes to an equal dict and ends
exactly at the end of the bytes. The return value equals the number of bytes
written, in every nested table as in the outer one. The run covers 576
tables.

### Table violation runs

- **negative_decimal:** the mantissa is packed signed and unpacked unsigned.

The codec's other divergences from the spec (an int outside 0..2^32−1 is
rejected; an array of scalars is rejected) are listed as hazards in
`PROJECT.json`, without a run.

### fragmentation_split

For every client frame_max in {0, 9, 4096, 131072} and broker frame_max in
{0, 100, 4096, 5000} whose combination is not 0, and for every content
shape, the run checks that the body frames match the reference split.

The body lengths 0, 1, 4088, 4089, 8176 and 10000 are at and one past the
piece boundaries for frame_max 4096.

### Fragmentation violation runs

- **frame_max_zero:** neither side sets a frame_max, so the negotiated
  frame_max is 0 and `max_piece` is −8. The spec says 0 means 131072.

A content that is not a tuple is sent without a content header. This is
listed as a hazard, without a run.

### heartbeat

Over every interleaving of frames, timer ticks and one reconnect:

- after 2·MAX_IDLE_COUNT silent ticks, a checker has declared its transport
  stale (`DetectedInTime`);
- under weak fairness of the timers, a peer that stops sending on the
  current transport is always detected.

### stale_checker (violated)

In this trace the first transport's checker has counted MAX_IDLE_COUNT idle
intervals during a stalled handshake, and the connection reconnects before
its next tick. That tick tears down the new, healthy transport. An old
checker with fewer idle intervals gets there too: the new handshake brings
`bytes_received` back to the value of its snapshot, so it sees no change. In the code,
`_init_connection_state` drops the checker (connection.py 205) without
stopping it.

## Bounds

- `MaxChannelNumber = 2` allows a channel to be closed and another one opened.
  This is the smallest case in which max+1 numbering differs from reuse.
- `MaxConnects = 2` and `MaxFailures = 1` reach a reconnect after both a
  deliberate close and a lost socket.
- Two connections are enough to show sharing through the singleton registry.
- The table pools put every scalar kind at its width boundary, and nest
  dicts and arrays one level deep. Every recursion path of both functions is
  taken.
- The frame_max and body-length pools are listed under fragmentation_split.
  Every branch of `_combine` and of the clamp is taken, and every body length
  is at a piece boundary.
- In `Heartbeat`, `MaxConnects = 2` gives one reconnect, which is all a
  checker left behind needs. `MaxArrivals = 6` lets data stop during the
  handshake, between any two ticks, and after traffic on either transport.

## Fairness

`Receive`, `BrokerReceive` and `BrokerDropsSocket` are weakly fair. The
adapter's I/O loop delivers every frame it has read, a broker answers, and a
broker closes a socket after its close timeout. Users and the network get no
fairness, since they may never act.

In `Heartbeat`, every checker's `Tick` is weakly fair, because the adapter's
timer calls `send_and_check` while the checker's timer is set. `DataArrives` gets no fairness:
a dead peer sends nothing.

## Mutants

Each property of a passing run has a mutant of the code: a plausible bug that
the run catches. `PROJECT.json` lists them.

## Not modelled

- **on_open while closing.** `close()` between Connection.Open and OpenOk
  leaves `closing` set; OpenOk still sets `open` and runs the on_open
  callbacks, and a channel opened there sends Channel.Open after
  Connection.Close and stays in `_channels`. The model reaches this (it is
  why `CloseAfterChannelsClosed` speaks of the channels `close()` closed),
  but no run shows it as a violation: the spec does not say what OpenOk does
  in Closing, and every run slot is taken.
- **Early stale.** Because `send_and_check` tests its stored count first, a
  checker can close a connection after a frame arrived: three ticks without
  a frame during the handshake, then OpenOk, then a tick that closes. Spec
  sections 4.6 and 8 close only after MAX_IDLE_COUNT consecutive idle
  intervals. No run is left for it.
- **Truncated tables.** `decode_table` decodes a truncated buffer without an
  error (the slices clamp) and returns an offset past the end of the bytes,
  which no caller in the sources checks. No run shows it.

- **Heartbeat frames.** The model leaves out the heartbeat frames the checker
  sends and their bytes in `bytes_sent`. No decision of the checker depends
  on them.
- **The strategy hook after `close()`.** `close()` removes the reconnection
  strategy's hook under a misspelled key (line 436). `AMQPConnection` models
  the hook calls (`rsNotified`), but no run checks them.
- **I/O and data.** `add_timeout`, `flush_outbound`, `erase_credentials`, the
  adapter's `connect` and `disconnect`, and `ConnectionParameters` are I/O
  stubs or plain data. The map leaves them out, together with the licence
  header and the imports, which is most of the remaining 30% of
  `connection.py`.
- **Outside `src/`.** `codec.py`, `channel.py`, `callback.py` and
  `heartbeat.py` are not in the sources. The model follows the spec only
  where `connection.py` depends on them: frame sizes, the frame_max clamp,
  the Channel open and close methods, the registry's contract, and
  `send_and_check`. Their other operations cannot be modelled from this
  repository.
- **Lossy delivery.** Frames on a socket are neither lost nor reordered:
  the transport is TCP. A socket that fails drops every frame in flight,
  which `NetworkFailure` models.
- **Codec divergences without a run.** The 12 runs are spent on the
  connection's findings. Three divergences of the codec and of
  `send_method` from the spec are therefore hazards without a run:
  - an int outside 0..2^32−1;
  - an array of scalars;
  - a body sent without a content header.
