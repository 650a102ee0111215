# A TLA+ model of zeroio (FlexiMQ)

This directory holds TLA+ modules that model the messaging library in `src/`,
the TLC configurations that check them on small instances, and TLAPS proofs of
the main results for every value of the constants. `PROJECT.json` maps every
definition to the lines of code it stands for.

    tlc -workers 2 -config MCFramedStream.cfg MCFramedStream
    tlapm FramedStreamProofs.tla

## 1. The system

zeroio is a Rust workspace. Applications exchange *messages* (base header,
MessagePack header, payload) over *transports* (TCP, IPC, WebSocket, stdio, an
in-process channel).

| Component | State | Operations | Interacts through |
|---|---|---|---|
| `protocol/types.rs`, `parser.rs`: base header and `MessageParser` | a byte buffer, two limits | `push_data`, `try_parse`, `parse_all`, `clear` | called by the codec, or directly |
| `protocol/codec.rs`: `MessageCodec` (`MessageEncoder`/`MessageDecoder` are the same code) | its parser, `max_frame_size` | `encode`, `decode` | driven by tokio-util's `Framed` over any transport stream |
| `protocol/message.rs`: `Message` | raw bytes, three once-cells | `header`, `payload`, `payload_as`, `clear_cache`, `create_response` | shared between threads by reference |
| `protocol/builder.rs`, `validate_message_structure` | a header under construction | constructors, setters, `build` | its result is serialized and sent |
| `transport/manager.rs`: `TransportManager` | registry of transports, LRU cache of statistics | `register_transport`, `connect`, `cleanup_expired_entries`, `clear_cache` | called by many tasks; two locks per `connect` |
| `transport/channel.rs`: `chan://` | a global map from names to waiting endpoints | `connect`; read, write, `close`, shutdown, drop | callers meet through the map |
| `transport/tcp.rs`: `FramedTransport` | none besides the socket | `read_frame`, `write_frame` under timeouts | the peer's calls, through the byte stream |
| `transport/tcp.rs`, `ipc*`, `websocket.rs`: listeners and connections | sockets, a socket file, a handshake in progress | `connect`, `listen`, `accept`, `close`, drop | the queue of the operating system, and the file a path names |
| `transport/websocket.rs`: `WebSocketTransportStream` | the WebSocket | `poll_read`, `poll_write`, `poll_flush`, `poll_shutdown` | the peer's messages; the waker of the reading task |
| `transport/stdio.rs`: `StdioTransportStream` | two pipes, a child process | `connect`, read, write, `close`, drop | the child |
| `peer/`: `Peer`, `Server`, `Client` | `Arc<RwLock<Framed<..>>>` | `from_stream`, `split`, `send_message`, `receive_message`, `disconnect` | handles share one stream and its lock |
| `peer/server.rs` routing, `extract.rs`, `broker`, `fleximq` | - | declarations and stubs | - |

What makes it hard:

* *Fragmentation.* A transport cuts the byte stream anywhere; the codec keeps
  two buffers (Framed's and the parser's) and has to agree with itself on where
  messages begin, through errors and a stream that ends in the middle.
* *Two critical sections where one was meant.* `connect` of the manager locks
  the statistics, awaits the network, and locks them again; `connect` of the
  channel transport looks under one lock and parks under another.
* *Errors that are not the end.* After an error Framed answers `None` once,
  which `receive_message` reports as `ConnectionClosed`; a read or write of a
  frame that fails leaves the stream inside the frame.
* *Cancellation.* Any future can be dropped at an await: by the timeouts of the
  TCP frames, or by an application around `send_message`.
* *A lock held over awaits.* `receive_message` waits for the network with the
  lock of the stream that both handles need.
* *Lazy state shared by threads*, one cell of which does not know its type.
* *Messages taken for bytes.* A WebSocket delivers messages and a reader's
  buffer has a fixed room; what the adapter swallows (pings, empty messages)
  decides whether the reader is woken again or believes the stream has ended.
* *Files named by their path.* An IPC listener unlinks and binds in two steps,
  and removes at `close` what is at its path then; several URLs spell one path.
* *A child that must not outlive its stream.* `close` takes the child out of the
  stream before it waits, and can itself fail or be dropped.
* *Rules checked in one place only.* `build` validates; `RawMessage::new`,
  `with_status`, `create_response` and the receiving side do not, and
  serialization drops what is `None`.

Section 7 lists what is left to do;
`hazards` in `PROJECT.json` lists every such place with its line and the
properties aimed at it.

## 2. Modules

| Module | Models | Used by |
|---|---|---|
| `ProtocolFraming` | lengths, limits, `push_data`'s and `try_parse`'s decisions, as operators | `FramedStream`, `ParserState` |
| `FramedStream` | a sender's `encode`, the transport, `Framed` and `decode` | `FramedStreamProofs` |
| `MessageChannel` | the abstract promise of a framed stream | `FramedStream`, `SharedStream` (refinements) |
| `ParserState`, `MessageParser` | the parser without a codec: its state and promises, and its behaviour | `FramedStreamProofs` |
| `LazyCells`, `LazyMessage` | the once-cells of one `Message`: state and promises, behaviour | `MessageBuilderProofs` |
| `MessageBuilder` | building, validating, sending, forwarding, answering | `MessageBuilderProofs` |
| `TransportManager` | registry and statistics | `TransportManagerProofs` |
| `ChannelRegistry` | `chan://` connects and the streams they return | `ChannelRegistryProofs` |
| `TcpFrames` | `read_frame`/`write_frame` under timeouts | `TcpFramesProofs` |
| `SharedStream` | two ends, each with the handles of a `Peer` | `SharedStreamProofs` |
| `WsStream` | one direction of a WebSocket stream, with the reader's task and waker | `WsStreamProofs` |
| `Listeners` | listeners and clients of TCP, IPC and WebSocket | `ListenersProofs` |
| `StdioState`, `StdioChild` | a stdio stream, its pipes and its child: state and promises, behaviour | `ChannelRegistryProofs` |

`MC*` modules give constants their values; they contain no behaviour.

Three proof modules hold the proofs of two components. The second component's
state and promises are in a module of their own (`ParserState`, `LazyCells`,
`StdioState`), which the proof module extends; its behaviour is taken with
`Parser == INSTANCE MessageParser`, `Cache == INSTANCE LazyMessage`,
`Stdio == INSTANCE StdioChild`, constants and variables standing for themselves.

### State and actions

**ProtocolFraming.** Bytes are counted. A frame is what its base header
announces (`header`, `payload`) and whether that base header parses (`known`:
version and type are accepted by `from_bytes`). Both buffers of a receiver hold
consecutive bytes of the stream, so a pair of positions describes each.

**FramedStream.** `wire` is the sequence of frames encoded so far, with their
offsets; `sent >= received >= pushed >= consumed` are the positions up to which
bytes were transmitted, read into Framed's buffer, moved into the parser's
buffer, and taken out as messages. `Send` is `encode` with its size checks;
`Close` ends the stream, cleanly or by a reset, possibly inside the last frame.
`DecodeMessage`, `DecodeNone`, `DecodeRejects` (refused before `src` is moved)
and `DecodeFails` (refused by `try_parse`, after) are the four outcomes of one
call of `decode`; `ReadBytes`, `ReadEof`, `ReadError`, `PollErrored` are
`Framed::poll_next` around it, with its flags `is_readable`, `eof`,
`has_errored` (external). A reader may go on polling after an error, as a
`Stream` allows.

**MessageParser.** The same positions without Framed (`taken <= fed`, in
`stream`), and the four methods of the parser in any order. `parse_all` is one action: it takes whole messages
until one is incomplete or over a limit, and in the second case it returns the
error and drops what it took.

**LazyMessage.** `cell` and `typed` are the three once-cells. A parsed object is
identified by the count of parses that produced it; `held` are the references a
thread still has. `get`, `get_cached`, `try_init`,
`init_ok` and `init_err` are `get_or_try_init`; the `as_` actions are the steps
of `payload_as`: look, decode, set, read back. `clear_cache`
takes `&mut self` and is possible only when no reference is out.

**MessageBuilder.** A header is its routing entries (client id or none), its
correlation, and which other fields are present. Each constructor, setter,
`build_ok`, `build_err`, `create_response`, `response_from_request`,
`with_status` and the transmission is an action; the JOIN of `Peer::from_stream`
is one of the constructors. What no builder made is there too: `new_raw` is
`RawMessage::new` with any message of `Others`, and `receive` hands over one
that another implementation sent, with a header that can be read or not.
`HeaderReadable` is what serialization does to an optional field: structs are
written positionally, so a `Routing` whose `client_id` is skipped comes out one
element short and cannot be read. `unchecked` is history: which of the ways
around the validation the message to be sent has taken.

**TransportManager.** `connect_begin` (the first lock: `track_attempt_hit` or
`track_attempt_put` with its eviction), `find_transport_for_url`, and
`connect_success` (the second lock: `track_success`) or `connect_failure` are
separate actions of a task, because the lock is released between them. The LRU order is a relation `newer` on the cached URLs. Time is a
counter; `wins_before` is history, for `CountExact`.

**ChannelRegistry.** `connect_take` or `connect_miss` is the first critical
section, `connect_park` the second. A duplex is named after its creator; bytes
are counted per endpoint. `close` clears a flag and does nothing else, as in
the code; `poll_shutdown` and `drop` end the direction. `overlap` is history:
which connects missed while another was between its two sections.

**TcpFrames.** A frame is a prefix and data at an offset of the stream;
`write_frame` begins one, `poll_write` writes any number of its bytes, and the
write timeout or an error gives it up. A read passes through `"prefix"` and
`"data"`; the read timeout, the end of the stream, an error or a refusal end it
wherever it is. `socket` says whether the writer has shut it down, or it was
reset: from then on any read or write may fail, and nothing has to arrive. A
prefix that is read at an offset where no frame begins is an arbitrary length.
`cut` is history: some call has ended inside a frame.

**SharedStream.** Each end has up to three handles (`peer`, or `server` and
`client` after `split`), a lock with its FIFO queue, Framed's write buffer, and
the transport's pipe with room for `Window` messages. `send_message` and
`receive_message` queue, `acquire`, run and release; `cancel` is the drop of
their future at any await: it releases the lock and leaves a message that was
already encoded in the write buffer. `receive_err` is an error of the codec or
the transport, with which any part of what was on the way is lost; it sets
Framed's `has_errored`, and the next call takes the `None` that follows
(`receive_none`) for the end, as `lib.rs:72` does, with the other end alive or
not. `receive_closed` is the `None` of a real end. `disconnect` drops one
handle; the last one closes the stream.

**WsStream.** `sent` are the messages written, with their offsets in the bytes
written; `flushed` of them are in the socket and `taken` were returned by the
socket's `poll_next`. `poll_read` has one action per arm of its match: pending,
data that fits, data that does not (`put_slice` panics), close, error, and
everything else, which answers `Pending`. The reader's task is `"ready"` or
`"asleep"`; the socket keeps its waker only where it found no message, and calls
it once.

**Listeners.** A behaviour is of one transport. `owner` says who is behind an
address: a listener, nobody, or a socket file without a listener. `listen` of
IPC is two steps, `listen_unlink` and `listen_bind`; of the others one.
`parse_path` and `normalize_path` map the spellings of a URL to a path; the
address of the other transports is the URL's host and port. A
connection waits in the queue of the operating system until `accept` takes it;
a WebSocket `accept` then awaits the handshake (`setup`). The handshake fails
when the client leaves, and also when the client stays and what it sends is no
handshake (`Foreign`: a `tcp://` client on that port); a client that sends
nothing (`Mute`) holds it for ever, and the future of `accept` can be dropped
there (`cancel`). `close` of an IPC listener removes the file, of the others it
does nothing. `overlapped` and `dropped` are history.

**StdioChild.** `closing` is the step of the call of `close` in progress, which
is one action per await (`close`, `close_take`, then
`wait_ok`, `wait_err` or `timeout`, then `kill` or `kill_err`), and `cancel` is
the drop of its future at any of them. `handle` says whether the stream still
holds the child; `cutShort` is history: why a child was let go. The child reads
a byte, answers it, and blocks when its output is full.

## 3. Runs

Passing runs. Where the type invariant, or an invariant that serves another
one, is proved (section 4), the run does not repeat it.

| Run | Instance | Shows |
|---|---|---|
| `framed_stream` | messages of 5 kinds (smallest, at the limit, over each limit, unparsable), up to 3 of them | messages in order and once (`ImplementsChannel`); the reader waits only when it holds no whole message; at a clean end every whole message was delivered unless an unparsable one came first (`CompleteAtEnd`); an error has a lasting cause; and everything transmitted is delivered in the end (`EventuallyDelivered`) |
| `message_parser` | 4 kinds, up to 4 messages, one `clear` | messages leave the buffer whole and in order under every mix of `try_parse` and `parse_all`; a message is lost only in front of an over-limit frame, and then the parser is stuck there (`LossIsTerminal`) |
| `lazy_message` | 2 threads, 2 types, 2 calls each, 1 clear | references stay the content of their cell; a panic needs two types |
| `message_builder` | 2 clients, 2 correlation ids, 5 routing vectors; 8 messages that were not validated: requests without a route, with several, with a topic, without a correlation or with an answer's, and a malformed PUBLISH | what is sent breaks the rules of its type only by one of three ways around the validation; the answer to any request names its sender first and carries its id, and can be read when the request had one route |
| `transport_manager` | 2 tasks, 3 URLs, cache of 2, 3 transports, clock to 2 | counts exact, removals justified by age and order of use |
| `channel_registry` | 3 callers, 2 names, duplexes of 1 byte, one caller with 2 bytes to write | halves neither shared, lost nor mixed up; two endpoints wait under one name only after overlapping connects; bytes exact, the end after them; a drop reaches the other side |
| `tcp_frames` | 2 frames of 0 to 2 bytes with a prefix of 2, of which the reader accepts up to 1; misread lengths to 3; timeouts, a shutdown and a reset at any byte | frames whole, in order and eventually, until a call ended inside a frame (or, for "eventually", the connection was reset) |
| `shared_stream` | 2 ends, 2 messages to the one and 1 to the other, a pipe of 1; the first can split, and may meet errors of its stream | messages in order and once under any cancellation and error; each direction is a message channel, which gives nothing after an error or its end was reported (`ImplementsChannels`); `ConnectionClosed` with no error before it comes after everything acknowledged; a call is held up only by a handle of its own end that waits for an existing peer |
| `ws_stream` | 3 messages of 0 to 3 bytes of every kind and a close, buffers with room for 2 or 3 | bytes exact; the reader stops for a close, an empty message, a failure or a message that does not fit; a wakeup is lost only behind a ping or pong, and otherwise data arrives |
| `listeners` | TCP, IPC and WebSocket; 2 listens and 3 clients at one host and port, or on one path spelt in three ways, 1 invalid listen; a client that sends nothing and one that sends no handshake; a queue of 2 | a live listener is cut off only on IPC and only by another at its path; `listen` on IPC fails only in a race; a connection is in one place and at its address; a client that stays is accepted whatever fails, leaves or is dropped around it; queued ones are served unless a mute handshake is in front |
| `stdio_child` | pipes of 2 bytes, a child that may be stubborn, a runtime whose shutdown does or does not close the pipe | a child is left behind only by a dropped or failed `close` or a drop without one; `Ok` means exited, with one exception; `close` returns; a drop reaches the child |

The run that finds a disagreement between a doc and the code:

| Run | Says | The code |
|---|---|---|
| `channel_race` | `channel.rs`: "the second caller receives the other end of the existing channel" | two overlapping callers both park and are never connected |

Other differences have no run of their own; they are the exceptions that the
passing properties name:

* `errors.rs`: "Message size {size} exceeds maximum {max}" is also the answer
  when every message is within the maximum: `push_data` adds a chunk that ends
  one message and begins the next to what is buffered (`FailureCause`, first
  case).
* `Peer::from_stream` promises a connection: `peer.rs` calls it "Connects to a
  transport stream", the builder "Create a peer and connect to a broker". It
  gives its JOIN a correlation, which validation forbids, so `build` refuses the
  JOIN on every connection and `from_stream` never succeeds (the theorem
  `PeerJoinRefused`). `simple_broadcast` sets a topic, which validation forbids
  for a broadcast.
* `ConnectionClosed` is also what `receive_message` answers after an error, with
  the other end alive and messages unread (`receive_none` in `SharedStream`;
  `ClosedIsComplete` holds only where no error was reported before).
* The answer of `create_response` to a request with several routes has as many,
  which validation forbids for a RESPONSE; `with_status` gives a status to
  messages that may have none; `RawMessage::new` validates nothing, nor does a
  receiver (the exceptions of `SentValid`).
* `traits.rs`: "Read a complete binary frame". After a timeout, an end, an error
  or a refusal inside a frame, the next call takes data for a length (`FramesIntact`:
  until `cut`).
* `README.md` of the protocol lists PING (8) and PONG (9); `from_u8` does not
  know them, `try_parse` answers "wait for more data", and nothing behind such a
  message is delivered (`EventuallyDelivered`, `CompleteAtEnd`: "unless a base
  header before it does not parse").
* `parse_all` "returns all complete messages found", but drops those it has
  taken when a later frame is over a limit (`LossIsTerminal`).
* `payload_as` expects "the payload is always of the type T" and panics for a
  second type that also decodes (`PanicNeedsTwoTypes`).
* `receive_message` waits with the lock, so a send of the other handle is
  neither sent nor refused until the peer sends something (`CallsProceed`).
* `build` accepts a request routed without a client id, whose header cannot be
  read (`Route` and `HeaderReadable` in `MessageBuilder`).
* `ChannelStream::close` does not end the channel; dropping does
  (`DropReachesPeer`).
* `read_frame` compares the length of a frame with the seconds of its read
  timeout (`length_refused` in `TcpFrames`).
* A ping or pong makes the WebSocket `poll_read` answer `Pending` without a
  registered waker: data behind it is not read until something else polls the
  task (`NoLostWakeup`, `Forgotten` in `DataArrives`).
* A WebSocket message longer than the reader's buffer panics, and an empty one
  is taken for the end of the stream (`StopsForCause`).
* `traits.rs` says that `close` of a listener stops it "from accepting new
  connections"; TCP and WebSocket listeners go on until they are dropped
  (`close_tcp`), and an IPC listener removes the file at its path, which may be
  another's (`CutOffOnlyByOthers`).
* One client that never answers the WebSocket handshake holds up every later one
  (`QueuedIsServed`), and a timeout around `accept` loses the client it was busy
  with (`StayingIsAccepted`); TCP and IPC lose none.
* A second `close` of a stdio stream whose first one was dropped or failed
  returns `Ok` with the child still running (`OkMeansExited`).
* The comment on `StdioTransport::connect` promises `InvalidUrl` without a
  command; the code takes the standard streams of its own process
  (`new_from_self`).

### Bounds

Lengths matter only relative to the limits and to the base header, so a base
header of 2 bytes still has a buffer that ends inside it, and a limit of 4 has
messages below, at and above it. Three messages are enough for one to be in
front of, at, and behind an error. The LRU cache needs one URL more than it has
places; the channel registry needs a third caller for two that race and one
that comes late, and a writer with more bytes than the buffer. Two TCP frames
let the second be misread because of the first. WebSocket buffers of two sizes
make messages that fit one and not the other, and three messages put a control
message between two others. Two listens are enough for every race on a path;
the third, invalid one and the clients with other spellings exercise
`parse_path`. A client of each kind (one that shakes hands, one that is silent,
one that talks nonsense) can stand in front of, and behind, each other. Errors
of a shared stream are looked at from one end, and the split too, so that both
directions have one end with two handles. One unvalidated request per way of
being wrong, with the ids of its class distinct, is enough for an answer to take
the wrong one. Pipes of 2 bytes block a child that still owes an answer. Bounds
are constants (`Max...`) and appear only in guards; `CHECK_DEADLOCK FALSE` stands where they, or a system
that really may stop (everything dropped, everything waiting), end behaviours.

### Fairness

* `FramedStream`: weak fairness of the reading task's poll. An executor polls a
  woken task, and the transport wakes it for bytes and for the end. No fairness
  of the sender.
* `ChannelRegistry`: weak fairness of reading endpoints (woken by the duplex)
  and of `connect_park` (no await between the two sections). Nobody has to
  connect, write or drop.
* `TcpFrames`: weak fairness of the reader that calls `read_frame` in a loop;
  nothing has to time out, end or fail.
* `SharedStream`: weak fairness, at each end, of the call that can go on; the
  lock leaves at most one. No call has to begin, to be cancelled or to fail.
* `WsStream`: weak fairness of `poll_read` of a task that is ready; none of the
  sender, and none of a wakeup for another reason.
* `Listeners`: weak fairness of `accept` per listener, because the servers of the
  examples call it in a loop. No client has to connect, answer or leave.
* `StdioChild`: weak fairness of the steps of `close` that need no one else
  (`close_take`, `timeout`: the timer fires, `kill`: the signal is delivered) and
  of a child that can read, write or see the end of its input. It never has to
  exit on its own.

## 4. Proofs

TLAPS checks the following for all constants that satisfy the named assumptions
(`LimitsAssumption`, `StreamAssumption`, `ParserAssumption`,
`ManagerAssumption`, `ChannelAssumption`, `ListenersAssumption`,
`LazyAssumption`, `BuilderAssumption`, `CapacityAssumption`,
`WsAssumption`, `TcpAssumption`: naturals, disjointness of the special values, a
finite set of URLs, unvalidated messages that are messages). The proofs about `SharedStream` need no assumption on its
constants. Each module proves `Init => IInv`, one lemma per action, and reads
the properties off `IInv`.

* **FramedStreamProofs.** `TypeOK`, `BufferBounded`, `WaitsOnlyForBytes`,
  `CompleteAtEnd`, `FailureCause`, and the refinement `ImplementsChannel`. The
  properties speak of the head of the parser's buffer, and say nothing of where
  in the stream it is. `IInv` adds `Layout` (frames lie end to end from offset 0
  to `sent`), `Aligned` (the delivered messages are a prefix of `wire`, and the
  buffer begins where the last one ended) and `EndState` (how the flags of
  Framed go together). From these, `HeadIsNextFrame`: the frame at the head of
  the buffer is the one after the last delivered, hence appending it is the
  abstract channel's step.

  Its second half is the parser used directly: `TypeOK`, `ReturnedInOrder`,
  `LossIsTerminal`. `ParserIInv` adds `EndToEnd` and `Split`: the parser has split
  off k messages, and either returned all k or has an over-limit frame at its
  head. `ErrorStays` shows why the second case lasts: neither more bytes nor more
  messages behind that frame change what `try_parse` answers. In `parse_all`, a
  message can be taken only if the parser was not in that case before.
* **TransportManagerProofs.** `TypeOK`, `WithinCapacity`, `RecencyIsTime`,
  `CountExact` and the action property `RemovalJustified`. `IInv` adds that the
  recency relation is a strict total order on the cached URLs that agrees with
  the time stamps, and that no stamp is in the future: without it an entry
  touched now could be older than one touched before. The lemmas on `Touched`,
  removal and insertion carry it through eviction.
* **ChannelRegistryProofs.** `TypeOK`, `HalvesConserved`, `OnlyRacesPark`,
  `ReadsWhatWasWritten`. `IInv` says where halves are: one that waits is the
  second of a duplex whose creator has the first (`Slots`), and a duplex whose
  second half does not wait has exactly one taker (`Takers`). `Races`: whoever
  found nobody waiting has met all that wait now, which is what makes two waiting
  endpoints the work of a race. `Quiet`: before both sides have their halves
  nothing is read and at most a buffer is written.

  Its second half is the stdio stream: `TypeOK`, `NoOrphan`, `OkMeansExited`.
  Neither of the two is inductive: a `close` that begins when the child is gone
  must find a cause left by an earlier one. `StdioIInv` adds `StdioReleased`: once a cause is
  recorded the child is neither in the stream nor in a `close`, and that a
  `close` that still waits has not returned `Ok` before.
* **SharedStreamProofs.** `TypeOK` (the lock has one holder, in a call of its end
  past the queue), `InOrderOnce`, `ClosedIsComplete`, and the refinement
  `ImplementsChannels` of both directions. `IInv` adds, for each direction, that
  what was received, what is in the pipe and, while both ends exist, what is in
  the write buffer are together what was encoded (`Flow`), and that an
  acknowledged message has left the buffer for an end that exists (`Acked`): this
  is what a cancelled `send_message` must not break. An end that has met an error
  drops out of `Flow`: what it has received is still a prefix, and nothing
  follows. The refinement also needs `EndIsFinal`: once the end of a stream
  without errors was reported, the other end is gone and nothing is on the way.
* **ListenersProofs.** `TypeOK`, `CutOffOnlyByOthers`, `BindFailsOnlyInRace`,
  `ConnectionsConserved`. `IInv` has two halves. `FilesInv`: who
  is behind an address listens there, and whoever finds its path taken between
  unlinking and binding has met another listen there (`Unlinked`). `ConnsInv`: the
  places of a connection (queue, handshake, server, lost) exclude each other, all
  its places are at its address, and it is in one exactly if `connect` has
  reached a listener (`OnePlace`, `Arrivals`). The second half needs only
  `OwnersListen` of the first.
* **MessageBuilderProofs.** `TypeOK`, `SentValid`, `AnswersReachRequester`, for
  any set `Others` of messages that nothing has validated. The request that is
  being answered must stay the one received until its answer is sent, and an
  answer must keep its type and its first route through `with_status`; `IInv`
  adds that a builder and a message to be sent are not there together, and that
  `unchecked` is empty when there is none. That the answer to an invalid request
  is valid but for its number of routes is then a matter of `Response` alone.
  `PeerJoinRefused` says that the JOIN of `from_stream` builds for no client id.

  Its second half is the cells of a message: `TypeOK`, `ParsedOnce`, `RefsLive`,
  `PanicNeedsTwoTypes`. `CacheIInv` adds that a thread that parses has found the
  cell empty and is alone, and that the typed cell is full when it is read back.
* **WsStreamProofs.** `TypeOK`, `BytesExact`, `StopsForCause`, `NoLostWakeup`.
  `IInv` adds `Layout` (messages lie end to end, control messages and a close
  carry no bytes, a close is the last message), that the message a reader
  panicked on is still in the socket, and `Asleep`: a sleeping task is known to
  a socket that has nothing for it, or was just given a ping or pong.
* **TcpFramesProofs.** `TypeOK`, `FramesIntact`. `FramesIntact` says nothing of
  a read in progress, so `IInv` adds `Layout` (frames lie end to end, and no two
  begin at one place once they are whole), `WholeFrames` (only the one being
  written may be partial) and `Aligned` (where the reader is in the frame after
  the last returned). `PrefixIsSize` is the heart: at that place the bytes say
  the size of that frame and nothing else.

Only model-checked: the liveness properties (`EventuallyDelivered`,
`DropReachesPeer`, `CallsProceed`, `DataArrives`, `QueuedIsServed`,
`StayingIsAccepted`, `CloseReturns`, `DropReachesChild`, `FramesArrive`), because fairness and
`ENABLED` are beyond this prover. Every invariant, action property and refinement
of a passing run is a theorem.

Two definitions are written for the prover, with the same meaning: a cancelled
call leaves its lock's queue by `RemoveFirst` (a handle waits at most once), and
`ParsesUpTo` says which frames are behind the parser by the set of them rather
than by its cardinality.

## 5. Abstractions

* tokio-util's `Framed`, tokio's `duplex` and `RwLock`, the `lru` and
  `once_cell` crates and sockets are external, modelled by what `src/` relies
  on. A transport delivers what was written before it reports a clean end.
* tungstenite is modelled by what `poll_next` and `start_send` promise:
  messages in order, a waker kept exactly when it answers `Pending`. The
  operating system gives an address to one listener and queues connections up to
  the backlog. Whether tokio's shutdown of a child's stdin closes the pipe is
  left open, and both are checked.
* `SharedStream` works with messages, not bytes, because `FramedStream` shows
  that a framed stream is a channel of messages. An error of receiving lasts,
  apart from the one `None`: what the codec refuses stays at the head of its
  buffers and is refused again (`FailureCause`), and a broken transport delivers
  nothing more.
* A failed `bind` or `create_dir_all` of IPC that has nothing to do with other
  listeners (permissions, a path that is too long, no file descriptors) is left
  out.
* The sum of the three lengths is a natural number; its `u64` wrap-around is not
  modelled (a hazard without a property): no encoder announces such a length.
* Names, topics, credentials, wording of errors, logging and metrics are left
  out. `cache_stats` and the other read-only queries change no state.

## 6. Not modelled

* Socket options, TLS, the Windows pipes: calls into the operating system that
  change no state of the library.
* The loop in `Peer::from_stream` that waits for the answer to JOIN: unreachable
  because the JOIN does not build (`PeerJoinRefused`).
* Server routing, extractors, broker and facade: declarations and stubs.
* `peek_message_info`, `parse_message_bytes`, `TypedMessage`, slices of raw
  bytes: stateless reads.

## 7. Plan

What is left, in this order:

1. Proofs: an abstract `ByteStream` (bytes in order, an end that is reported
   behind the last of them), that a WebSocket stream without control messages
   and the duplexes of `ChannelRegistry` implement it, and that it is what
   `FramedStream` takes its transport to be.
2. `PeerJoin`: the exchange of `from_stream`, once its JOIN builds, composed with
   `SharedStream`: the loop after an end of the stream.
3. Total sizes as `u64`, with wrap-around, as an operator checked against the
   unbounded sum.
