# tntpp: TLA+ models, model checking and proofs

tntpp is a header-only C++20 connector to the Tarantool database on top of boost.asio.
This directory models the part of it that is concurrent (a `Connector` shared by user
threads, its receive loop, and the `Connection` that both use, with its send queue), the
way in (bytes cut into frames in a buffer that users' frames share) and the way out
(requests built by the `Connector` and by `Box`). The models are checked by TLC on small
instances, and the safety properties that hold are proved with TLAPS for every value of the
constants. Paths below are relative to `include/tarantool_connector/`.

## Inventory

| Part | State | Operations | Hard behaviour | What makes it correct |
|---|---|---|---|---|
| `Connector` (`tarantool_connector.hpp`) | `m_s`, `m_requests`, request ids | `connect`, `send_request` (under `ping`, `call`, `eval`, `Box`), `async_auth`, destructor | user threads post lambdas to the strand at any time; the connection breaks between any two of them | every request's handler is called once; a stopped Connector stays stopped |
| receive loop (`Connector::start`) | its position; shares `Internal` with the Connector | reconnect, authenticate, read a frame, deliver it, `reset` | destruction while reconnecting, handlers that throw, resets racing new requests | there is a reader whenever requests are accepted; lost connections come back |
| `Connection::connect` (`connection.h`) | socket, resolved addresses | resolve, try addresses, read hello | late completions of writes on the previous socket | one usable socket or an error |
| `Connection` send path (`connection.h`) | `m_sending`, `m_queue`, the write in flight | `send_data`, `init_*_send`, `on_data_sent`, `stop` | write completions arrive after closes and reopens; a write is made of parts | one write at a time, FIFO, nothing stranded, nothing after a gap |
| `DBQueue` (`detail/tntpp_queue.h`) | two vectors | `push`, `swap`, `clear` | the frozen vector is referenced by a write | frozen until the write's handler runs |
| receive buffer (`detail/tntpp_mutable_buffer.h`) | reader and writer positions, shared storage | `prepare`, `advance_*`, `clear` | frames keep references to storage that is replaced | frames are never overwritten |
| framing (`detail/tntpp_iproto_framing.h`) | receive buffer | hello, length, body, header | frames split over reads in any way; length encodings | frames are what the server sent, in order |
| `RequestPacker` (`detail/tntpp_request.h`), `Box` (`box/tntpp_box.h`) | a message being built, map counters | pack, begin/finalize map, select/insert/replace/remove | nested maps, unresolved names | the message is well formed and says what the caller meant |
| typedefs (`detail/iproto_typedefs.h`), frame accessors | message header | conversions of headers, error codes and bodies | codes and fields at the edge of what is known | an error response is never mistaken for a success |
| config, crypto, logger, picodata | none that matters | getters, hashing, output | none | not modelled, see below |

The parts interact as follows. Everything that touches a Connection runs on its strand.
`Connector::connect` makes a Connection, connects it, makes the Connector, spawns the
receive loop on the strand and, with credentials, authenticates. Users' requests dispatch a
lambda to the strand that registers a completion handler in `m_requests` and calls
`send_data`. The loop suspends in `receive_message`; a frame is matched by its sync with an
entry of `m_requests`, an error makes it `reset()` (fail every registered request, close
the socket) and reconnect. The destructor posts a lambda that sets `Stopped` and closes
the socket, which makes the loop end.

`PROJECT.json` lists the hazards, each at its line, with the properties that guard it.

## Modules

| Module | Models |
|---|---|
| `DBQueue` | the double-buffered queue, as functions on records |
| `SendPath` | the sending half of `Connection`: the record `conn` and each method as a function on it; `SendSpec` runs them under the most general client |
| `FifoLink` | the abstract specification that `SendPath` implements |
| `Connection` | the rest of `Connection`: `io`, the operation that `connect()` or `receive_message()` is suspended in, `addrs`, the addresses left to try, and `inbox`, the frames that have come in; the network's steps |
| `Connector` | the Connector, its receive loop and its users, composed with the two above |
| `SharedBuffer`, `MutableBuffer` | the receive buffer: bytes and positions of every block of memory it has allocated, as functions |
| `Iproto` | request types, fields, error codes, the header and its conversion, the accessors of a frame |
| `Framing` | `IprotoFraming` on a `MutableBuffer`, with the socket it reads and the reconnects that clear it |
| `MessageStream` | the abstract specification that `Framing` implements |
| `RequestPacker` | a message under construction, as functions |
| `Requests` | the operations of `Connector` and `Box` from the user's call to `send_data` |
| `MCSendPath`, `MCConnector`, `MCFraming`, `MCRequests` | instances for TLC |
| `SendPathProofs`, `SendPathRefinement` | proofs: the send path, and that it implements `FifoLink` |
| `ConnectorProofs`, `ConnectorSafety`, `ConnectorOutcomes` | proofs: types of the Connector, its loop and owner, what becomes of requests |
| `FramingProofs`, `FramingRefinement` | proofs: the receive buffer and the framing, and that it implements `MessageStream` |
| `RequestsProofs` | proofs: the packer and the operations |

One action is one handler on the strand, from its start to its next suspension. Methods
of `Connection` are functions because one handler calls several of them: the destructor's
lambda sets `m_s` and closes the socket in one step, `on_data_sent` may close, clear and
start the next write in one step. Between steps the network, the server and the users act
freely.

The composition: `Connector` runs `Connection`, which runs `SendPath` and `DBQueue`.
`Framing` refines what `Connection` calls a frame (`NetReceive`, `NetReadError`) down to
bytes, and `Requests` what `Connector` calls a request (`Call`) up to the user's call. The
three are separate specifications that meet in these steps: their product is out of TLC's
reach, and nothing of the one is visible in the others but a frame, an error or a message
queued on the strand.

What corresponds to what:

* `write.st` and `io.st` distinguish an operation that is pending from one that has
  finished and whose handler is queued on the strand. Between the two the world moves on;
  this is where late completions come from. `close()` cancels what is pending and leaves
  alone what has finished, as asio does.
* `async_write` is a composed operation: `write_op` is the handler of one of its
  `async_write_some`, which starts the next one, on whatever socket there is by then, or
  calls `on_data_sent`. With `LargeData` the kernel may take the beginning of a buffer only
  (`PartTransferred`); `write.cut` remembers where that beginning is. A socket that is given
  the end of a message whose beginning went to another one is `garbled`. The server is
  assumed to understand nothing that follows on it, and to close it.
* A socket whose connection failed or was lost is "broken" but still `is_open()`.
* A completion handler is one-shot: `outcome[r]` is "issued" while it is owed, and an entry
  of `m_requests` whose request is complete has an empty handler, which throws when called.
* `Refused` follows the code to the letter: no `return` after the handler has been called,
  so the entry is stored and the buffer sent.
* `FaultyReset` is `reset()` when a handler is empty or throws: `m_requests` is an
  unordered map, so any set of entries may have been visited before. The clause that
  catches the exception calls `reset()` again, which throws again: the loop is "dead".
  `assert` is taken as compiled out there and at the top of `connect()`; the assertions
  themselves are properties. It is also taken as compiled out in `as()`, where a response
  without the field Data (`NoData`, the one to a ping for example) fails an assertion before
  it throws: a build with assertions ends there, and no property is about it.
* An exception out of `connect()` (`set_option` or `remote_endpoint` on a socket closed
  meanwhile) leaves through `io_context::run` and destroys the suspended loop: "escaped".
  `DeathHasCause` is about "dead" alone; that a loop can escape while the Connector is in use
  is the finding of `loop_escapes`.
* `inbox` holds what the server has sent on the current socket. A read on a closed socket
  may still deliver a frame from it, because `transfer_exactly` looks at its buffer first;
  whether a given frame was already in that buffer or still in the kernel is left open.

* An auth request that the server refuses with code 0, or with one above 280, completes as a
  success (`AuthUncharted`; see the findings): the session is then "refused", and
  `ConnectedIsAuthenticated` excepts it.

In `Framing` and its parts:

* A `MutableBuffer` is the sequence of all the `SharedBuffer`s it ever had. A
  `FrozenBuffer` is an interval of one of them, so that what the user of a frame reads is
  looked up when he reads it: a later write into the same memory would show.
* Lengths are bytes and decoded as the code does, signed, truncated or unknown ones
  included. In a payload one byte stands for one msgpack object (`Objects`), the first the
  header and the second the body: msgpack's own encoding is external. A header or a body is
  a map of entries in order, with `Bad` for a key or value that does not convert, so that
  the conversions and their early exits are those of the code.
* `read` is the `async_read` in progress: bytes go into the buffer beyond the write
  position as they arrive, in portions of any size, and more of them than asked for.
* 2^64 - 1 (`RequestType::Unknown`) is written -1, and no stream -3.

In `Requests` and its parts:

* The bytes of a message are a sequence of items: size, header, map, key, value. The size
  counts items. A count of entries has its 16 bits.
* `onStrand` says whether the thread that runs an operation is in the strand, where
  `dispatch` runs inline and `enter_executor` is not needed. `eager` says that the
  completion token starts the operation within the call (a callback, a future), as opposed
  to later (`deferred`, an awaitable). A `remove` holds its packer by reference, so an
  eager one that has to enter the strand continues with a destroyed packer: `Messages` then
  also allows an empty message.
* A space or an index that is given by name carries the identifier it has on the server,
  which the client does not know: what the client takes it for is `IdOfName`.
* A coroutine that had to enter the strand does not look again where it is when it resumes;
  it may be on the strand or on the executor of the caller's handler.
* `remove` with an index, and `get_index_id`, which only it calls, are left out: the one
  gives a `Space` to the other, which takes an `Index`, so that neither can be instantiated.
* `m_requests` has no replies here: `Connector` models them.

Abstractions in `Connector` and `Connection`: a buffer is represented by its request, a frame by its sync
and whether it is an error response to the auth request, of which kind; all auth requests that the loop
makes share `ReauthId` (each is refused on the spot); a request is always queued on the
strand rather than run inline when its caller is already there, so completion handlers do
not re-enter; `LoopStart` is not ordered with respect to lambdas posted meanwhile.
Use-after-free and iterator invalidation have no outcome one could model; the hazards that
lead to them are listed with a note.

## Runs

| Run | Instance | Shows |
|---|---|---|
| `send_path` | 3 interchangeable buffers taken in parts, `MaxPending` 3 | `m_sending` is exact, no data is stranded, the batch in flight is stable, writes are accounted for, `FifoLink` is implemented |
| `connector_auth` | credentials, 2 requests, 2 addresses, Info logged, buffers in parts | types, `ConnectedIsAuthenticated`, `DeathHasCause`, `NoRequestForgotten`, `LiveServed` |
| `connector_guest` | no credentials, 2 requests, 1 address, `MaxPending` 1, handlers may throw, buffers in parts | `NoRequestForgotten`, `LiveServed`, `ConnectedHasReader`, `NoSilentLoss`, `StoppedIsFinal`, `CompletedOnce`, and liveness: `DropEndsLoop`, `RequestsComplete`, `Reconnects` |
| `reconnect_with_credentials` | credentials, 1 request | violated: "This class also handles reconnects" |
| `assert_socket_closed` | no credentials, 2 requests | violated: `assert(!socket.is_open())` |
| `unexpected_error` | no credentials, 2 requests | violated: "must not be here" |
| `buffers_alive` | no credentials, 2 requests | violated: "data param MUST live for the whole duration of the operation" |
| `loop_escapes` | no credentials, 2 requests | violated: "all other errors MUST be handled by the error code above" |
| `framing` | 12 streams, buffer of 4 bytes, 2 connections | positions in order, the buffer holds the socket's bytes in order (`BytesInOrder`) and loses none (`NoByteLost`), the memory of a frame is not written again (`FramesImmutable`), frames are the peer's messages in order (`ImplementsStream`), no connection given up without cause, `SentDelivered` |
| `requests` | 2 operations, spaces and indexes by id, by name and unset, 1 builder field | messages can be parsed, but for a remove whose packer is gone, and their replies find the operation |
| `length_encodings` | single messages, one with a 16-bit length | violated: "16-bit unsigned big endian" |
| `error_reported` | error responses with the codes 0, 1, 280, 281 | violated: "catches exceptions and forwards them as an error_code" |

Bounds. `MaxPending` caps the buffers waiting in the queue or on the wire of `SendPath`,
the frames in `inbox`, and the point at which the loop's refused auth requests stop piling
up. Three are enough for a write in flight, a batch behind it and a buffer that arrives
while the batch is written. `MaxAddrs` of 2 lets one address fail and the next succeed.
`LargeData` lets every buffer be taken in two parts, which is as good as more: what counts is
whether a close falls between the first and the last. In `connector_guest`, `MaxPending` of 1
still lets a request wait behind the write of the other.
With two requests one can be in flight while the other is queued, refused or registered
late; the three buffers of `send_path` let a batch of two wait behind a write. Requests and
buffers are interchangeable in the safety runs, hence the symmetry; `connector_guest`, which
also checks liveness, uses none.
A receive buffer of 4 bytes (`DefaultLength`) is shorter than two messages and than the
length of one, so messages, and lengths too, straddle the exchange of buffers; the streams
have lengths of 1, 2, 5 and 9 bytes, three messages in a row, and eight ways to be
malformed. `MaxConnections` of 2 lets a connection fail anywhere and leave a rest behind
for the next. Two operations in `Requests` are enough for one to overtake another; they are
independent but for `m_request_id`, the strand's queue and `m_requests`. One field of a
builder (the fields differ only in their key) makes the count of a select differ from its
least.

The findings:

* **Reconnecting with credentials never succeeds.** The loop authenticates while `m_s` is
  still `Connecting`; `send_request` refuses every request in that state, so the loop
  reconnects for ever, each time leaving an empty handler and a dangling buffer behind.
* **`assert(!socket.is_open())`** fails on the second attempt: a failed attempt leaves the
  socket open.
* **A refused request kills the loop later.** Its empty handler stays in `m_requests` until
  a `reset()` calls it. Requests registered at that point never complete.
* **Dangling buffers are sent**, after a refusal and after a `reset()`, since the queue
  outlives the requests.
* **A late write failure kills the loop of a Connector in use.** `on_data_sent` of a write on
  the old socket closes the new one. If that falls between the success of `async_connect` and
  its handler, `set_option` throws, and the loop is gone for good.
* **Messages with a 16-bit length cost the connection**: the test for 0xcd compares with
  0xcc again. (Tarantool itself always sends 32-bit lengths.)
* **Error codes that are unknown, or 0, look like success** to whoever tests the
  `error_code`: `Unknown` is 0 and an `error_code` of value 0 is false. `async_auth` does.

Without a run of their own, the models also show:

* **The end of a message goes to the next connection.** `close()` does not cancel a composed
  `async_write` of which a part has just been taken. If the same handler opens the socket
  again, as `reset()` with `connect()` and a failed hello do, the write goes on there, and the
  server is given the end of a message first.
  The refinement covers this: such a socket is torn, and carries no message.
* **An eager `remove` by name uses a packer that is gone**, since its coroutine holds a
  reference to a local variable.
* **Names stand for 0, and a select has no index.** There is no schema yet, and `select` packs
  no `IndexId`.

Fairness (`LiveSpec`). In `Connector`: weak fairness of every strand handler: the io_context is run. Weak
fairness of the network's operations: they end, with success or failure, which asio
guarantees for all but two. A hello that neither arrives nor fails is excluded by
assumption (the code has no timeout, `connection.h:115`), and a read on an idle connection
need not end. Strong fairness of `NetReply`: a server that is connected again and again
eventually answers. Weak fairness of a break on a garbled connection: a server closes a
connection on which it was sent something that is no message. Strong fairness of success of
resolve, connect and hello, and of the handler of `async_connect` running while the socket is
still up: the server can be reached, and a connection is not always lost again at once.
`RequestsComplete` and `Reconnects` allow for a loop that an exception has taken away:
`DeathHasCause` says when a loop may be "dead", `NoErrorEscapes` that none is "escaped" while
users hold the Connector, which is not so (see the findings).
In `Framing`: weak fairness of the loop that calls `receive_message` after every frame, of
the handlers and of the arrival of bytes already sent; nothing is assumed of bytes not sent.

## Proofs

`SendPathProofs`: `Sound(c)` is the conjunction of the type of a Connection, `m_sending`
being exact, queued data having a write in flight, the batch in flight being the inactive
vector, and the accounting of writes (what waits, or was taken in part, has a rest). None
is inductive alone: that no write starts while one runs follows from `m_sending` being
exact, and that the batch is stable from no write being started. Each method is shown to
preserve `Sound`, whatever its caller; hence the invariants hold under the most general
client and, in `ConnectorProofs`, under the calls the Connector makes.

`SendPathRefinement` proves `SendSpec => ImplementsLink`: each method maps to a step of
`FifoLink` or to none. The mapping takes as pending the part of the batch not yet taken by
the kernel followed by the active vector; a failed write has lost its batch and tears the
link. A close also tears the link for a write whose beginning is on the socket closed, and
the link stays torn when the write continues on a new socket (`cut` is "lost", then
`garbled`): no message is carried there until it is closed in its turn.

`ConnectorProofs` proves type correctness together with `Sound(conn)`.

`ConnectorSafety` proves `NoRequestForgotten`, `LiveServed`, `ConnectedHasReader` and
`StoppedIsFinal` from one invariant, `Safe`:

* `Issued`: what is queued or registered has been issued, so that a new request is not
  already registered;
* `LoopAgrees`: the position of the loop agrees with `m_s`: reading means not Connecting,
  reconnecting means not Connected, ended means not Connected;
* `OwnerAgrees`: Stopped, or a destructor's lambda in the queue, means that the Connector
  is gone; the auth request is owed only while `Connector::connect` holds the Connector,
  and then nothing else is.

`LiveServed` needs `LoopAgrees` (a request is registered live only while Connected, and
the loop is then reading), and `StoppedIsFinal` needs `OwnerAgrees` (the loop sets Connected
only if the Connector can be locked).

`ConnectorOutcomes` adds four results, each from `Safe` and a further invariant:

* `HandlersCalledOnce` (`CompletedOnce`) from `QueuedOnce`: what is queued on the strand is
  queued once, owed and not yet registered; a reply, a refusal and a `reset()` complete only
  what is registered and live. `AuthUnasked` covers the auth request before the loop exists.
* `DeathExplained` (`DeathHasCause`) from `Causes`: unless users' handlers throw, the only
  entries of `m_requests` with an empty handler are those of refused requests, and a loop that
  died met one of them.
* `ConnectedMeansAuthenticated` from `AnswerSeen` and `Authenticated`: an auth request is
  completed without error only by an answer that came in on the current socket, and the
  session of that socket is then no longer a guest's. It holds across reconnects because
  the loop never gets to Connected by itself when there are credentials (see the findings).
* `NothingLostSilently` (`NoSilentLoss`) from `Carried` and `Noticed`: every method of the
  send path keeps a buffer that is unsent or on the wire there, or tears the link, and a torn
  link is one whose reader is going to fail. `KeptStep` of `SendPathRefinement` gives the
  former for every method at once.

`RequestsProofs` follows a message through its stages. The packer's lemmas say what each
method does to the items: `Framed` (size, header, one map), `Keys` (no key twice), `Longer`
(one entry more), `Counted` (the count is the number of entries). `Sound` says for each stage
of an operation which entries its message has; `Numbered`, that identifiers are below
`m_request_id` and taken once; `Registered` and `Delivered`, that the strand runs a message
with its own sync. `SentParses` follows from `Sound` and `Delivered`,
`ReplyReachesOperation` needs `Numbered` too: a second operation with the same sync would
take the entry over.

`FramingProofs` works bottom up. `Ordered` is what the assertions of `SharedBuffer` say and
each of its methods keeps; `IsHeap` lifts it to all the buffers of a `MutableBuffer`; `Kept`
says that a step writes nothing before a read position. A frame lies before the read
position of its buffer (`FrameIn`), every write after the write position: hence
`FrozenIsFrozen`. `prepare` and `copy_rest_from` keep the bytes that are ready (`SameReady`),
so that those bytes, with the ones a pending read has stored behind them, are always the last
ones taken from the socket (`BufferIsSocketOrder`). `Reading` is what `transfer_exactly`
relies on from the start of a read to its end: the read is for the bytes that were missing,
and it is for the current buffer. No invariant is inductive without the others: positions
need `Reading` (there is room for what arrives), and `Reading` needs that a failed
`receive_message` has no read pending (`Quiet`).

`FramingRefinement` proves `Spec => ImplementsStream`. Its invariant, `InPlace`, says for each
stage of `receive_message` which byte of which message comes next: the bytes consumed end
where message `nth + 1` starts, after its tag, or after its length, and `want` is what that
message has there. With `BytesInOrder` the bytes that `transfer_exactly` returns are then a
part of this message, and a frame that is handed out is the message; with `FramesStay` those
handed out before are still what they were. `Refusal` adds that a connection is given up only
at a message that has a length the code refuses, or a header that does not convert. From it
follows `WellFormedAccepted`, under the hypothesis that no message has the tag of a 16-bit
length: without it the property is false (see the findings). `LengthsUnderstood` says that
every other length is read as msgpack defines it, below 4 GB.

Where a message starts is a sum over the messages before it, and a length a sum over its bytes.
These facts are proved by induction on the number of messages, and of bytes: `SetInduction`
takes from the library that < is well-founded on the naturals (`WFMin`) and states induction
for a set of numbers, which the provers can instantiate. From it follow that the recursive
functions behind `FlattenSeq` and `BigEndian` exist (`FlattenExists`, `CountExists`), and what
they compute (`FlattenPlaces`, `SizeTypeExact`).

Assumptions: identifiers are distinct from the markers of the model (`ReqsAssumption`),
the Connection carries the requests' buffers and frames (`DataAssumption`), the bounds are
positive, the switches Boolean; a space or an index is unset, a name or an identifier
(`VariantsAssumption`), and a builder has the fields that `SelectBuilder` has methods for
(`BuilderAssumption`); a stream is a sequence of messages made of bytes (`StreamsAssumption`).
`LegibleAssumption`, which only `FramingRefinement` uses, says that a message ends where its
length has it end, or has a length at which `read_message_length` gives up, whatever follows.
This is what divides bytes into messages in the first place; it leaves out messages of 4 GB
or more with a 64-bit length, of which the code reads the lower 32 bits. The size of the
receive buffer may be 0. TLC evaluates the assumptions in every run.

Only model-checked: liveness (`RequestsComplete`, `Reconnects`, `DropEndsLoop`,
`SentDelivered`), which is out of the prover's reach, as is ENABLED; and the
violations.

## Not modelled

Password hashing (bit-level, and third-party SHA-1), logging, configuration (setters and
getters), picodata (a stub) and the tests are left out for good. So are: the texts of
errors and of request types, and `get_error_string`; `int_to_req_type`, which nothing
calls; the `select` overloads that take a key, which are empty; `fetch_schema` and
`schema.h`, which are stubs; `remove` with an index and `get_index_id`, which cannot be
instantiated. The
capacity of the queue's vectors, object lifetimes below the Connector, and a CHUNK response
that completes its request early are not modelled; the hazards say so where they matter.

## Plan

1. `DBQueue`, `SendPath`, run `send_path`: done.
2. `FifoLink` and the refinement: done, checked and proved.
3. `Connection`, `Connector`, safety and liveness runs: done.
4. Types and the inductive invariant of the Connector: done.
5. `MutableBuffer`, `Framing` and the stream it implements: done, checked.
6. `Iproto`: header conversion and error classification: done, checked.
7. `RequestPacker` and `Requests`: done, checked.
8. The remaining safety properties of `SendPath`, `Connector` and `Requests`, and those of
   `Framing` that need no induction over data: done, proved.
9. `Framing` implements `MessageStream`, by induction over messages and bytes: done, proved.
