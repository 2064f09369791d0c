# PacketMachine: models, checks and proofs

PacketMachine is a C++ library that captures packets with libpcap, decodes them
protocol by protocol and calls an application's callbacks for the events it
meets.  This directory holds TLA+ models of its concurrent core, of its decode
chain and of its stateful protocol code, the TLC runs that check them and the
TLAPS proofs of what holds for every size.  `PROJECT.json` maps every definition to its lines.

## The system

    application thread          capture thread            kernel thread
    Machine, Handler            Input::thread_main        Kernel::thread_main
      | on/activate/destroy       | Capture::read            | pull
      | start/join/halt           | retain, push, close      | Decoder, Property
      |                           |                          | callbacks
      |                           +--- RingBuffer<Packet> -->|
      +------------------- MsgQueue<ChangeRequest*> -------->|

| Component | State | Operations | What makes it correct |
|---|---|---|---|
| `RingBuffer` (channel.hpp) | two atomic indices, slots, `eos_` | retain, push, pull, close | no packet shared, torn, skipped, repeated or lost; nobody waits for ever |
| `Input` (packetmachine.cc), `Capture`, `Packet` | the retained packet | read, store, push, close, throw | closes the ring however it ends |
| `MsgQueue` (channel.hpp) | deque, mutex, atomic flag | push, has_msg, pull | `pull` never finds the queue empty; order kept |
| `Kernel`, `HandlerEntity` (kernel.cc) | handler vectors, map, `running_`, flags of each handler | dispatch, on, clear, change requests | a handler is registered once, removed once, and not called once its removal is due |
| `Machine`, `Thread` | source, two threads | add_pcap*, start, join, halt | calls return; no thread outlives them; a timed wait ends at the time asked for |
| TCP module (tcp.cc) | session table, two streams, stored segments | decode, decode_stream, trans_state | bytes in order, events at the right time |
| `Decoder`, modules, `Config` | id and name tables, settings | init, setup, decode, lookup | chain ends, ids index what `Property` holds, wrong settings are refused |
| `Property`, `Payload` | values and events of a packet, read cursor | init, retain_value, push_event, value, retain | no value of an earlier packet shows through; cursor stays inside |
| DNS/mDNS (utils.cc) | none | ns_decode, parse_label | ends on every input, stays inside the packet |
| stateless modules, `Value` | none to speak of | decode a header, format | values point into the packet |

The hard parts are the lock-free ring and its end-of-stream flag, the change
requests that race with dispatch and with start-up and shut-down, thread
cancellation, and TCP reassembly under loss, duplication and reordering.
`PROJECT.json` lists each hazard at its line with the properties that cover it.

## The modules

**`RingBuffer`** models the ring and both of its threads.  Every access to
something shared (an index, a slot, `eos_`, the bytes of a Packet) is a step of
its own; wait loops are stuttering.  `mem` gives the contents of each Packet
object: a packet's number, or `Torn` while `Packet::store` copies.  `eos_` is a
plain `bool`: it is written once and read in a loop that calls `usleep`, so the
outcomes a build can produce are those of a late read, which the interleavings
contain.  After a failed read the capture thread closes the ring, uses its source
once more for the text of the error (`Report`) and throws.

**`PktFifo`** is what the channel promises: a bounded FIFO whose consumer holds
one packet.  `RingBuffer!ImplementsFifo` instantiates it with the slots between
the indices as the queue.  Its `End` may leave packets behind: `pull` does.

**`MsgQueue`** models `push` and the drain loop at the level of the mutex, the
deque and the flag, for any set of producer threads.  The kernel thread comes to
that loop only after a packet (`Packet`), and never again once `pull` has
returned `nullptr` (`SourceEnds`).  **`MsgFifo`** is what it
promises: a queue that a put or a take changes in one step, as `Kernel` has it.

**`Kernel`** models `Kernel::thread_main` and all calls on `Handler` objects, by
the application's thread and by callbacks.  The channels are reduced to what
the first two modules show of them: a packet or `nullptr`, and a sequence of
requests.  A call that tests `running_` and acts later is two steps, so that
during start-up a call may change the tables directly with the kernel thread
already at work.  A direct `destroy()` is then three more steps - find and clear
`active_`, set `destroyed_`, erase (`FindDirect`, `MarkDirect`, `EraseDirect`) -
and a dispatch is two, the test of `is_active()` and the call (`TestActive`,
`EnterCallback`): callbacks run, and call `activate()`, in between.  Such a direct
change is a data race, modelled as any of: it takes effect, it makes the loop
miss entries, it crashes (`RaceCrash`).  If the kernel thread is inside
`add_handler` or `delete_handler` for the same vector, an entry may also be lost
or the wrong one erased; `torn` records that this has happened, and the
properties of the tables are about the time before it.  A callback may itself call `on()`, `activate()`, `deactivate()`
or `destroy()`, and the application may `halt()` instead of `join()`: the kernel
thread is then cancelled in the sleep of `pull` or inside a callback, and
`running_` stays set.  Two history variables say by when a request counts:
`limit`, the last packet in which a destroyed handler may still be called, and
`due`, the packet whose drain must have added a new one.

**`Machine`** extends `RingBuffer` with the application's life cycle: adding a
source, `start`, `join` with and without timeout, `halt` and the destructor.
`Deadline` is `Thread::join`'s arithmetic on `timespec`, with `BILLION` as a
constant; a deadline that `pthread_timedjoin_np` refuses fails the `assert`
behind it and ends the process (`JoinAbort`; the build does not define
`NDEBUG`).  `expired` records that a timed join has given up on the capture
thread; if that thread then reports its error on a machine that has been deleted,
it reads freed memory (`ReportFreed`: it throws whatever it finds, or crashes).
Cancellation is deferred, with the cancellation points that the code contains
(`usleep` in both wait loops, libpcap's system calls, callbacks).

**`TcpSession`** models `TCP::decode`, `Session` and `Stream` for one pair of
endpoints.  One step is one invocation of `decode_stream`; `todo` is the list of
invocations the recursion still has to make.  A byte is named by its endpoint
and sequence number, so that the contents of `TCP.data` can be compared with
what was sent.  `SeqMod` stands for 2^32.  `make_key` orders the two endpoints
by address and then by port; both directions are looked up through it.  RST and
the packets of a second connection on the same ports go through `trans_state`
like any other, as in the code.  `raised` and `unaccepted` are histories of the
session: its events in their order, and how many of its packets `send` has
not taken.

**`Registry`** is what `Decoder::init` builds once from the constructors of the
modules: the order of the modules (a `std::map`'s, by name), the ids of their
parameters, the names of parameters, minor parameters, events and settings, and
the settings each module is set up with.

**`Decoder`** models `Decoder::decode` and the `decode` of every module it can
reach, with the two objects that live from packet to packet: `Payload`, the
cursor, and `Property`, which reuses its `Value` objects.  One step is one
module, or one iteration of the loops over DHCP options and DNS records.  The
contents of a packet are chosen where they are read: the lengths that headers
claim, the next protocol, ports, counts.  A value is the range of bytes it
points at and the packet they are of; arrays and maps refer to values by
parameter and position.  The fields a module sets from one header are a single
parameter; `Sources` says which of the names in `Registry` it stands for.
`Construct` is the constructor: unknown settings and settings of the wrong type
are refused.  `size` is how far `retain_value` has grown its vectors, and
`value` reads them by name, as an application does.  What TCP does with a
segment is `TcpSession`'s; here it may add one of its events, its session's
values and `TCP.data`.  `addr` and `port` remember which packet the addresses and ports
in `Property` came from.  IPv6 has no action: no module
returns its id.

**`NameService`** models `parse_label`, one step per iteration, on every message
of bounded length.  `Decoder` uses what it shows: the end of a name is behind
its start and inside the message.

The `MC*` modules and `.cfg` files give the constants values; the `*Proofs`
modules hold the theorems and the inductive invariants they rest on, `NatProofs`
the facts about natural numbers that two of them share.  A definition that a comment calls a mutant is a
plausible bug and is used by no specification: substituted for the definition
after it, it makes the property named in `PROJECT.json` fail.

## The runs

| Run | Bounds | Result |
|---|---|---|
| `ring_buffer` | 3 slots, 7 packets | holds (1 018 states) |
| `ring_lost` | 3 slots, 2 packets | violated |
| `msg_queue` | 2 producers, 3 messages each | holds (5 961 states) |
| `kernel` | 2 events, 2 handlers, 2 packets of up to 2 events, 2 queued requests | holds (4 785 669 states) |
| `kernel_join` | 1 handler, 2 packets | violated |
| `machine` | 3 slots, 4 packets, seconds of 10 units, 4 timeouts | holds (6 377 states) |
| `machine_assert` | 2 slots, 1 packet | violated |
| `tcp` | 10 segments, 8 captures, 2 sessions, `SeqMod` 16 | holds (705 767 states) |
| `tcp_cross` | the same, 1 session | violated |
| `decoder` | 2 packets of 13, 21, 40 or 290 bytes, 3 configurations | holds (255 072 states) |
| `decoder_absent` | 1 packet, session management off | violated |
| `name_service` | every message of 6 bytes over 5 byte values, 1 of them header | holds (176 959 states) |

*Why the bounds are enough.*  Three slots are the least with a slot that
neither thread holds; 7 packets take both indices round the ring twice, so
full, empty and wrap-around all happen at every index.  Two producers contend
for the mutex and meet a draining kernel thread.  Two handlers on one or two
events give erasure before, at and behind the dispatch position; two packets
give a drain between two dispatches and a request after the last one, or after
`halt`.  The timeouts of `machine` give sums of nanoseconds below, at and above
one second and of two.  The
conversation of `tcp` has a handshake, two data segments one way and one the
other, and both FINs; seven captures complete it and the eighth is a repetition
or a new session.  The client's numbers wrap inside it, and the endpoints'
numbers do not overlap.  A RST and a SYN with another sequence number, as of a
second connection, may come at any point.  The lengths of `decoder` cut the packet in front of the
Ethernet header, inside an inner one, inside the IPv4 options and inside ARP's
addresses, or leave room for two DHCP options and three records; IPv4 headers
claim less than themselves, less than and more than was captured, TCP offsets
less than the header; one packet fills `Property` and the next reuses it.  The
record counts leave sections empty in front, in the middle and at the end.  In
`name_service` bytes 3 and 4 begin a pointer, which then reaches every place of
the message and beyond it: pointers forwards, back, to themselves and to each
other all occur.

*Fairness.*  `RingBuffer` and `Machine` assume that the scheduler runs both
threads and that callbacks return.  The capture source is not fair - a live
device may never deliver - except in `JoinReturns`, whose premise `FileSource`
says that a file is read to its end.  A capture thread with a pending
cancellation is assumed to reach a system call (strong fairness).  `MsgQueue`
assumes that a thread inside `push` goes on, and so does the kernel thread inside
its drain loop; of the source it assumes nothing, and `EachMsgPulled` has it as a
premise that packets keep coming.  (Without packets a request stays where it is:
`kernel_join`.)  `TcpSession` and `Decoder` assume only that a decode that has begun
goes on, `NameService` that the loop of `parse_label` does.  `Kernel` has no fairness.

### What holds

- Ring: `NoSlotRace`, `PacketIntact`, `OwnedIsStable`, `BacklogIsDistance`,
  `NoAliasing` (safety); `CloseEndsKernel`, `RetainReturns`,
  `DrainedOutsideWindow` (progress); `ImplementsFifo` (refinement).
- Control channel: `PullNeverThrows`, `FlagExact`, `ExactlyOnceInOrder`,
  `EachMsgPulled` as long as packets come.
- Kernel: every handler is in exactly one place (`OneHome`, `NoDuplicates`),
  each request has been applied by the drain it was due at (`RequestsApplied`),
  and after `destroy()` has returned the callback is started for no packet beyond
  that drain, or, if `destroy()` removed the handler itself, beyond the packet
  under way (`NotCalledAfterDestroy`); calls from callbacks, `halt` and start-up
  races included, until both threads change one vector at once.
- Machine: `HaltReturns`, `JoinReturns`; once they have returned both threads
  have ended, with one exception, below (`ThreadsGone`); and the deadline of a
  timed join is exactly the clock plus the timeout (`TimedJoinExact`).
- TCP: `InOrderDelivery`, `ClosedAfterAllData`, `NoHoleLeft`,
  `DecodeTerminates`; each session raises `new_session`, `established` and
  `closed` at most once and in this order, whatever follows on its ports
  (`EventsOncePerSession`); and every packet of a session is accepted or still
  stored, however often chains of stored segments are taken out and filed again
  (`NoSegmentLost`).
- Decode chain: the cursor and all values stay in the packet
  (`ValuesInPacket`), except `IPv4.opt`, at worst the null pointer, when the
  options are cut off, and `DHCP.client_hw_addr`, at worst 43 bytes too long,
  whose length is taken from the packet unchecked (`docs/parameters.md:171` gives
  it as 16 bytes); once a module has taken its
  header, all of its parameters can be read in the callbacks of the packet,
  except `TCP.tx_server` and `TCP.tx_client` while no session code has run
  (`OwnReadsDefined`); no value of an earlier packet shows (`NothingStale`)
  and TCP's key is of the packet in hand (`KeyIsOfThisPacket`), though
  `src_addr()` and `src_port()`, which `init` does not reset, do show an earlier
  packet's in the callbacks of, say, an ARP packet; values once set are not taken again (`ValuesKept`);
  events follow the protocol stack (`EventsFollowStack`); DNS records are filed
  by section (`SectionsFiled`); decoding ends (`DecodeEnds`).
- Names: `parse_label` reads only the message (`StaysInMessage`), returns, on
  cycles of pointers too (`Returns`), and computes what the definition `NameAt`
  says (`MatchesDefinition`).  Two peculiarities are outside that agreement: a
  pointer that leads to a pointer is taken for a label length, and a jump is
  held against the length behind the header, so that names in the last bytes of
  a message - as many as the header has - cannot be pointed at (`NameAt` has the
  same limit).

### What does not

- `ring_lost`: `pull` sees an empty ring, the capture thread pushes its last
  packet and closes, `pull` sees `eos_` and returns `nullptr`.  Packets of the
  tail are lost.  `DrainedOutsideWindow` shows that this window is the only one.
- `kernel_join`: a `destroy()` that is never applied, because the requests are
  looked at only after a packet.
- `machine_assert`: `assert(r == 0 || r == ETIMEDOUT)` (`thread.cc:59`) fails
  when the nanoseconds of clock and timeout add up to exactly 10^9, which the
  test at `thread.cc:54` does not carry.  `AbortsOnWholeSecond` proves that no
  other sum does this.
- `tcp_cross`: a stored segment is removed by the other direction's lookup and
  filed where its own stream does not look for it.  `NoHoleLeft` shows that
  without such a meeting no captured segment is left behind.
- `decoder_absent`: `Property::value` of a known parameter whose id is beyond
  all those used so far indexes `param_idx_` behind its end, where
  `docs/api.md` promises `null_`.

Met while modelling, without a run of their own:

- A capture thread whose read fails after a timed join has expired closes the
  channel, upon which the join returns; if the machine is deleted at once, the
  thread's `cap_->error()` (`packetmachine.cc:72`) reads freed memory.  It is the
  exception in `ThreadsGone`, and `ReportFreed` is the step.
- In a start-up race a handler can be called while it is being destroyed:
  `destroy()` stores `active_`, a callback's `activate()` passes its test,
  `destroy()` stores `destroyed_`, `activate()` stores `active_`, and the dispatch
  comes before the erase; or the destruction falls between `is_active()` and the
  call.  `docs/tutorial.md:165` says "the callback will never be re-enabled";
  `NotCalledAfterDestroy` ends it with the packet under way when `destroy()`
  returns.  By the same stores a destroyed handler can go on to report itself
  active.
- `Property::value` returns the first of several `TCP.data` values; the
  reassembled bytes, which `docs/parameters.md:82` promises, are in the last.
  `TcpSession!DataIsReassembled` states the promise, and TLC refutes it with the
  constants of `tcp_cross`.
- `TCP.tx_server` and `TCP.tx_client` are always 0, since `tx_size_` is never
  increased; `docs/events.md` and `docs/parameters.md` say `mDNS` and
  `TCP.ssn_id` where the code defines `MDNS` and `TCP.id`.

## The proofs

For arbitrary constants, subject only to the `ASSUME`s: a ring of at least two
slots, producers that differ from the two reserved names, clock readings and
timeouts that are natural numbers, segments and endpoints of the right types,
lengths that fit their fields, a message longer than its header.  TLC evaluates
all of them.  A theorem with the name of a run's property in it says for every
size what the run says for one.

**Ring** (`RingBufferProofs`).  None of the safety properties is inductive.
`RingInv` adds where each thread's local pointer points (`InputSlot`,
`KernelSlot`), that a slot always holds its own object (`SlotsInPlace`), what
the retained object contains (`InputContent`), that an emptiness test stays
valid (`KernelReady`), and the contents of every slot between the indices
(`WindowContent`).  The arithmetic is confined to lemmas on `next` and on the
gap between two indices.  `InputKeepsRing` and `KernelKeepsRing` go through the actions;
`SlotRaceFree`, `DecodesWholePacketsInOrder`, `IndicesCountBacklog`,
`SlotsNotAliased` and `OwnedPacketsStable` follow.  `RingImplementsFifo` proves
`Spec => Fifo!FSpec`: under the invariant the slots between the indices are
consecutive packet numbers (`PendingIsCount`), so publishing appends,
advancing takes the head, and all else maps to a single FIFO step or stutters.
`LosesOnlyInWindow` is the positive side of `ring_lost`: once the source has
ended, the decoder comes to the test of `eos_` only with every packet received.

**Control channel** (`MsgQueueProofs`).  `QueueInv` ties the mutex to the
program counters (`MutexHeld`) and says that the flag the kernel thread saw
stays true until that thread pops (`PromiseKept`): it is the only consumer.
`QueueImplementsFifo` shows that the channel is `MsgFifo`'s queue: a message is
put when its producer sets the flag (not when it is appended: until then the
kernel thread may not know of it) and taken when it is popped.  `TestNeverWrong`
says that the unlocked `has_msg()` is an exact test of that queue.  It needs one
strengthening: a producer between its append and the flag finds the flag set
just when older messages wait (`FlagOfOthers`).

**Machine** (`MachineProofs`).  `MachineInv` records which cancellations are
possible at which point of the application's life (`CancelOrder`).  After a
timed-out `join` the argument goes through `EosAfterClose`: the kernel thread,
which is waited for, ends only after the capture thread closed the ring.  So
`NoThreadOutlives` leaves one case: a capture thread that was given up and whose
read has failed, on its way from the close to the throw.
The channel is then taken through that life: a step of the machine is a step of a
thread, a start, a cancellation, or leaves the channel alone (`StepKinds`), and
`RingInv` survives starts and cancellations (`LifeKeepsRing`) because a thread
is new when it is started and can be cancelled only where it has published
everything it stored.  So `ChannelInvariant`, `PacketsSafeThroughLife` and
`OwnedStableThroughLife` hold from the constructor to the destructor, and the
machine as a whole refines `PktFifo` (`MachineImplementsFifo`; a kernel thread
cancelled in a callback is its `Release`).  `NeverBothWait` combines both
invariants: while `retain` waits there is a kernel thread with a packet to take,
even with `halt` under way, since `halt` waits for the capture thread before it
cancels the other.
`JoinWaitsAsAsked` rests on two lemmas on `div` and `%`: the carry moves whole
seconds and loses nothing (`CarryIsExact`, `DeadlineIsExact`), and so does
`AbortsOnWholeSecond`: the assertion fails for no sum but a whole second.

**Kernel** (`KernelProofs`).  `OneHome` and `NoDuplicates` are true only because
of where requests and calls can be, which `KernelInv` adds: a call is about a
handler whose `Handler` the caller can have (`CallsTyped`), nothing is queued
before `running_` is set (`KernelPlace`), requests are about known handlers
(`RequestsKnown`), a handler is on its way into the tables at most once
(`AddOnce`), and the request to add it is in front of any to remove it
(`DeleteAfterAdd`; `on()` returns the `Handler` after the request is in the
queue).  `OnTime` is the form of `RequestsApplied` that a step preserves: what is
not carried out yet is still queued, and the drain it is due at is still to
come.  `FoundInPlace` says that what `delete_handler` has found is still in its
vector when it comes to erase it, and `CallInTime` that between the test of
`is_active()` and the call the handler was not yet due to be gone.  All this is
so until the two threads change one vector at once, so the invariant of the
specification is `torn \/ KernelInv` (`KernelInvariant`).  From it follow
`HandlersHaveOneHome`, `CallbacksRunOnce`, `RequestsAreApplied` and
`NoCallAfterDestroy`, with all start-up races, calls from callbacks and
cancellations.

**TCP** (`TcpSessionProofs`).  `KeyIdentifiesPair`: `make_key` is the same for
two packets exactly when they belong to the same pair of endpoints, in either
direction.  `SessionInv` ties `raised` to `status` and `closing_` - which events
a session must have raised in each status - and says that there is no status
without a session; `EventsRaisedOnce` follows.  `StoreInv` adds types to
`NoSegmentLost`, and that the places of `seg_map_` are finitely many, so that
what a step files and takes out can be counted; `SegmentsAreKept` needs nothing
of the conversation.  `OrderInv` is about the
streams: `next_seq_` counts the SYN, the bytes taken and the FIN (`Position`),
and is the end of a segment of the stream's own endpoint (`BehindOwn`), which is
what keeps the other endpoint's segments, filed in the same map, from being
accepted.  `StreamsInOrder` and `ClosedWithAllData` are therefore about
conversations in which

- no sequence number that one endpoint comes to is one at which the other has
  a segment (two directions with equal numbers do get mixed up: that is the
  map they share, see `tcp_cross`);
- a SYN carries no data and no data follows a FIN;
- the endpoint that opens with a SYN sends no SYN|ACK (no simultaneous open).

`Conversation` says this of the constant `Segments` and is a hypothesis of the
two theorems, not an assumption of the module; `MCConversation` has TLC evaluate
it for the instance.  Loss, repetition, reordering, wrap-around, RST and a
second connection on the same ports are all within the theorems.

`NoHoleIsLeft` needs no such hypothesis: it holds for any two endpoints, in every
state up to which fewer bytes were taken than there are sequence numbers
(`WithinSequenceSpace`; beyond that a number alone does not say whether a
segment is old or new, and the code does not look at more).  `HoleInv` says that
until a lookup has met the other endpoint's segment (`crossed`) everything
kept is filed under its own stream's relative number (`FiledUnderOwn`), none of
it is what its stream expects (`NoneExpected`), and each captured segment is
still to be decoded, is kept, or lies behind its stream (`Accounted`).  The
delicate step is `Deliver`: the chain that a lookup takes out of `seg_map_`
comes to `todo`, so that `NoneExpected` holds at the new `next_seq_`.  `DecodingMovesOn`
is the safety half of `DecodeTerminates`: each invocation of `decode_stream`
lowers the pair of packets not accepted and invocations to come.

**Names** (`NameServiceProofs`).  `NameInv` adds to `StaysInMessage` that the
name read so far goes forwards from its start, or that the place to return to
does (`ReturnPoint`).  `IterationsAreBounded` is the safety half of `Returns`:
an iteration that does not return adds a label to a length that was below its
limit.  `ParsesByDefinition` compares the loop with the recursive definition
`NameAt`, for every message.  `MatchInv` says that what the definition gives for
the whole name is what was read so far, followed by what it gives for the name
at the loop's present place, with enough depth left for the bytes that
`max_len` still allows (`Follows`), unless a pointer was met that leads to a
pointer.  The definition is a recursive function on the depth; its defining
equation (`NamesDef`) and type (`NamesType`) are proved by way of the least
number principle of `NatProofs`, which takes sets of numbers where the
library's induction takes operators.

**Decode chain** (`DecoderProofs`).  `DecoderInv` holds for every capture,
whatever lengths, counts and protocol numbers the headers claim.  Its parts, and
what needs them:

- `KindsApart`: the objects of a parameter are arrays, maps or plain values, in
  use or not.  Without it `clear` of a reused object need not clear what the
  last packet left in it, and `NothingStale` is not inductive.
- `Filed`: both vectors reach every parameter in use.  `OwnReads` needs it, with
  `AfterUdp`: the ids of the name services are beyond those of their own
  headers, and are in range only because UDP, with larger ids, has run before.
  That the tables make this so is `TablesAssumption`, closed facts about the
  registry that TLC evaluates.
- `OnceEach`: a module is further in (`Layer`) than every module that has set a
  value, so no module runs twice for a packet.  The name services need it:
  their sections must be empty when the loop begins.
- `LoopInv`: between two iterations the array of DHCP options is in use, and the
  locals `c`, `target`, `rr_c` of `ns_decode` agree with the header's counts and
  the arrays (`RrOK`).  This is where the search for the next section is shown
  to find one.

The proof has three layers.  `UpdateKeepsProperty`: a step that retains some
parameters, and sets only bytes that fit, keeps everything `Property` promises.
A lemma `...Step` for each module: it does just that, and its cursor stays in
the packet.  `Chain`: what the steps have in common - which module may follow,
which events are raised, whose addresses and ports are set - from which each
part of the invariant follows.  `MaxOfBounded` and `RecordsSum` are the
lemmas on the largest of a set of numbers and on the sum of counts.
`DecodeMovesOn` is the safety half of `DecodeEnds`: a step ends the chain, goes
to a module with a larger `Layer`, enters a loop, or takes bytes from what the
loop has left, so the number of DNS records read is bounded by the bytes of the
packet, whatever counts its header claims.

Only model-checked is liveness, which is beyond the prover: `CloseEndsKernel`,
`RetainReturns`, `DrainedOutsideWindow`, the fairness part of `ImplementsFifo`,
`EachMsgPulled`, `HaltReturns`, `JoinReturns`, `DecodeTerminates`, `DecodeEnds`
and `Returns`.  For the loops and for the waits of the capture thread the proofs
give the part that is about single steps or single states (`DecodingMovesOn`,
`DecodeMovesOn`, `IterationsAreBounded`, `NeverBothWait`, `LosesOnlyInWindow`);
that the scheduler then brings them to their end is TLC's.  Every invariant and
every action property of a passing run is a theorem, `NoHoleLeft` under
`WithinSequenceSpace` and the two about streams under `Conversation`.

## Not modelled

- `Kernel::clear(hdlr_id)`: nothing calls it.  Calls on a `Handler` that outlives
  its `Machine`, whose weak pointers have expired.
- Calls out of order on a `Machine` (`halt` before `start`, `start` twice):
  undefined behaviour of the library.
- Several pairs of TCP endpoints at once: they share the table and nothing else,
  and `KeyIdentifiesPair` keeps them apart.  Acknowledgements and windows are
  recorded and never used.  The inside of `tb::LruHash` is external, and with
  it the clock: an entry may have expired before any packet.  Two endpoints
  whose sequence numbers overlap are outside the instance.
- Formatting and conversion of single values (`value.cc`, the `repr`
  functions): pure functions of their bytes.
- `IPv6::decode`, which is never reached.  `Decoder` leaves out the second and
  later `TCP.data` values of a packet, which `value` never returns; they are in
  `TcpSession`.
- The failure of an allocation or of a mutex call.
- libpcap and pthreads are external.

## Plan

Done, in this order: `RingBuffer` with `PktFifo`, `MsgQueue`, `Kernel`,
`Machine`, `TcpSession`, the proofs of the ring, the control channel and the
life cycle, `Decoder` and `NameService`; then `Registry` and the reads by name,
the timed join, keys, RST and a second connection in `TcpSession` with its
first proofs, `on()` from callbacks and `halt` in `Kernel`; then the proofs of
`Kernel`, of the stored segments and the streams of `TcpSession`, of
`NameService` and of `Decoder`; then `NoHoleLeft`, `MatchesDefinition`, the
channel through the life of the machine, the safety halves of termination, and
the refinement of `MsgFifo`; then the single stores of a direct `destroy()`, the
packet-driven drain, and the error report of a thread that was given up.

Left: `Kernel` has the queue of `MsgFifo` and a source of packets for its channels.
That `MsgQueue` implements that queue and `RingBuffer` the one of `PktFifo` is
proved; the three are not composed into one specification.
