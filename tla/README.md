# GMPI in TLA+

GMPI is a plugin interface for audio software: a plugin is a *processor* (real
time, audio thread), *editors* (graphical, UI thread) and a *controller* (UI
thread, outlives the editors), and the hosting code in `src/Hosting` keeps the
parameters of the three alike without a lock.  This directory models that code,
checks it with TLC and proves with TLAPS what is not about liveness.

Contents: 1 inventory, 2 what is hard, 3 modules, 4 runs, 5 bounds, 6 fairness,
7 proofs, 8 findings, 9 what is left out, 10 plan.

## 1. Inventory of the system

| Part | Source | State | Operations | Talks to | Correct when |
|---|---|---|---|---|---|
| `lock_free_fifo` | `Hosting/message_queues.h:111` | ring `m_que`; read, committed-write and uncommitted-write index | sender: `freeSpace`, `pushString`, `Send`; receiver: `readyBytes`, `popString`, `siphon2`, `clear`; owner: `Reset` | one sending thread, one receiving thread, no lock | it is a FIFO channel of bytes; the threads share no cell |
| `QueuedUsers`, `QueClient` | `message_queues.h:523`, `message_queues.cpp:51` | linked list of waiting clients, current client, flags `inQue_`/`dirty_`, load-balancing counters, one oversize message | `AddWaiter`, `ServiceWaitersIncremental`, `startMultiPartSend`, `MultiPart_send`, `Reset` | clients are the parameters; writes the fifo | nobody is lost, served twice, overtaken or starved; the fifo is never overfilled |
| `interThreadQue`, message streams | `message_queues.h:642`, `message_queues.cpp:297` | header being received, partial flag, reassembly buffer, bytes ready | `pollMessage`, `ProcessMessage`, `Send`, `Reset` | fifo below, `onQueMessageReady` above | whole messages, in order, each once; header and contents never mixed up |
| `GmpiParameter`, stores | `controller_holder.h:59`, `:266`; `processor_holder.h:191` | value, grab flag; a map of parameters on each side | `setReal`, `setBlob`, `getQueMessage` | both holders | the two stores agree once nothing is under way |
| `gmpi_processor` | `processor_holder.cpp` | store, event list, waiting parameters | `setParameterNormalizedFromDaw`, `setPin`, `onQueMessageReady`, `start_processor`, presets | plugin's processor, both queues, DAW | its input pins follow the store; output reaches the controller |
| `gmpi_controller_holder` | `controller_holder.cpp` | store, open editors, grabs | `setPinFromUi`, `setParameter`, `onQueMessageReady`, `initUi`, `unRegisterGui`, presets | editors, plugin's controller, DAW, queues | open editors show its store; host gestures balance |
| `EventQue` | `processor_holder.h:23` | sorted list of events | `push`, `head`, `clear` | process() | sorted, stable, one PinSet for a pin and time |
| `Processor` | `Core/Processor.cpp` | block position, sub-process pointers, sleep counter, streaming pins | `process`, `setSubProcess`, `setSleep`, pin updates | host, pins | events of one time are atomic; slices add up; sleeps only when silent for long enough |
| `FilterBase` | `Helpers/FilterBase.h` | settling state | sub-process choice | Processor | output constant before it stops computing |
| MIDI converters | `Core/GmpiMidi.h:650` to the end | keys of the notes, zones, last controller values, selected parameters | `processMidi`, `setMpeMode` | plugin code before and after | every finger has a key that follows its channel; zones disjoint; Note-Offs match; data goes to the parameter selected |
| presets | `controller_holder.cpp:752`, `:813`; `processor_holder.cpp:418` | none of their own; a document outside | `readPresetXml`, `writePresetXml`, `setPresetUnsafe`, `getPresetUnsafe` | both stores; the next instance of the processor | reading inverts writing; session values survive; the next instance has what was read |
| factory | `Core/Common.cpp`, `Hosting/gmpi_factory.cpp` | registered classes and XMLs; list of plugins | `RegisterPlugin`, `RegisterPluginWithXml`, `factory()`, `createInstance` | static initialisers before, host after | everything registered is listed and can be made |
| XML reader | `Hosting/xml_spec_reader.cpp` | plugin info | `readpluginXml`, `RegisterPin` | factory above, the holders' `init` after | tags number the native parameters without gaps; pins find their parameters |
| reference counts | `GmpiSdkCommon.h`, `RefCountMacros.h` | a count in each object, a pointer in each `shared_ptr` | `attach`, `assign`, copy, move, `as`, `put`, destruction | everything | an object lives exactly as long as a pointer holds it |
| `SharedBlob`, object pins | `Helpers/SharedBlob.h`, `Core/Processor.h:459` | view, count; the pointer on each pin | `set`, `inUse`, send, forward, `preProcessEvent` | sender, host, receivers | no view is reused while a pointer to it is on its way or in use |
| dynamic linking, extensions, C projection, CMake | | none of their own | | | |

Interactions: an edit goes editor -> `setPinFromUi` -> controller's store -> all
editors, and then either to the DAW (which later calls
`setParameterNormalizedFromDaw`) or through the controller-to-processor queue.
A change by the processor goes `setPin` -> processor's store -> line of
`QueuedUsers` -> fifo -> `pollMessage` -> controller's `onQueMessageReady` ->
store -> editors.  The DAW wrappers and the timers are not in this repository.

## 2. What is hard in this code

* Two threads share a ring with three indices and no lock; each decides on a
  snapshot of what the other does.
* Messages become visible in part; a header may arrive without its contents.
* An oversize message is spread over many calls and interleaves with resets.
* A parameter's value is read when its turn comes, not when it changed; changes
  during its turn must count.
* The two stores are both written; their messages cross.
* Events for blobs point into the parameter's own memory.
* MIDI fingers outnumber keys, keys change fingers, release tails go on while their
  channel is used again, and parameter numbers and values come in pieces.
* A store is rewritten by a preset behind the back of the instance that runs; documents
  are old, edited, or no presets at all.
* Plugins register in whatever order the linker chose; bypass gets its id after the pins
  that want it have been read.
* Pointers to blobs are sent, queued and forwarded while the sender waits to reuse them;
  one release can set off others.
* A filter is watched slice by slice while its input comes and goes.
* A block is cut at events, and within a cut at the point where the plugin may
  sleep; a sub-process or handler may change, in the middle of it, all that
  decides about sleep.

`hazards` in `PROJECT.json` lists these line by line with the property that
would notice each going wrong.

## 3. Modules

**Queues, bottom to top.** `ByteChannel` and `WaiterQueue` and `MessageChannel`
are the abstract specifications; each is implemented by the module beside it.

* `ByteChannel` - a bounded FIFO of bytes, pushed (pending), sent, taken.
* `LockFreeFifo` - the class with the code's names.  One action copies one byte,
  so the other thread interleaves between any two; `space` and `ready` are the
  snapshots the callers hold.  `Producer`, `Consumer` and the owner's `Reset`.
* `WaiterQueue` - a first-come first-served line: `waiting`, how many of its
  front were `serviced` this GUI frame, and who is `dirty`.  What it promises is
  proved, and that the code implements it as well.
* `QueuedUsers` - the real linked list (`waitingClientsHead`, `next_`, ...), the
  load balancing, oversize messages, and the fifo as two byte counts.  One turn of a loop
  of `ServiceWaitersIncremental` is one step, with the receiver's `Consume` between;
  `pc` says which loop.
* `MessageChannel` - whole messages, in order, once.
* `InterThreadQue` - the frames written by both kinds of sender, how much of the
  stream is visible (`readyBytes`), and `pollMessage` header by header.  `covered` is what
  `Send()` was called for: all but the chunks at the end.  A byte
  stream is represented by its frames and an offset: a header read at offset 0
  is that frame's header, anywhere else it is `Noise`.

**Parameters.**

* `ParameterSync` - the two stores, the events and pins, the DAW's stream and
  the queues both ways.  It uses `WaiterQueue` (by INSTANCE, its actions `Add`,
  `Service`, `Remove` are the queue part of `setPin`, `Service`, `EndFrame`), and
  sequences for the channels, as `MessageChannel` allows.  CONSTANT sets say
  which parameters the DAW carries, which are blobs, who writes which.  An editor that closes
  loses its pins: the next one starts with what pins are made with.  `untold` is history:
  which open editors were not told of what the plugin's controller set.
* `EditorGrabs` - grab flags, open editors and the host's count of gestures.

**Audio thread.**

* `EventQue` - `push` as an operator on lists of events.
* `Processor` - one call of `process()` is a run of steps: `Slice` cuts off the
  frames before the next event, `SubProcess` or the loop of `subProcessPreSleep`
  (`StayAwake`, `FallAsleep`, `ReturnAwake`, `CountDown`) fills them, `PreProcess`,
  `ProcessEvent` and `PostProcess` are the three passes over the events of one
  time.  The plugin may call `setSubProcess`, `setSleep` or `setStreaming` in each of
  its handlers and sub-processes.  `m` is the record of the members that decide
  about sleep, and each method an operator from `m` to `m`, since a step may
  call several in a row; `m.clean` and `processed` are history for the properties.

**MIDI.**

* `NoteMapper` - which key each note sounds on.  The sequence numbers are only
  compared, so instead of them `before` relates a key to those whose last Note-On is newer.
* `MpeConverter` - both `MpeConverter` and `FatMpeConverter`, chosen at the start: they
  differ in zones and release tails.  Values of bend, pressure and brightness are left
  out; `stale` holds the keys that miss their channel's newest value.  `tuning` is the pitch
  each key has at the receiver, which `sendPitch` tells of a pitch only if it differs from the
  one the mapper remembers, as the code does.  What is passed on
  unchanged (master channels, channels outside the zones) changes no state.
* `MidiConverter2` - registered and non-registered parameters put together from
  controllers; the other messages need no state.
* `MidiConverter1` - keys of retuned notes, and thinning of one controller.  The arrays of
  tunings, keys and values sent are one for all channels, as in the code, while notes sound on a
  channel.  `crossed` is history: the notes that sounded on two channels, not all on their
  natural key.
* `MidiConverters` - the three beside each other, for the run and the proofs.

**Presets and start-up.**

* `Presets` - the processor's store, a document outside it, and the instance that follows
  the store.  A document gives each parameter a text, which is base64 or a number;
  `readPresetXml` and `writePresetXml` are operators on stores and documents (the
  controller's store uses the same two), `setPresetUnsafe`, `getPresetUnsafe` and
  `start_processor` the actions.  `EditDocument` is whoever changes the file meanwhile.
* `PluginXml` - `readpluginXml` as an operator from XML elements to plugin infos, in the
  order of the code: parameters, pins, host controls, bypass, tags.  It has no state.
  `IsSound` says what the author of an XML must see to, since nothing in the code checks it: ids
  used once, pins that name a parameter or a host control that is there.
* `PluginFactory` - static initialisers in any order, the loop of `factory()` that reads
  each XML with `PluginXml`, the choice of a plugin and `createInstance`.

**Objects.**

* `References` - `shared_ptr` over objects that hold a `shared_ptr` themselves.  A call is
  a list `todo` of releases and addRefs, and each is a step; a release that deletes puts
  those of the deleted object's member in front.  `copy` asks nothing of its caller, like
  `assign`; `orphaned` is history: whether a pointer was assigned what its own old object alone
  kept alive (`KeptOtherwise`).
* `SharedBlobs` - a sender's pool of views, and the pins they are sent and forwarded to.
  Each pointer carries what it pointed at when it was sent, for the properties.
* `FilterSettling` - `FilterBase` slice by slice; the filter is external and puts out any
  samples.  Samples that differ insignificantly are one level.

**Model-checking and proof modules.** `MC...` instantiate the above.  `MCTwoThreads` has
`LockFreeFifo` and `ParameterSync`, `MCAudioThread` has `Processor` and the converters, `MCParts`
what is listed under the runs: a variable says which of them a behaviour is of, so that the
state space is the sum of theirs and not the product.
`LockFreeFifoProofs`, `QueuedUsersProofs`, `InterThreadQueProofs`, `ParameterSyncProofs`,
`ProcessorProofs`, `MidiConvertersProofs` and `PartsProofs` (grabs, presets, references,
blobs, settling, discovery of plugins) hold the theorems, and `SequenceLemmas` what they share.  Definitions that start with "Mutant of" in their comment are
plausible bugs; nothing uses them but the mutation runs recorded in
`PROJECT.json`.

## 4. Runs

| Run | Question | Answer |
|---|---|---|
| `two_threads` | *Bytes*: are indices in order, snapshots safe, cells apart under every interleaving?  Is the ring a byte channel?  Does a push ever make it look empty?  *Parameters*: do stores and pins agree at rest, with edits, automation, blobs, restarts of the processor?  Is a newest value ever lost?  What do editors show? | yes; yes; never; yes; no, unless both sides write; the controller's values, but for those that its plugin set (section 8) |
| `queued_users` | Is the linked list well formed, is the fifo never overfilled, does the list implement the line, oversize messages included? | yes |
| `queued_users_oversize` | Is an oversize message ever finished? | not if it needs more than the fifo (finding 1) |
| `messages` | Are frames, chunks, partial arrivals and short reads a message channel?  Does every message arrive that `Send()` was called for? | yes, with resets between oversize messages |
| `sync_two_writers` | Do the stores agree at rest also with a parameter that both sides write? | no (finding 2) |
| `grabs_held` | Do gestures end with the editor that made them? | no (finding 3) |
| `audio_thread` | *process()*: are all frames filled once and in order?  Are events of one time atomic?  Does a plugin sleep when silent, and only with clear buffers and no event left?  *Converters*: has every finger a key of its own, kept to its Note-Off, tuned, with its channel's newest values?  Are zones apart?  Do Note-Offs end the key that was started?  Is the last controller value sent?  Do data entries go to the parameter selected last? | yes; yes; yes; yes, but for the tuning of note 0 (section 8); yes; if the note did not sound on two channels with two keys (section 8); on the channel last sent to; yes |
| `parts` | see below | yes, to all |
| `plugins_listed` | Does the host list every plugin that registered with an XML? | only those of the last XML (finding 4) |
| `filter_settled` | Has a filter that counts as settled put out the same for `historyCount` samples? | not if slices are short (finding 5) |
| `assign_uses_deleted` | Is a deleted object ever called, however pointers are assigned? | yes, in `p = p->next` (finding 6) |
| `stale_host_control` | Does a preset of one's own leave the host's values alone? | no (finding 7) |

`IndependentParts` puts six parts that do not interact beside each other - what is proved of
them is in `PartsProofs` - and `MCParts` adds two, `InterThreadQue` with resets and the users; each behaviour of `MCParts` moves
one of them (`part`).

| Part | Question of `parts` | Property |
|---|---|---|
| grabs | Do host gestures balance and end with the last editor? | `GesturesBalance` |
| presets | Does restoring give back what was saved, whatever came between?  Is a non-stateful value spared, and a host control unless the document names it?  Does the next instance have the store's values, with no event of the old one left? | `RestoreGivesWhatWasSaved`, `PresetsLeaveSessionValuesAlone`, `InstanceFollowsStore` |
| plugins | Are tags indices and ids unique?  Does every pin find its parameter, with its datatype? | `TagsAreIndices`, `PinsFindTheirParameter` |
| references | Is no deleted object called and none kept too long, until a pointer is assigned what its own old object alone kept? | `CountsMatchOwners` |
| blobs | Does everybody read what was sent, and does every view come back? | `BlobsStayWhileReferenced` |
| filter | Does the output stand still from the moment it is said to? | `SettledOutputsStandStill` |
| reset | With resets at any time, is a chunk that does not fit all that can put the reader out of step? | `OnlyOverflowMisaligns` |
| users | Is everyone serviced, if messages fit? | `EveryUpdateIsServiced` |

The type invariants are conjuncts of one property of each module (`SnapshotsAreConservative`,
`ListIsSound`, `FramesFit`, `PinsFollowStore`, `QueueIsSound`, `InstanceFollowsStore`,
`CountsMatchOwners`, `BlobsStayWhileReferenced`).

## 5. Bounds, and why they are enough

* Ring of four cells (the code's is a constructor argument): every position of
  the three indices, pushes and pops of one to three bytes, each wrapping at
  each cell.  The proofs are for every length.
* `QueuedUsers`: fifo of 9 bytes, header 1, safety zones 2 and 3.  What matters is the
  order of these sizes, and it is the code's: a small message fits several
  times, an oversize one needs several chunks, a chunk leaves less room than
  two zones.  Two or three clients give every list of head, middle and tail; the
  proofs are for any number.  A GUI frame of 3 sample frames and blocks of 1 or 4: less
  and more than a frame; `FewestClients` scales the constant 10 of the estimate.
* `InterThreadQue`: fifo of 11, headers of 2, safety zones 3 and 4 (in the code 96 and 600
  bytes, for headers of 12); one message that fits, two that only
  go in chunks (one whose whole frame just exceeds what may be written at once, one as long
  as the fifo).  In `parts` it has a fifo of 7, headers of 1, zones 2 and 3 and one message of each kind,
  and `QueuedUsers` two clients whose messages always fit.
* `ParameterSync`: two values to change between; two messages under way to the
  controller and one edit each to the processor and by the DAW (in the code
  thousands), two of each in `sync_two_writers`: enough for messages about one
  parameter to cross.  One parameter of each kind - a knob the DAW carries and
  automates, a scope the processor sends, a patch the plugin's controller sets -
  suffices, since no handler relates two of them but by the line, the events and
  the editors' pins.  One editor shows what is and is not told; the proofs are for any number.
  In the behaviours of `two_threads` that are about parameters the ring stands still.
* `Processor`: blocks of one and two frames, which have an event before the first and
  between two frames, a sleep counter that runs out before, at and after the end of a
  slice; two events of all kinds at any of these times; one pin of each kind and one
  sub-process besides `subProcessNothing`.  With blocks of three frames the safety
  properties hold as well (672 000 states).
* MIDI: three keys and four possible fingers (two notes on each of two channels), so
  that keys run out and are given to other fingers; four channels, the least that has
  two masters and members for both.  Two notes and seven-bit values of two sizes are
  enough to be confused; a controller has four values, two to a step.  Zones are
  set only while no finger is down (`MidNoteSettings = FALSE`, see section 8).
  MPE notes and zones of up to two members; note 0 is among them, whose pitch is also what is
  remembered of a new key.  Two channels send to `MidiConverter1`, so that the arrays
  they share make a difference; its notes and its controllers share nothing, and each behaviour has one.
* `Presets`: one parameter of each kind - a number, a blob, a host control, a non-stateful
  pointer - and two values; reader and writer treat each parameter by itself.  Documents
  are all that one edit of a written one can give, and those of any number of edits.
* `PluginFactory`: all modules of one plugin with up to two parameters (float, enum or
  blob, private or not; ids in falling order, so that the last is not the largest) and
  three pins, for a parameter or one of two host controls each; two plugins in one XML, an
  element without an id, two XMLs.
* `References`: three objects, each with a member, and two variables: chains of two
  deletions, sharing, and cycles, which are kept for ever.
* `SharedBlobs`: two views, two pins of which one forwards, two pointers on each wire.
* `FilterSettling`: two outputs with two levels, a history of three samples (32 in the code)
  and slices of one, two and four: shorter than the history, and longer.
* No run bounds the number of steps: all state spaces are finite and explored
  completely.

## 6. Fairness

Liveness is claimed only under weak fairness of what a live host does: it
calls `process` and with it `ServiceWaitersIncremental` every block
(`WF(Service)`), and the UI timer polls (`WF(Consume)`, `WF(pollMessage)`).  In `messages` what
is sent is what the code sends: `Send()` follows each message and each MPAR that was written, and
the call that writes a chunk returns before it (finding 1), so the fairness of `Send` is of the bytes in
`covered`, which ends with the last frame that is not a chunk.  `EveryMessageArrives` is
about the messages that are complete in it: an oversize message arrives if something is
written after its last chunk, and nothing is claimed of one that is the last.
In `audio_thread` the host goes on to call `process()`
and the call goes on (`WF(ProcessSteps)`), in the behaviours of `Processor`.  In `parts` only the users have
fairness (`MCFairSpec`).  No fairness is assumed of users, of the plugin
or of resets.  Weak fairness suffices: each of these stays enabled until it
happens or its reason goes away.

## 7. Proofs

`LockFreeFifoProofs` proves, for every ring length above one and every set of byte
values, the type invariant and the three safety invariants of `LockFreeFifo`, and the
assertion at the end of `pushString`.  The argument is an inductive invariant: the
type invariant, `PointersInOrder` (going round from `read_ptr` one meets the sent
bytes and then the pending ones), and the two snapshot invariants.  The type
invariant alone is not inductive - without the order of the indices, advancing
one could step over another.  Arithmetic modulo the ring length is isolated in
lemmas about `Distance` and `Advance` for indices inside the ring.
The only assumption is `QueSize > 1`.

The same module proves that `LockFreeFifo` implements `ByteChannel` under
`pending <- Window(m_committed_write_ptr, Unsent)`, `sent <- Window(read_ptr,
readyBytes)`: each step is a push, a send, a take, a clear, a reset or a
stutter.  It needs the invariant that what the sender has copied so far is in
the cells beyond the uncommitted index, and what the receiver has copied is what
was in its window.

`QueuedUsersProofs` proves, for any finite set of clients and any positive lengths and
rates, what `queued_users` checks, liveness apart.  Its invariant has three parts:

* `ListIInv`: the links from `waitingClientsHead` go through a sequence without
  duplicates that ends at `waitingClientsTail` (`Linked`), its members are those with
  `inQue_`, and the current client is the one after those serviced.  The model defines that
  sequence by a recursive function of the links; `LinkedIsLine` shows by induction over
  the places that a well-linked sequence is its value.
* `RoomIInv`: while clients are serviced the call knows of no more room than there is, *or
  of too little to send anything*.  The second half is needed, because the code subtracts
  what it has sent from a room it measured at the start, and because a message in
  chunks ends the sending only through this number.
* `NumbersIInv`: the types of the counters.

With it every step of the code's loops is a step of `WaiterQueue` or a stutter
(`RefinesWaiterQueue`).  What the line promises is then proved of the linked list: nobody is in
it twice (`NobodyIsInLineTwice`), who has something new is in it (`NoUpdateIsLost`), who waits
for a turn has something new (`NoTurnIsWasted`), and nobody overtakes (`NobodyOvertakes`).  The
first three are one invariant of the line: none alone is inductive, since `Remove` puts
a dirty client back, which needs both that it occurs once and that the unserviced are dirty.
The assumption that the clients are finitely many was added to the module: they are
the parameters of a plugin.

`InterThreadQueProofs` proves, for any messages, lengths and room, what `messages` and
the reset part of `parts` check, liveness apart.  A place in the byte stream is a sum over the frames
in it, so the sums are functions of the number of frames (`Totals`), which
`RecursionExists` of `SequenceLemmas` gives, and what a push or a finished frame does to them
is a lemma each.  The invariant `IInv` holds whatever is reset:

* `StreamIInv`: there are never more unread bytes than room, and each frame fits it;
* `PlaceIInv`: the reader is between two frames, in the contents of the first one with its header
  in hand, or inside a chunk while no message is being put together (`OutOfStep`), which
  is `OnlyOverflowMisaligns`;
* `SendingIInv`: of a message that is being sent in chunks there is something left to send;
* `ReceiverIInv`: the types of the receiver's buffers.

The other three theorems have the hypothesis `~ResetMidMessage`, that the queue is not reset
within a message in chunks.  Without it they are false: the sender keeps its part of the state,
and the reader is misled (section 8).  With it `ChunksIInv` holds as well: going through the
stream from what the receiver has put together, each chunk carries on where the frame
before it ended, and the last ends at what the sender has sent.  That rules out
`OutOfStep`, and gives `MessagesAlwaysComeWhole`, `FramesAlwaysFit` and
`RefinesMessageChannel`, where the channel's queue is the messages whose last frame is in the
stream (`written`).

`ParameterSyncProofs` proves, for any parameters, editors, values and queue lengths, the four
properties of `ParameterSync`.  The invariant says where a value can be while it is
under way: for a pin, in the last event queued for it or in the store (`PinsInv`); for an editor,
in the controller's store, unless it is `untold`; and for a parameter which
only one side sets, in the last message on the queues that lead away from that side, or at the
other side (`ReachesController`, `ReachesProcessor` in `StoresInv`; `Told` adds the edits that the
DAW has yet to deliver).  `NewestIsOnItsWay` is these three facts.  Of parameters that both
sides set it says nothing, and of what the plugin's controller set `EditorsShowController`
exempts just the editors that were open then, until their pins are set again: without these
exceptions they are false, by finding 2 and by section 8.  `StoresAlwaysAgree` has the hypothesis
`OneWayEach`, that what the plugin's processor sets is set on the other side through the DAW or
not at all: without it the property is false (finding 2 and the run
`sync_two_writers`, whose instance violates exactly this).

`ProcessorProofs` proves, for any pins, block size and events, the four safety
properties and the action property of `Processor`.  Its invariant says that the queue is sorted
and has one value for a pin and time (`QueueIInv`, kept by `push`), that the slice at
hand ends where the next event or the block does and the frames before it are
filled (`SlicesIInv`), that between any two methods the members `m` are `Good` (the pre-sleep sub-process
is in place whenever the plugin is silent, and the counter covers what is left of the
buffers), that a plugin sleeps at the end of a block with no event to come (`SleepIInv`), and that
fresh pins are those of the events about to be handled (`FreshIInv`).  The methods of `m` compose, so each is a lemma from `Good` to
`Good`; folds over the pins are functions of the subsets (`FoldExists`), and what
holds of them is shown with `EverySubset`.  Two assumptions were added to
the module: the pins are finitely many, and no pin is both an input and an output.

`PartsProofs` proves the invariants and action properties of `IndependentParts`, each from the
named assumption of its module (`PartsAssumption`):

* grabs: the host has one gesture open for each of its parameters that is grabbed.  The invariant
  adds that only known parameters are grabbed, since the last editor to go ends the grabs
  of those only.
* presets: the instance follows the store; an untouched document is the one its store
  was written to (`DocumentIsSaved`), so restoring it gives back what was saved; a
  non-stateful value is never changed, and a host control only to what a document says that
  names it (finding 7 is that it may).
* references: until a pointer is assigned what its own old object alone kept (`orphaned`), a
  live object's count is that of its owners.  In the middle of a call the
  two differ, by what is still to be released or added: the invariant (`Balance`)
  says which releases may be pending, and that an object about to be added is kept by
  something else.  That the code does not see to this is finding 6; from then on only the
  types are claimed (`CountsTyped`).
* blobs: a view's count is one more than the number of places in all lines (wires and pins)
  that hold it, and what a pointer reads is what was sent through it.
* settling: what is heard from the constant sub-process is the constant.
* discovery: whatever is listed was read from an XML that was registered, so the theorems are
  about `readpluginXml` on a sound XML (`PluginFactoryAssumption`).  The reader picks elements by
  condition and keeps their order; that the k-th picked is the one with k - 1 picked before it
  (`ElementsInOrder`) gives the tags their places, and that bypass comes after the largest
  id (`BypassIsFresh`), while those of other host controls are negative and differ, keeps ids
  apart (`IdsAreDistinct`).  A pin was read before any of these ids was known, and finds its
  parameter after `renumbered` (`PinsFind`).

`MidiConvertersProofs` proves the six properties of the converters, for any number of keys,
channels, notes and values, from `MpeAssumption` and `MidiAssumption` (the ranges of the
constants):

* fingers (`FingersIInv`): each finger that has not lost its key holds exactly one, no two
  keys are held for one note, and no key is held but for a finger.  A key changes fingers only
  when all are held, which needs that the round robin reaches every key (`EveryKeyIsReached`,
  `NextKeyIsFree`).  `TuningIInv`: the receiver has for each key the pitch that is remembered, or
  was never told one, and then 0 is remembered; so a finger is in tune unless its note is 0.
* newest notes (`NewestIInv`): the newest note of a channel comes after all others on
  it in the order `before`, so `latestOn` finds that key and no other (`NewestIsLatest`).
  Without it the mapper might give a release tail's pressure to a dead note.  Nothing is
  claimed of a channel whose newest note has lost its key: there it does (section 8).
* zones (`ZonesIInv`): the sizes of two zones in use add up to less than the channels between
  the masters; each configuration keeps this by shrinking the other zone.
* `SelectionIInv`: while a kind of parameter is selected, the number kept for it has the halves
  that were sent, and the number of the other kind is void.
* `KeysIInv`: the key of a note that sounds is remembered, and of channels that sound the same
  note each has it on its natural key, unless the note is in `crossed`: so it does not matter whose
  Note-Off resets the array they share.
  `ThinningIInv`: what thinning compares with is what the channel last sent to has.

`SequenceLemmas` has the facts the others share.  The library's induction theorems
take an operator as a parameter, which the provers here cannot instantiate.  The
lemmas take a *set* instead - of numbers (`LeastNumber`, `EveryNumber`) or of subsets
(`EverySubset`) - and are proved from the well-foundedness of the strict subset order on a
finite set.  That is enough for induction over the length of a list and over finite folds.
`RecursionExists` shows so that a recursive function on the numbers up to n is what its
equations say, and `OrderedPositions` that some of the positions in a list can be counted in
order.

Every invariant and action property of the passing runs, and each of the refinements, is a
theorem.  Only model-checked is liveness, as TLAPS does not reason about fairness here:
`EveryMessageArrives`, `EveryUpdateIsServiced` and `SilentPluginIsPutToSleep`; and what the runs of
section 8 refute cannot be proved.

## 8. Findings

Each has a run that ends in a counterexample.

1. `ServiceWaitersIncremental` returns the result of `MultiPart_send` before the
   line that calls `Send()`: a message of more chunks than fit the fifo stops for good.
   (With a `Send` in that branch the same model finishes.)
2. A parameter that both the user and the plugin's processor set can end with a
   different value in each store.
3. Grabs survive the closing of the editor that holds them if another is open.
4. `readpluginXml` clears the list it is given, and `factory()` calls it for each XML: of a
   module whose classes bring several XMLs only the last one's plugins are listed, and
   which one is last is up to the linker.  They can all be made, by whoever knows their ids.
5. `subProcessSettling` looks for movement only within a slice.  Where events cut slices to
   one sample it counts down whatever the filter does, and in longer slices it counts the
   sample that moved as one that stood still.  The output may then jump from what the
   filter would go on to compute, to a constant.
6. `shared_ptr::assign` releases the old object before it adds its reference to the new one
   (`GmpiSdkCommon.h:136`), so `p = p->next` on a list that nothing else holds deletes the
   new object with the old one and then calls its `addRef`.  No code in `src/` does this.
7. A preset that names a host control overwrites it: only the reset pass skips them, though
   `controller_holder.cpp:862` says that nothing applies a stale one over a value the host
   has published, and the writer names them all.  The steps: save, the host
   publishes another tempo, restore.

Also noticed while modelling, without a run of their own:

* A chunk that is refused leaves its payload in the stream, which is then read
  as headers, though the comment at `message_queues.cpp:436` says that all further
  data is ignored; a reset during an oversize message leads there, since the sender
  keeps its part of the state.  Another reset repairs it.  `OnlyOverflowMisaligns` shows, and
  `OnlyOverflowAlwaysMisaligns` proves, that nothing else puts the reader out of step.
* `setSleep(true)` does not reset the sleep counter, so a plugin that asks for sleep may
  sleep before its buffers are clear; `SleepsOnClearBuffers` speaks of automatic sleep
  (`Processor.cpp:291`).
* `gmpi_processor::sleep()` returns Ok and remembers nothing, while the plugin that
  called it leaves the rest of the block unfilled: a host built on this holder must treat
  its outputs as silent by itself.
* `lock_free_fifo::isFull` compares with an index that is never taken when the write
  index is on the last cell, so it misses a full ring there
  (`message_queues.h:117`).  No operation of the class uses it.
* Blob sends within one GUI frame are merged, since the line holds a parameter once
  and a message is made from the value it has then, though the comment at
  `processor_holder.cpp:510` calls them a stream.
* `setParameter` (the plugin's controller) does not tell open editors
  (`controller_holder.h:553`).  In `EditorsShowController` this is the one exception: an editor
  that was open then may show an older value until its pins are set again.
* The last chunk of an oversize message is sent only with something that is written after it
  (`message_queues.cpp:187`), even if all of the message fits the fifo: if nothing follows, it does
  not arrive.
* A late echo of an edit the DAW carried takes back a newer edit for a while
  (`controller_holder.cpp:512`); the stores agree again when nothing is under way.
* `setPinFromUi` pushes to every pin of every editor through a switch that has no
  case for Blob, String or Grab pins, so a debug build asserts when an editor has one
  (`controller_holder.cpp:469`, `:475`).
* A `<Param>` without a `val` is neither set nor reset (`controller_holder.cpp:787`).
* Blob events point into the store: `setPresetUnsafe` between `start_processor` and the
  next `process()` would leave them dangling.  The model has the wrapper start a new
  instance after a preset, as "Unsafe" suggests.
* Moving a `shared_ptr` by assignment swaps, so the old object lives on in the source
  (`GmpiSdkCommon.h:74`).
* `ObjectInPin` has no destructor: the blob that an input held last stays `inUse()`
  for ever if its module goes first (`Processor.h:483`).
* `doStabilityCheck` calls the check every 51 times, not "one time in 50"
  (`FilterBase.h:153`).
* MIDI: `forEachExpressionTarget` gives a dead older note the expression when the key of
  the channel's newest note went to another channel, though its comment says that such
  notes "are dead and get nothing" (`GmpiMidi.h:762`; `DeadNotesGetNothing` states it).
* A key is sent its pitch only if that differs from the one remembered, and 0 is remembered of a
  key never used (`GmpiMidi.h:662`, `:1309`, `:1610`): of two fingers on note 0 the second gets
  key 1, nothing is sent, and it sounds at the pitch of key 1.  `EveryFingerIsTuned` states that
  this does not happen and does not hold; `FingersHaveKeys` is what does.
* `MidiConverter1` remembers the keys of notes in one array for all channels
  (`GmpiMidi.h:1774`): a note tuned to key 5 starts on a channel, is tuned to key 7 and starts on another.
  The first one's Note-Off goes to key 7 and resets the array (`:1850`, `:1857`), the second one's
  to the natural key, and key 5 stays on.  `EveryOffMatchesItsOn` states that this does not
  happen and does not hold; `OffsMatchOns` is what does.
* When all keys are held the round robin ends where it started, so the same key is
  stolen each time, and no Note-Off is sent for the note that had it
  (`GmpiMidi.h:714`): behind a `MidiConverter1` it stays on.
* Zones that are set while fingers are down leave their keys held, since the Note-Offs
  are then passed on instead of mapped (`GmpiMidi.h:1485`, `:1742`).  A zone that the
  other one shrinks to nothing keeps its master channel.
* `MidiConverter1` thins over one array for all channels: a controller set to about the
  same value on two channels reaches only the first (`GmpiMidi.h:1783`;
  `EveryReceiverFollows` states that it does not).  `MidiConverter2` has one
  `incoming_rpn_value` for all channels, so half of a value may be another channel's.
* `scaleUp` writes `2 ^ n`, an exclusive or, for a power of two, so the largest value does
  not reach full scale as its comment says (`GmpiMidi.h:84`).

## 9. Not modelled

* Encodings: numbers, strings and blobs on the stream, MIDI messages, the syntax of XML,
  base64; rounding between normalised and real values; `scaleUp` and its inverse.
* Memory ordering of the C++ atomics: the code uses release/acquire on the indices, and the
  model is sequentially consistent.
* Debug-only code.
* A second Note-On for a note that sounds already on the same channel, before
  `MidiConverter1`: the source is taken to end a note before it starts it again.
* The wrappers, the DAW and tinyxml2, which are not in `src/`: the DAW appears as a stream of
  events in the order it was told, the wrapper as whoever calls the operations of `Presets`.
* `notifyGui`, `notifyControllerOfPreset` and `notifyPluginController`, which tell observers a
  value at the caller's request and change no state here; in which order a restored state
  reaches the two stores and these observers is the wrappers'.
* Latency, MIDI output: values handed through.
* Dynamic linking, the extensions' wrappers, the plain C interfaces, CMake: no state.

`PROJECT.json` gives the reason for each component.

## 10. Plan

Done: (1) fifo, (2) waiting line, (3) messages, (4) parameter sync and grabs, (5) `EventQue`
and `Processor`, (6) the MIDI converters, (7) `FilterSettling`, (8) `Presets`, (9) discovery of
plugins with the numbering of the XML reader, (10) reference counts and shared blobs; with
the proofs of section 7.

Left: liveness of the queues, if the prover learns to reason about fairness; what
section 9 lists, where the code comes to hold state.
