# HNAP4PlutoSDR: models, checks and proofs

TLA+ modules of the medium access control and of the parts of the physical layer
and the platform on which its correctness depends, the TLC runs that check them on small instances,
and TLAPS proofs for every value of the constants.

The program is a half-duplex TDMA radio network: a base station (BS) and up to 14 clients (UE)
exchange ethernet frames over an OFDM link. Time is divided into frames of 8 subframes of 64 symbols;
a subframe has 4 data slots of 14 symbols in either direction, and the uplink 2 control slots of one symbol.
The uplink is 34 symbols behind the downlink.

## Inventory

| component | state | operations | interacts with |
|---|---|---|---|
| logical channel, messages (`mac_channels.c`, `mac_messages.c`, `mac_common.c`) | the bytes of one slot, write position | add all control messages, add a fragment, seal, verify, parse | ring buffer of control messages, fragmenter, both MACs |
| fragmentation (`mac_fragmentation.c`) | queue of frames, frame being cut, numbers; fragments collected | add frame, get fragment, reassemble | TAP thread (producer), scheduler (consumer), slot thread (reassembly) |
| BS scheduler (`mac_bs.c` 352-648) | assignment tables of 8 subframes, subframe count | one run per subframe | wakened by the transmit thread; reads users that the receive thread adds |
| BS sessions (`mac_bs.c` 108-350, 388-469) | user table, per user: queues, modulation and pending change, last seen, end flag | association, control messages, timeouts, removal | receive thread, slot thread, scheduler thread |
| address table (`mac_bs.c` 285-301, 650-685) | list of ethernet address and user | learn, look up, remove | slot thread, TAP thread, scheduler thread |
| client MAC (`mac_ue.c`) | association, user id, modulations, last assignment, queues | handle a message, one run per subframe, timeout | receive thread, slot thread, scheduler, TAP thread |
| client transmitter (`phy_ue.c` 499-564, 601-718) | two rows of symbol allocations, position in the uplink | map slots, write a symbol, switch the radio (PTT) | scheduler thread writes rows, transmit thread reads them |
| client receiver (`phy_ue.c` 147-445) | synchronisation, position in the downlink, slot to decode | synchronise, read the control channel, hand slots over | slot thread, scheduler thread (wake-ups) |
| BS PHY (`phy_bs.c`) | assignments of two subframes, receivers of users, random access | map slots, receive symbols, random access | MAC callbacks |
| runtime (`basestation.c`, `client.c`) | threads, condition variables, transmit buffer offset | wake-ups, alignment of the transmit buffer | all |
| transmit thread (`client.c` 161-235) | offset and advance it has moved for, shift of the transmit buffer | write two symbols, push a buffer, check for another offset | receive thread and MAC (offset, advance), PTT |
| GPIO event queue (`pluto_gpio.c`), PTT (`pluto.c` 473-499) | timed events of one pin, delay of the switch | schedule, timed wait, write | transmit thread, a thread of its own |
| ring buffer (`ringbuf.c`) | array, read and write index | put, get, is empty, is full | one producer and one consumer thread each, without locks |
| radio driver, TAP device, configuration, logging, simulation, tests, calibration | | I/O and numeric code | not modelled |

What is hard in it: a client that transmits is deaf, so that assignments made one subframe apart interact;
nothing is retransmitted, and a few header bits have to show what is missing;
seven threads share state almost without locks; rows and tables are used again after two or eight subframes;
sessions end on timeouts that the two sides take on their own.
`PROJECT.json` lists these hazards line by line.

What makes each component correct:

- logical channel: the receiver takes out what was put in, and nothing else; no message is lost on the way in.
- fragmentation: only whole frames that were sent are delivered, once and in order; no array or counter leaves its range.
- scheduler: no user is to transmit and to listen at once; a user that is given a slot can hear that it is; reserved slots stay free; all users get control slots; a run ends.
- client transmitter: the radio is on for all that is sent, off otherwise, and nothing old is sent.
- sessions: BS and client agree, in the end, on who has which id; a removed user has nothing in flight; a change of modulation ends in agreement or in the old one.
- transmit thread: the uplink keeps its place behind the downlink, wherever the receive thread finds the sync sequence.
- GPIO: the pin switches when the samples it is for are on air, and the radio is always switched back.
- address table: a frame goes to the session in which its address was heard; an address goes with its session and is learned again.
- ring buffer: a bounded first-in first-out queue, however the two threads interleave.

## Modules

- `MacFragmentation`: fragmenter, one slot on the air, and reassembler, for one direction of one user.
  `AddFrame`, `GetFragment`, `Reassemble` are the functions of `mac_fragmentation.c`; `LoseSlot` is a slot with a wrong CRC;
  `RestartFragmenter` and `RestartReassembler` are `ue_create` at the BS, whose peer keeps its state.
  A fragment carries as ghost fields where its bytes come from, and the properties are stated on these.
  Sizes are numbers, bytes are not modelled.
- `MacMessages`: the message formats; `MacChannel`: a logical channel from its creation to the last message parsed, on real bytes.
- `MacScheduler`: `mac_bs_run_scheduler`. The loop iterations are actions, so that `AddUser` (the receive thread) may happen between any two.
  Whether a user has something to send is a choice of each iteration: the queues are changed by other threads.
  Of the table the row being filled and the row before are kept, as no run reads another.
  When a user transmits and listens is computed in symbols from the layout in `phy_bs.c` and `phy_ue.c`, independently of the scheduler's own overlap check.
- `UeTransmit`: the rows of symbols of a client and `phy_ue_write_symbol`. `RunScheduler` is the part of `mac_ue_run_scheduler` that maps slots, with what is assigned chosen freely;
  `WriteSymbol` is one symbol. `Associate` and `EndSession` (receive thread) happen at any symbol.
- `MacSession`: the user table of the BS and two clients, over slots each of which may be lost: random access (`NextRequest`, `RxRach`, `AddNewUe`), responses, inactivity (`DetectInactive`, `Removes`), end of session, the client's own timer.
  A subframe is a `BsRun`, what the BS receives, and a `ClientSubframe` of each client; what is sent in a run is there when the run is over.
- `McsSwitch`: the change of modulation for one user: `SetMcs`, `HandleControlAck`, `ProcessMcsChange` at the BS, `UeHandleMessage` at the client, which requests changes when it starts.
  A slot that is sent in one modulation and received in another is lost, and any other may be.
- `SlotHandover`: the receive thread, the slot thread and the scheduler of one side, on a clock of one symbol. `RxSymbol` is one call of the symbol callback;
  the slot number, the subframe and the row are read when the slot thread runs (`LookUp`), the user once more when it has decoded (`Deliver`). Each slot of a row has its own user, at the BS an id, at the client itself or all. `DecodesAssigned` compares the number that was looked up with the one signalled, and the user with the one to whom that slot was assigned. `SchedAssign` and `SchedRemove` are the run of the scheduler, as far as it matters here.
- `FrameQueue`: the ring buffer between the TAP thread and the scheduler, one access to a shared field per step, with the byte counter beside it. `BoundedQueue` is what it promises: an abstract queue, which `FrameQueue` implements
  with `queue` as the cells from `readpos` to `writepos` and `got` as the frames that were taken.
- `EtherMap`: the user table and the address table of the BS under its four threads, which share both without a lock. The functions are cut where another thread can come in:
  `CreateUe`, `InitUe` are `mac_bs_add_new_ue` before and after `last_seen` is set; `SearchSrc`, `AddEntry`, `RxChannelEnd` the end of a received frame; `TapFind`, `TapCheck`, `TapAdd` a frame of the network;
  `RunScheduler` detects and removes, and cuts in on the slot and the TAP thread as a whole. Sessions are numbered, so that an id that is given again is told apart; where the code follows a null pointer the BS is down (`up`).
- `TxAlign`: the client's transmit thread on a clock of one symbol: `Start`, `WriteSymbol`, `CheckOffset`, `Record`, against `InitialSync`, `SetOffset`, `Resync` of the receive thread and `SetAdvance` of the MAC.
  The history `lag` measures where the uplink begins, in samples of the downlink, from what is shifted, skipped and repeated.
- `GpioEvents`: the queue of timed events and `pin_ctrl_thread`: a `Timeout` and what is done about it are two steps, since the thread has to take the mutex in between.
- `PttTiming`: composes `TxAlign` and `GpioEvents` with the radio: `WriteFirst`, `WriteSecond` write a symbol's samples behind those on their way (`air`) and append the event of a PTT symbol; `Tick` sends a sample while the pin's thread has nothing to do.
  A sample on its way has two levels: that of its symbol, and that which the code means the pin to have while its buffer is sent, since both symbols of a buffer are written at once and their events get one delay.
  Where the two differ, in the first symbol of a buffer whose second is a PTT symbol, the pin is early (`PinFollowsSymbols`, violated); everything else that could go wrong in time is `PinFollowsAir`.
  It implements `TxAlign` (`RadioImplementsAlign`).
- `MacFragmentation_proofs`, `MacScheduler_proofs`, `FrameQueue_proofs`, `TxAlign_proofs`, `EtherMap_proofs`, `MacSession_proofs`, `UeTransmit_proofs`, `SlotHandover_proofs`: proofs.
- `MC*`: instances for TLC. Operators whose comment begins with "Changed form" are variants that a plausible bug would give; no specification uses them, they show that each property can fail.

## Runs

| run | instance and bounds | shows |
|---|---|---|
| `frag` | 3 sequence and 3 fragment numbers, frames of 1 or 4 bytes (longer ones are refused), slots for 1 or 3 payload bytes, 4 frames and 2 sessions | `DeliveredIntact`, `DeliveredOnceInOrder`, `FragmentsFit`, `CountsExact`. Frames have up to 4 fragments, so that the fragment number wraps, and there are more frames than sequence numbers, so that these do too |
| `channel` | slots of 6 usable bytes, up to 4 control messages with field values at the ends of their ranges, fillers that look like messages | `ParsedIsAdded`, `ChannelTypeOK` (neither side gets into the bytes of the CRC), `NoMessageLost`, `ParseEnds` (every call that finds a message passes over it; the history of parsed messages keeps one more than were added). Channels are left with 0, 1, 2 or more unused bytes |
| `sched` | frames of 4 subframes, ids up to 7, 2 users at a time, any of which come and go | `HalfDuplex`, `HearsAssignment`, `ReservedFree`, `CtrlSlotEachFrame`, `RunEnds`. Conflicts are between two consecutive subframes and concern one user; the others only matter for who is next |
| `transmit` | slots of 5 symbols, frames of 2 subframes, 6 sets of data slots in which every slot is with and without each of its neighbours, both control slots, two associations, one subframe without a run | `DataWithPtt`, `PttInWindow`, `DataOnlyGranted`. Slots of 5 symbols hold a random access request; only two rows exist, so two subframes show every combination. In the second association the client has the rows of the first |
| `ptt_before_ctrl0` | as `transmit`, with slot 1 and control slot 0 in one subframe | violation: the control symbol is sent with the radio on receive |
| `sessions` | two clients, two user ids, two random ids, a timeout of one subframe, two sessions and one retry per client | `SharedOnlyByTwins`, `OneUserPerAttempt`, `RemovedIsTold`, `StaleNotices`. Two clients and ids that are given again are what it takes to confuse sessions. That another client comes in between two requests of one, which `OneUserPerAttempt` excepts, takes a third session and is only in the proof |
| `users` | two clients, one with two addresses behind it, two ids, three sessions; every interleaving of the threads | `EntriesBelong`, `QueuedWhereHeard`, `EndedHasMissed`, `Relearned`. Three sessions for two ids: an id is given again while frames of its old session are in hand. Sessions lost while both sides keep them (`MaxFaults`) were checked with 3.7 million states and are proved, but make liveness too long to check |
| `mcs` | users 2 and 15 of 16, two modulations, orders that live 8 subframes, slots at least every third subframe, control queue of 3 messages, two sessions | `FollowsClient`, `AgreeUnlessLost`, `ChangeEnds`. In the code an order lives 32 subframes and control slots come every 8: the model has the same ratio |
| `slots` | the code's symbols (64, 14, 2, scheduler at symbol 4), frames of 4 subframes, 2 ids, decoding up to 13 symbols and scheduling up to 23, ten rows, in which slots next to each other, and slot 3 and the slot 0 behind it, belong to different users, to the same one, or one of them to nobody | `DecodesAssigned`, `RemovedOnlyInLastSlot`, `LostOnlyBehindScheduler`, for both sides and both alignments of the client's buffers |
| `queue` | ring of 3 cells, 4 frames of 1 or 2 bytes, slots that take 1, runs with 1 or 2 slots, any interleaving | `ImplementsQueue` (the refinement), `ExactUnlessOverlapped`, `AcceptedIsSent`. Four frames turn the indices round |
| `ptt` | symbols of 2 samples, subframes of 10 symbols, frames of 2, one burst round the end of a subframe, whose PTT_UP is the first symbol of its buffer and whose PTT_DOWN the second, two buffers on their way, an advance of more than a buffer, two changes of offset or advance | `PinFollowsAir`, `FollowsDownlink`, `ReturnsToRx`. The shift wraps in both directions, symbols are skipped and repeated, and a burst has its events on both sides of a change |
| `ptt_second_symbol` | as `ptt` | violation: the radio is switched off while the last symbol of the burst is sent |

The random access and sync symbols, the PTT symbols and the shift of the uplink are the code's in all runs.

`MacChannel` is run without the deadlock check: a channel is over when it has been parsed. So are `SlotHandover` and `FrameQueue`,
in which the program may end with an access to a user or a fragment that is not there, and `EtherMap`, in which the base station may be down. All other runs check for deadlock.

### Time in `SlotHandover`

The time checks of the code bound the slot thread and the scheduler by 3500 us, which is 13 symbols of 265.6 us (the run allows the scheduler 23, the most for which the properties are proved); buffers of the radio have two symbols (a check of 530 us).
The receive thread runs on a processor of its own and is never late; the slot thread and the scheduler share the other, and the scheduler has the higher priority.
A thread that is woken and has its processor to itself starts before the next buffer. The BS signals its scheduler at transmit symbol 46, which is symbol 4 of the uplink. `DLCTRL_LEN` is even, since `SUBFRAME_LEN` is and the radio's buffers of two symbols keep their place in it.

### Fairness

`MacScheduler` has weak fairness of the run itself, `MacChannel` of parsing: each is a loop of one thread at real-time priority which waits for nobody.
`MacSession` and `McsSwitch` have weak fairness of the two schedulers: subframes follow each other, at the rate of the sample clock, whatever is received.
`FrameQueue` has weak fairness of the scheduler thread: it is woken in every subframe; runs that give the user no slot do not touch the queue and are not steps (that a user with a high id may get none for ever is conceded by a TODO in the source).
Nothing is assumed of the radio link, of the transmit thread, of the TAP thread or of users; slots may be lost for ever.
`EtherMap` has weak fairness of each thread's next step and of the two timeouts (a user that nobody answers for is noticed, a client whose user is gone notices), and of runs that give a user with messages a downlink slot;
strong fairness that every address behind a client is heard again and again. The latter is not the code's but the network's: an address that never sends is never learned. Users that are never served are the TODO in the source.
`PttTiming` has weak fairness of the transmit thread, of the pin's thread and of time: the radio takes its samples at the sample clock, and both are real-time threads. `TxAlign` alone, `UeTransmit` and `SlotHandover` have safety properties only and no fairness.

### Time in `PttTiming`

Time is counted in samples, and passes only while the transmit thread waits for a free buffer and the pin's thread waits for its condition: both run on one processor, the pin's thread with the highest priority, and the time check of the transmit thread bounds its work by the duration of a buffer.
The delay of the hardware (`ptt_delay_comp`) is taken to be what it compensates. Clock and sample clock are taken to be the same.

## What is proved

For every value of the constants that satisfies the named assumptions (`FragAssumption`, `SchedulerAssumption`, `FrameQueueAssumption`, `ChannelAssumption`, `AlignAssumption`, `PttAssumption`, `ApartAssumption`, `GpioAssumption`, `EtherMapAssumption`, `SessionAssumption`, `TransmitAssumption`, `HandoverAssumption`, `McsAssumption`):

- `MacFragmentation_proofs`: `TypeCorrect`, `FragmentsAlwaysFit`, `DeliveredAlwaysIntact`, `DeliveredAlwaysOnceInOrder`, `CountsAlwaysExact`, `DeliveredAlwaysWhole`; of `MacMessages` and `MacChannel`, which carry the fragments: `CreatedFits`, `ControlMessagesSurvive`, `FragmentSurvives`, `ChannelTypeCorrect`, `ParsedAlwaysAdded`, and under `Room3` (below) `MessageNeverLost` (an action property).
- `MacScheduler_proofs`: `TypeCorrect`, `HalfDuplexAlways`, `HearsAssignmentAlways`, `ReservedFreeAlways`, `CtrlSlotAlways`.
- `FrameQueue_proofs`: `TypeCorrect`, `RingInvariant`, and `QueueImplemented`: `FrameQueue` implements `BoundedQueue`, with and without `Preempting`; `CounterExact`.
- `TxAlign_proofs`: `FollowsAlways`; `RadioImplementsAlign` (a refinement: every step of `PttTiming` is a step of `TxAlign` or leaves its variables alone), and `FollowsOnAir` by it; `RadioTypeCorrect` and `PinAlwaysFollowsAir` for transmit thread, radio and pin together.
- `EtherMap_proofs`: `TypeCorrect`, `EntriesAlwaysBelong`, `AlwaysQueuedWhereHeard`, `OnlySilentEnded`; of `McsSwitch`, `McsTypeCorrect`, `ClientAlwaysFollowed`, and within `InTime` (below) `AlwaysAgree`.
- `MacSession_proofs`: `TypeCorrect`, `AlwaysSharedByTwins`, `UsersToldBeforeRemoved` (an action property), `AlwaysOneUserPerAttempt`.
- `UeTransmit_proofs`: `TypeCorrect`, `DataAlwaysGranted`, `PttAlwaysInWindow`, and, if slot 1 and control slot 0 are not given together (`~Ctrl0After1`), `DataAlwaysWithPtt`.
- `SlotHandover_proofs`: `TypeCorrect`, and within `Budget` (below) `SlotsDecodedAsAssigned`, `UsersRemovedLate` and `SlotsLostBehindScheduler` (an action property).

`DeliveredIntact` is not inductive: that the reassembler's fragments are of one frame depends on what is on the air and on where the fragmenter stands.
The invariant `IInv` says (1) that every fragment is genuine, i.e. that its header fields are the frame and fragment counts modulo their widths,
(2) that what is stored was cut in order and that fragments cut one after the other have adjoining bytes,
(3) that all of it was cut before what the fragmenter cuts next. A chain of fragments numbered 0, 1, 2 ... with one sequence number whose frames are fewer
than `MAX_SEQNR` apart is then of a single frame (`ChainInWindow`, by the lemma that two numbers that agree modulo m and are less than m apart are equal), and adjoining.
Beyond the window the statement is false: after losing exactly 4 frames' worth of slots in the middle of two frames the reassembler splices them, as 2 bits cannot tell them apart. The property says so in `WithinWindow`.

The byte counters are folds (`Total`, `Bytes`), and what a fold gives cannot be proved by induction over the sequence here. It is the unique function of partial sums (`TotalUnique`, by the least number at which another one would differ), and that is enough:
appending adds the size of what is appended, taking the head off subtracts it, and frames of at most a given size have at most that many bytes each. `CountsInv` says what the counters of fragmenter and reassembler are sums of, and `DeliveredAlwaysWhole` that an intact frame's sum is its size.
`ParsedIsAdded` rests on one lemma for each type of message: it `Survives`, i.e. a buffer that starts with its bytes is parsed as it, whatever follows. That is the arithmetic of the bit fields, for every value the create functions can leave (`CreatedFits`), and for fragments of up to 4095 bytes, which is why `ChannelAssumption` bounds the slot.
`ChannelInv` says that the bytes have a `Layout`: there is a sequence `at` of places, the k-th message added is at `at[k]` and ends where the next begins, and behind the last there is a byte 0 or the end. Padding begins behind that byte, so that it leaves the layout alone; the parser stands at one of the places, and what it has taken out is what was added up to there. At the last place it finds nothing (`NothingBehind`).
`NoMessageLost` needs more: the loop goes on while 2 bytes are left and a response to an association has 3. What saves it is that responses come first in a channel of their own, and `Room3`: the usable bytes are not 2 more than a multiple of 3 (a slot of the lowest mcs has 60 besides its CRC), or there are enough for a full queue of 32 (`MAC_CTRL_MSG_BUF_SIZE`). `Room3` is sharp: with 8 usable bytes TLC finds the third of three responses taken from the queue and lost.
In `FrameQueue` the counter is right only up to what the threads have in hand: `CountInv` says for each step between a put or a get and the store of its count what is missing, and `SeenInv` that the scheduler has seen a frame before it asks for one.
Both need that at most one of the two threads is between such steps, which is `overlapped`; and that a full ring can be counted at all, which is the assumption that its frames have fewer bytes than an `unsigned int` counts.

`HalfDuplex` speaks of symbols, and is not inductive either: which symbols overlap is arithmetic on the slot layout, done once in four lemmas (`UlSlotOverlaps` ...),
which leave a few pairs of slots that no user may have together. The scheduler's `IInv` says (1) which tables are empty in which loop, without which the downlink's check, made before
any uplink slot is given, would not be enough (`LoopInv`), (2) that those pairs are never given to one user (`SlotInv`, `SyncInv`),
(3) that whoever had a control slot in the row before is given nothing (`DeafInv`), for which two rows in sequence must have control slots for different users (`CtrlInv`).
`CtrlSlotAlways` has an invariant of its own, `TurnInv`, which bounds the count of missed rows by the distance from the user's turn.

That the ring is a queue rests on `RingInv`: what a thread has found out about the ring stays true until it acts on it. A put that has seen a free cell still has one when it moves `writepos`,
since the other thread only makes room, and the cell holds the frame it has written; a get that has seen a frame still has it at `readpos`. `FramesInv` adds that whatever is in the queue is a frame, so that what is got is one.
The rest is the arithmetic of the ring: a put appends (`PutAppends`), a get takes the head off (`GetTakesHead`), writing the free cell changes nothing (`WriteOutside`), also where the positions wrap.

`FollowsDownlink` becomes inductive with the types of the numbers (`TypeInv`), with what holds before the thread has started (`WaitInv`) and before the first offset is set (`FlagInv`: all offsets are 0),
and with `StartInv`: the negated offset that the thread starts with is left behind before the receiver's has moved by more than one drift, so that one turn round the buffer is always enough for `Nearest`.
The work is in `Adapt`: shift and symbols together move the uplink by exactly `diff`, however often the shift wraps, which is the division theorem.

`PinFollowsAir` looks at the moment in which a sample is sent; the invariant `PInv` has to say what will happen to all samples that are on their way. `AirIs` does: for each of them the level is that of the last event due before it, or the pin's if none is, and `LevelIs` continues this to the samples not yet written.
`DelayInv` and `LengthInv` give the distance between an event and the samples of its symbol when both are written: the samples on their way are exactly the buffers' then, as time passes only while the transmit thread waits. `EventInv` bounds the events by the samples written, so that a new event is the last one and the older samples are not touched (`NewEvent`) and samples written after it have its level (`LevelLasts`);
for that a buffer must have at most one event, which is `ApartAssumption` (the PTT symbols 14, 29, 31, 33, 48, 63, and 49 and 54 for random access, in buffers that begin with odd symbols) and `SymbolInv`. `QueueInv` and `DueInv` say that the thread of the pin waits for the last event of a sorted queue, so that a timeout is about the event that is due; any order that `qsort` may give to events at one time will do (`ReorderKeeps`).
All but the types holds only as long as nothing has happened that `PinFollowsAir` excludes (`Kept`).

`EntriesBelong` is not inductive: `EntryInv` says that an entry of another session than its user's was marked when it was entered, and that its user exists or the slot thread is about to follow the null pointer.
`TapInv` says the same of the entry that the TAP thread has found, unless the scheduler has removed the user since; `MissedInv`, for `EndedHasMissed`, that a user is silent only if it missed something or is still being added.

`SharedOnlyByTwins` rests on `RachInv`: of every session all who know a random id for it know the same, be it a response in the queue or on the air, a client that has taken one, or the base station, which would repeat it for the user added last.
`CountInv` says that sessions are numbered, so that nobody knows of a new one; `ClientInv` that a client that repeats its request has a random id, and one that is associated a session.

`OneUserPerAttempt` and `RemovedIsTold` rest on `UserInv`, which adds to that invariant: `ToldInv` (a user that will be removed has the end of its session in its queue, or the queue is full), `IdleInv` (the timer of a client that is not associated stands at 0, so that it cannot expire on a response just taken), `LastInv` (the owner of the last session, unless it has been answered, is still asking with the random id the base station remembers, and a user of that session is the one added last) and `TurnInv` (no session follows one of the same owner while the user of the first is there). The step that matters is a request that begins a session (`LastTurnAdds`): had its sender begun the one before too, and were that user still there, the base station would have known the request again.

In `UeTransmit` what is in a row is worked out once: `MapRowIs` gives every symbol of a row that the scheduler fills, for any set of slots, as a function of the slots and control slots (`Row`), and the last symbol of the row before, which slot 0 switches on or joins.
From there no step looks at the mapping again: `RowForward`, `RowBackward` and `RowInWindow` say what stands behind and before a symbol that keeps the radio on. `RowInv` says that a row holds what it was filled for, an old one something that was once given;
`LastInv` follows the last symbol of the two rows through the moment at which the run for the next subframe sets it; `SentInv` and `OffInv` tie `sent` and `ptt` to the symbol written last. `DataWithPtt` needs a second invariant, `OnInv`, in the other direction: behind which symbols the radio is on.
It is there that the client has to have been associated for a whole subframe (`steady`): one that is associated again in the middle of slot 3 of a row it has from its last session joins slot 0 to it without switching on.

`SlotHandover` is correct only in time, so that its theorems assume `Budget`: `DecodeTime < SLOT_LEN`, `SchedSymbol + 1 < SLOT_LEN` and `SchedSymbol + SchedTime < 2 * SLOT_LEN`; with the code's layout 13 symbols to decode and 23 for the scheduler, while its time checks complain from 13 symbols on for either.
The first is sharp: with 14 symbols TLC shows a slot lost without the scheduler; the last is only what the proof needs. The invariant bounds where each thread is by symbols: `SchedInv` (the run is as far as the symbols since its start), `WokenInv` (a thread that has been woken looks its slot up before the next one ends, or before the scheduler is done, so that `rx_slot_nr` is still the number it was woken for),
`DecodeInv` (slots 0 to 2 are decoded before the next run of the scheduler) and `UndelayedInv` (a thread that was not delayed has computed for all but one of the symbols since its slot ended). The arithmetic is in `Gaps`, `DueIs` and `StartInside`.
Only `TypeCorrect` holds whatever the times.

The invariant of `McsSwitch` is of the two sides, whatever else is under way (`BothInv`). `ReqInv`: a request is made once, so that as long as it waits there is no order, change or timer of its direction; `OrderInv`: an order in the queue is for the change of the moment, or, in the uplink, for one that has expired, which leaves modulation 0; `AckInv`: what the client acknowledges it has done, if the change has not expired since. `FollowInv` is `FollowsClient` with the pending modulation.
A slot has any number of messages and each side folds over them. That what holds before a message holds behind it is lemmas about one message (`OrderFollowed`, `AckHandled`, `ReqHandled`); that the fold goes through them one by one is the function of all sets of indices that it is made of, which exists and is unique (`HandlesExists`, `OneByOne`), again by the least number at which something would fail.

`AgreeUnlessLost` is a race of the acknowledgment with the expiry of the change, and a second invariant, `KeptInv`, follows it: either a slot has been lost in this session, or the change of the uplink is `Through`, or `Ordered` (the order is the first message in the base station's queue and is as old as the user's messages have waited), or `Told` (the client has taken it, and its acknowledgment is the first message in its queue, or the second, behind the request for the downlink), each with the subframes that are left; and a client with another downlink than the base station has acknowledged it (`DlAgrees`).
A data slot that is sent in the old modulation meanwhile is thrown away and takes at most the request for the downlink with it. The theorem assumes `InTime`: an order lives for two gaps between control slots and one subframe, and for a gap of each kind. Both bounds are sharp: with one subframe less of either TLC finds `AgreeUnlessLost` violated.
In the code an order lives for 32 subframes (`MAX_RESPONSE_TIME`), and a user has a control slot in one of 8 (`mac_bs.c` 528-532), i.e. gaps of 7, so that `InTime` holds as long as a user waits no more than 25 subframes for a downlink slot. The code does not bound that: a user with a high id may wait longer, or for ever, as the TODO in the source concedes. It is a statement about the load.

Only model-checked: liveness (`AcceptedIsSent`, `ParseEnds`, `ReturnsToRx`, `Relearned`, `StaleNotices` and the others), which the proof system does not handle.
Type correctness is among the runs' properties only where a clock or a counter could leave its range: in `transmit`, `slots`, `ptt` and `channel` (`ChannelTypeOK`), which are proved too, and in `mcs` (`McsTypeOK`), proved as well. For the other components it is proved as well (`TypeCorrect`), but not listed in a run.

## Disagreements between comments and code

- `phy_ue.c` 634-639: a control slot 0 right behind data slot 1. `phy_map_ulslot` has put PTT_DOWN between them; `phy_map_ulctrl` neither replaces it nor switches the radio on. Run `ptt_before_ctrl0`.
- `pluto.c` 485, 492: PTT events get the delay of the moment in which their symbol is written, and the two symbols of a buffer are written at once (`client.c` 188-189). `phy_ue.c` 705 wants the radio off "after this slot"; behind slots 0 and 2 and behind a random access request the PTT symbol (14, 48, 54) is the second of its buffer, and the radio is off during the last data symbol. Run `ptt_second_symbol`. It does not happen to a PTT symbol that is the first of its buffer: with such symbols only, `PinFollowsSymbols` holds.

The following have no run of their own: what holds up to them is stated by the property named.

- `client.c` 178: the transmit thread starts with the negated offset, and its first check moves the uplink by twice the offset (once round the buffer) although nothing has changed. `test_mac.c` 150-181 has the same arithmetic with a single sign, where nothing moves. `FollowsDownlink` is stated relative to where the first check leads.
- `mac_bs.c` 113-115: "the same user as the last one added" is recognised by a random id of 4 bits; another client may have drawn it (`SharedOnlyByTwins`).
- `phy_bs.c` 317-321: a user that is assigned a slot "but does not exist ... should not happen": it does, after the check, when the scheduler removes the user while slot 3 is decoded; `mac_bs_rx_channel` then uses a null pointer (`RemovedOnlyInLastSlot`; in `EtherMap` the BS is down).
- `mac_fragmentation.h` 51: the buffer size is not always "bytes that could be sent": a frame is in the queue before it is counted, and a scheduler that runs in between may later use a fragment that it did not get (`ExactUnlessOverlapped`).
- `mac_bs.c` 404: users are removed when "all remaining data has been sent": only the control messages are looked at, frames in the fragmenter are freed with the user.
- `mac_bs.c` 138-140: a run of the scheduler between `ue_create` and the assignment of `last_seen` ends the session of a user that has just come, or removes it, and the assignment follows a null pointer (`EndedHasMissed`).
- `mac_bs.c` 286-301: an address that is entered after the scheduler has removed its user stays, for the next user of the id (`EntriesBelong`).
- `client.c` 224-225: offset and advance are read again after they have been used; a change in between is never applied (`torn`). `client.c` 216: skipped symbols may lead beyond the end of the subframe, where the counter starts again at 0 (`slipped`).
- `client.c` 200 checks from symbol 29 on (`>=`), `test_mac.c` 178 at symbol 29 only (`==`), and the test has no wrapped difference.
- `pluto_gpio.c` 215: a timeout is taken to be about the last event, which may have been appended after it. `pluto_gpio.c` 186: a time of exactly a second is not normalised, and the thread spins. `pluto_gpio.c` 216: an hour without events makes the count negative, and the next event is written in front of the array.
- `phy_ue.c` 499-505: rows are cleared only when the scheduler runs, so a client that loses its synchronisation goes on sending the content of two rows (`DataOnlyGranted`).
- `mac_bs.c` 434: the loop leaves out the last user, whose changes never expire (`ChangeEnds`). A client whose acknowledgments are all lost keeps the modulation that the BS has cancelled (`AgreeUnlessLost`).

## Not modelled, and why

Signal processing (synchronisation, gain, modulation, coding: numeric, in liquid-dsp), libiio and TAP I/O, configuration, logging, the simulator and the calibration tool.
The CRC is taken to detect every damage. The scheduler is taken to finish within its subframe, and the client's before the last symbol but one.
In `EtherMap` a walk through the list of addresses is one step: what a thread sees that walks through the list while the scheduler frees an entry is undefined, and is not described. In `GpioEvents` an event written in front of the array sets the stop signal or does not; what it does to the mutex is not described.
The loss of synchronisation, gain control, the sync info slot, the reports of the clients' queues (`ul_req`) and the choice of who is served, and the simulator have no module.

## Plan

Done: fragmentation, messages and channels, the scheduler, the client's symbol rows, sessions, the change of modulation, the hand-over of slots, the ring buffer, the user and address tables under their threads, the alignment of the uplink and the timed switching of the radio, with the proofs above.

Left, in this order:

1. More than one producer of control messages: `FrameQueue`'s steps for the three threads that put into one user's queue, and the user's destruction.
2. Rows of the physical layer that name an id which has been given again: composes `SlotHandover` with the user table of `EtherMap`.
3. An address that moves from one client to another, and addresses behind more than one.
4. The report of the queue's size (13 bits in `mac_ue.c` 253) and what the scheduler makes of it.
5. The loss of synchronisation in the middle of a frame.
6. Proofs: a sharp budget for the scheduler in `SlotHandover`.

Runs are kept to one or two per module, with instances that show each hazard once.
