# SDR-J FM: specifications, model checking and proofs

The receiver takes samples from a device, demodulates FM, decodes RDS and plays
the sound.  This directory holds TLA+ models of the parts of it where threads,
queues and protocols meet, what TLC checks about them on small instances, and
what TLAPS proves about them for all instances.  Paths are relative to the
root of the repository (its own `src/` included, as in `src/rds/`).

Run a check with `tlc -config MCRingBuffer.cfg MCRingBuffer`, a proof with
`tlapm RingBufferProofs.tla`.  `PROJECT.json` lists the parts of the system, the
runs, the properties each checks, the lines each definition models, and for
every property a plausible mistake (a definition commented "Mutant:") that TLC
finds with it.

## The system

### Threads

| thread | code | what it does |
|---|---|---|
| GUI | `radio.cpp`, `main.cpp` | buttons, timers, the slots of queued signals; it owns and deletes everything |
| processor | `src/fm/fm-processor.cpp` (`run`) | waits for 16384 samples, filters, demodulates, decodes RDS, puts sound into the sink |
| device | e.g. `RTLSDRCallBack` | puts samples into the device's ring |
| sound | `src/output/audiosink.cpp` (`paCallback_o`) | takes sound from the sink's ring |
| file reader | `devices/filereader/filehulp.cpp` | plays the device with a file |
| sdrplay v3 server | `devices/sdrplay-handler-v3/sdrplay-handler-v3.cpp` | serves a queue of commands from the GUI and fills the ring in a callback |

There is next to no locking.  The threads meet in

 * rings (`src/various/ringbuffer.h`) with one writer and one reader: the device's,
   the sink's, and three that feed the scopes;
 * plain or atomic variables of the processor that the GUI writes: filters,
   `scanning`, `dumping`, `rdsModus`, squelch, volume and so on;
 * objects of the processor on which the GUI calls functions, such as
   `rdsDecoder::reset`;
 * signals of the processor, queued for the GUI and delivered by its event loop.

### Inventory

| component | state | operations | what is hard | what makes it correct |
|---|---|---|---|---|
| ring | two indices modulo twice the size, slots | put, get, amounts, flush | two threads in the middle of a copy; wrapping; the flush | a bounded fifo; no slot touched by both |
| sample path | the device's ring, its worker | restart, stop, callback, wait and get | restart while the processor gets | the ring never claims what it does not hold |
| filters | width, marker, switch of each | choose, switch off, take up | choices in the middle of taking one up | what is chosen is what is used |
| RDS block check | 26 bits, offsets, register | syndrome, offset, error correction | bit arithmetic | exactly the right blocks pass |
| RDS synchroniser | place in the group, bit count, synchronised | pushBit, resync, set clock, choose decoder | spoilt, lost and added bits; four blocks belong together | no group made of pieces; sync found again |
| RDS group decoder | PI code, label, text, registers | decode, reset, show | reset by another thread, late groups, late signals | nothing mixed; the station tuned is shown |
| life of the processor | threads, dumps, device, run mode | start, pause, dump, quit | orders of starting, quitting, results and writes | nothing deleted in use; writes begin with the file open; dumps closed; quitting ends |
| auto tuner | index, timer, frequency, scan buffer | fc+/-, timeout, result, pause | results overtaken by the timer; a silent processor | stays in its limits; finds a station; is not left silent |
| tuner, AFC | VFO, local oscillator, PI code log | setTuner, showMetaData | values read across threads, small steps | frequency shown and frequency tuned agree |
| sink | ring, stream, dump pointer | putSamples, restart, select | full ring; restart while paused | left and right stay apart |
| sdrplay v3 | command queue, run flags | restart, stop, gain, callback | GUI waits for the server | every command is answered |
| file reader | file, pause, exit flag | start, pause, close | the exit flag is cleared at the start | the file is heard in order; closing ends |
| other device handlers | thread or stream of each, its flags | restart, stop, delete | stopped before it has begun; a library that refuses | quiet when stopped; stop returns; samples come |
| their settings | widgets, members, the device itself, the settings file | set-up, every setter, tune, restart, save | set-ups that fail half way; refused calls; changes while stopped | what is shown is in effect, and is shown again by the next program |
| squelch | counter, averages, state | two kinds of squelch | hysteresis and hold period | no flutter |
| demodulator, filters, FFT | floating point | per sample | numerical | outside the reach of model checking |
| scopes, presets, keypad, settings, log | widgets, files | | wording and drawing | left out |

## Modules

| module | models | of |
|---|---|---|
| `BoundedFifo` | what a ring promises: the abstract specification | |
| `RingBuffer` | the ring, each call in its steps; shown to implement `BoundedFifo` | `ringbuffer.h` |
| `RingBufferFlush` | `RingBuffer` with the device's worker, the processor and the flush of `restartReader` | `rtlsdr-handler.cpp`, `fm-processor.cpp` |
| `FilterSetup` | both filters, between GUI and processor | `fm-processor.cpp` |
| `RdsBlockCheck` | offsets, syndrome, doMeggit | `rds-blocksynchronizer.cpp` |
| `RdsBlockSync` | all of `pushBit`, its counters, decoder 2's clock: one operator per function | `rds-blocksynchronizer.cpp`, `rds-decoder.cpp`, `rds-decoder-2.cpp` |
| `RdsGroups` | `RdsBlockSync` with any outcome of every test, and which blocks a group is made of | |
| `RdsReception` | `RdsGroups` with a sender and a channel; shown to implement `RdsGroups` | |
| `RdsGroupDecoder` | groups to display, both threads | `rds-groupdecoder.cpp`, `radio.cpp` |
| `Lifecycle` | the processor from start to quit, the dumps | `radio.cpp`, `fm-processor.cpp`, `audiosink.cpp` |
| `AutoTune` | the auto tuner with the scan of the processor, VFO and oscillator, the AFC's moves | `radio.cpp`, `fm-processor.cpp` |
| `SynchronousCall` | a device used by one call at a time: the abstract specification | |
| `SdrplayServer` | the v3 handler: set-up, server thread, queue of requests, signals; shown to implement `SynchronousCall` | `sdrplay-handler-v3.cpp`, the `Rsp...` classes |
| `PlayedFile` | what is heard when a file is played: the abstract specification | |
| `Playback` | file reader, its ring, processor, sink, sound callback, GUI; shown to implement `PlayedFile` | `filehulp.cpp`, `fm-processor.cpp`, `audiosink.cpp`, `radio.cpp` |
| `DeviceHandlers` | start, stop and deletion of seven handlers | `rtlsdr-`, `airspy-`, `hackrf-`, `lime-`, `pluto-`, `sdrplay-`, `colibri-handler.cpp` |
| `DeviceSettings` | choice, set-up, settings, tuning, start and deletion of six handlers, over several runs of the program | the same but colibri; `radio.cpp` |
| `...Proofs` | theorems and proofs about the module of that name | |
| `ProcessorProofs` | the same about `FilterSetup` and `Lifecycle` | |
| `MC...` | the constants for TLC | |

Variables and actions carry the names of the code where the code has one
(`writeIndex`, `incrementIndex`, `StopReader`, `CheckFlag` for the test of the A/B
flag, ...).  Values of the code that only wording depends on are left out.

**RingBuffer.**  `wPc`, `rPc` say whether a put or a get is under way.  A put is
`PutBegin` (read the indices, clip, fix the regions), `PutCopy` (one element of the
memcpy) until done, `PutEnd` (advance the index); a get likewise.  The indices run
modulo 2N and differences are taken modulo `Word`, as with `uint32_t`.  The
memory barriers of the code are what makes the steps of one thread appear in order
to the other, and are not modelled apart.

**RingBufferFlush.**  The GUI stops the worker and waits for it, sets both indices to
0 in two steps and starts another worker; the processor is where it happens to be.

**FilterSetup.**  A choice is the store of the width and the store of the marker, or
the store of the switch; the processor tests the marker, designs, switches on,
clears the marker, for one filter after the other.  The ghost `choice` is what
the user chose last, `raced` whether a choice fell into such a passage.

**RdsBlockCheck.**  A word is the set of the positions of its ones.  The register is
computed as the code does, turn by turn (`Registers`, a recursive function over the positions), and compared with long
division (`Division`, another).  `decodeBlock` takes the one block on the air, disturbed, for the block expected; `arrived` says
that it has been, so that a block of zeros counts as one.

**RdsBlockSync.**  `rdsCurrentBlock`, `rdsBitsinBlock`, `rdsIsSynchronized`, the error count
and `isTypeBGroup` as in the code, each of the three pushBit functions one operator
together with what `rdsDecoder::processBit` does with its result.  Whether a block
passes its test is the parameter `ok`.  In `RdsGroups` it is free; `since` counts the bits since a
block was stored last, `chain` says how many of the blocks stored last follow each other from a block A on, and
`handed` is the chain of a group that is complete.  `RdsReception` extends it and takes every bit through its `Bit`:
a sender sends groups of 4L bits over a channel that
may spoil, add or lose bits, and the device may be retuned; a block that was sent
passes, one that was not may or may not (a false positive is possible with 10 check
bits), which the ghosts `genuine` and `clean` keep apart.  A block that fails while
synchronised may leave inverted bits behind (`Inversion`), which are shifted out by and by
(`soiled`).

**RdsGroupDecoder.**  `decode` is cut where the other thread can see a difference: the
test of the PI code, the stores of `reset`, each store of a segment, each signal.
The GUI runs the same `reset` step by step; signals it emits itself are delivered
at once, those of the processor are queued in `events`.  `heard` is behind `tuned`
while samples of the last station are in the ring (`CatchUp`).  A small change of
frequency does not reset (`radio.cpp:940`).  Texts are told apart by station and
A/B flag only: that a station begins a text with the flag unchanged is up to it.  `airText` is the
text the station heard is sending, `programme` the groups it sends at all.

**Lifecycle.**  `guiPc` is the place in `handle_dumpButton`, `handle_audioDumpButton` and
`TerminateProcess`; `thread` the place in `run`.  `open` is the set of files open, apart from the
pointers and flags that the processor looks at (`dumpFile`, `dumping`, `sinkFile`).  The test of `dumping` and the write
it leads to are two steps, so that a file may be closed before a block that was begun is written.

**AutoTune.**  A frequency is a number of increments; a timeout and its setTuner are one
step.  The receiver is tuned to `vfo + loFrequency`: `setTuner` moves the oscillator alone as far as it
reaches (`Window`), and otherwise the VFO.  What the device then says its VFO is (`setVFOFrequency`) need not be what it was
told: it may have refused, or be off by up to `Slack`; the oscillator makes up for that, cut to `Reach` (`Clamped`).  The processor applies the oscillator at once, while the samples
it gets to were taken with the VFO it had (`heardVfo`), so that for a while it hears a third frequency, neither the
last one nor the new one.  The user may choose the limits anew at any time (`ChooseLimits`), and nothing keeps them in order or where the device
can be tuned; the AFC may move the frequency by a step
(`Afc`), which does not stop the tuner.  `scanBuffer` is the set of frequencies its 1024 samples are from; its
spectrum shows a peak if all are from stations, none if none is, and either
otherwise.  That rtlsdr adds its offsets to what it is tuned to at a restart is in `DeviceSettings`, not here.

**SdrplayServer.**  `pc` goes through `run`: the calls that set up the library, each of which
may fail, with `held` for what has to be given back; the loop; the end.  `guiPc` is the
place in `messageHandler` (push, release, wait) or in the constructor or destructor.  `applied` is the
setting of the device, `shown` that of the widgets, `posted` the queued signals that set the
range of the lna's widget.  The two gains are in one record (`gains`) that is handed over as a whole: one that was refused stays
there, and the next gain that is taken takes it along (`Entered`, `TakenUp`).  `lost` are the settings whose last change was
dropped or refused.  A request lives on the GUI's stack (`request`), and is in `server_queue` as long as it is
not popped.  The five models differ in `Rsp`: what their constructors assume and what they announce.
`IsSynchronous` maps all this to `SynchronousCall` with `Asked`, `Done` and `State`.

**Playback.**  One sample stands for those one frame of sound is made from, so that a file is
a sequence of numbers and `PlaysTheFile` can say in which order they are heard.  The reader's
thread, the processor, PortAudio's callback and the GUI each have their place; rings are sequences
with a limit (that they may be is `RingBuffer`).  `late` counts the blocks put since the last stop,
`raced` says that the reader was deleted before its thread had set the exit flag.

**DeviceHandlers.**  `kind` says which handler it is, `worker` where its thread or the library's stream
is, `running` its own flag, `cancelled` that the library was told to end.  Each handler has its own
`restart...`, `stop...` and `delete...`, for they differ in what they ask first.  `early` and `denied` say
that the last stop came before the thread had begun, or was refused by the library.

**DeviceSettings.**  One program after the other, on the GUI thread.  `SetupOf` lists what each constructor does before
it restores anything: what a step takes hold of and what is thrown if it fails; `getDevice` catches an
`int` and asks again, and anything else ends the program.  `shown` is what the widgets show with the members that
follow them, `device.applied` the last call the device has accepted for each setting (with the source of a gain, for airspy has three of
them), `device.refused` the settings whose last call it refused, `saved` the settings file.  A first start that is refused leaves the handler alive and its widgets connected, without a
processor (the place "refused"); the program then ends by `exit`, without the destructor.  What is read from the file is cut
to the range that the widget has for the device found (`Fits`).  `ds \bullet call` is what may become of a
set of devices with one more call, accepted or refused, so that a sequence of calls reads from left to right.  Each handler has its own constructor, `...SetVFO`, `...Restart`, settings and `delete...`.

## What is checked

| run | bounds | checks | shows |
|---|---|---|---|
| `ring_buffer` | 4 slots, calls of up to 3, 2 values | `NoSlotRace SeenAmountStays IsFifo` | the ring is a bounded fifo, whatever the interleaving |
| `ring_flush` | 4 slots, calls of 2 | `NeverMoreThanFits` **fails** | the flush is a second reader and writer |
| `filter_setup` | both filters, 2 widths | `OnMeansChosen ChoiceTakesEffect SettlesDown` | no filter with a width nobody chose; choices take effect, but those that fall into the processor's passage, of which nothing is claimed |
| `block_check` | 2 payloads, bursts of up to 10 bits at both ends, all pairs of bits | `AcceptedIffCodeword OffsetsTellBlocksApart BurstsRejected` | the bitwise check is the code it should be |
| `rds_reception` | L = 2, 1 bit lost at a time | `ReceptionTypeOK GroupIntact GroupConsecutive HealsSoon KeepsDecoding` | groups are four blocks one after the other, and as sent; sync is found within 8 blocks, and groups come for ever |
| `group_decoder` | 2 stations, labels of 2 segments, texts of 2 fragments, 2 signals queued | `NoMixedLabel NoMixedText ShowsStationTuned` | nothing is mixed; the display ends up right |
| `lifecycle` | 2 results queued | `BeginsToWriteOpen FilesClosed QuitEnds` | a write begins only with its file open; quitting ends, orderly (with the dumps closed) or, if the thread was only starting, by an abort |
| `auto_tune` | 5 frequencies, one refused by the device; lower limits 1, 2 and 4, upper ones 1 and 3, so that they may be one, cross, or be where the device does not go; a device off by up to one, the oscillator reaching 2, the AFC one step; 2 stations, one of them beyond most limits | `StaysWithinLimits SilenceEndsOnStation ScanEnds` | it keeps to its limits but in two named cases, is never silent for good on a station, and finds one between sensible limits |
| `sdrplay_server` | an RSP1, 1 frequency, 2 gains, lna 3 and 4, the agc, 2 signals queued | `RequestsLive NothingHeldWhenGone ShownIsApplied IsSynchronous EveryCallReturns` | the server is as good as a direct call, and gives everything back |
| `playback` | files of 3 and 4 samples, blocks of 2, buffers of 3, ring of 6, sink of 2 frames, callbacks of 1 | `TypeOK PausedIsQuiet PlaysTheFile SoundGoesOn ClosingEnds` | the file is heard in order and over again, and nothing waits for ever |
| `device_handlers` | all seven | `QuietWhenStopped StopReturns SamplesCome` | which handlers stop, return and start again, and when not |
| `device_settings` | six handlers, 2 positions of each slider, one of airspy's gains, 2 or 3 gains of rtlsdr, 2 models of sdrplay with an lna within the range of both or of one, 2 frequencies, 1 setting refused at a time, 1 changed after a refused start | `TypeOK InEffect SettingsSurvive BiasOff` | what is shown is in effect while the device runs, with named exceptions; it is shown again by the next program; airspy's bias is off |

What TLAPS proves of every instance (`AvailableBounded`, `RegionsHold`, `ChainFollowsPlace`,
`TimerHasDirection`, `DeviceOutlivesProcessor`, and the type invariants of all modules with proofs) is not run again.

`ring_flush` is meant to fail: `restartReader` flushes the ring (`rtlsdr-handler.cpp:235`) while the
processor may be between getting the read index and advancing it, and the ring is by its own
comment for one reader and one writer.

### Noticed while modelling, and in the models as they are

 * Filters: a width chosen between `fm-processor.cpp:401` and 403 loses its marker and is never
   made into a filter (the premise `~raced` of `ChoiceTakesEffect` excludes it); "Off" between 400 and
   402 is undone by 402, against `README.md:53`.
 * RDS: `doMeggit` (`rds-blocksynchronizer.cpp:175`) reduces the register before the shift, finds no
   single wrong bit, and inverts others.  Its result is not used, so that the block is
   rejected anyway, but the search for the next block A goes over the inverted bits: that is
   the `- 1 - CrcBits` in the bound of `HealsSoon`, nearly a block more than without.  The register of
   label segments is or-ed with `2 * index` for `1 << index` (`rds-groupdecoder.cpp:196`), so that its branch
   for a complete label is never taken.
 * Quitting: `stop` before the thread has set `running` (`fm-processor.cpp:206`) does not wait for it;
   the pointer to the deleted processor is not cleared, and a scan result still queued uses it
   (`radio.cpp:611`, 1028).  A dump may be closed under a block that is being written (`radio.cpp:1120`,
   `fm-processor.cpp:451-457`; the pointer `dumpFile` is never cleared).
 * A device that cannot be started (`radio.cpp:517`) leaves the program without a processor but with a handler
   whose widgets work.  Quitting is then `exit (1)` (583), without the destructor: what was changed is not saved, and airspy's bias
   stays on if it was switched on (`SettingsSurvive` is about what the last destructor saved, `BiasOff` excepts it).
 * SDRplay v3: gain and lna changes are dropped while the receiver is stopped and not made up for; the
   ppm correction is not applied at the start; tuning while paused starts the receiver again.  The bounds the
   models announce for the lna are mostly numbers of states, one more than the highest state (10 for states 0 to 9 of an RSP1A), and
   none of them checks what it is given, though "it is up to the particular Rsp to check" is what a comment asks (`Rsp-device.cpp:79`); `ShownIsApplied` judges what
   was announced, not whether that was right.  A restart
   that fails still sets `receiverRuns`.  An overload is acknowledged on the library's callback thread
   (421), against the comment at 286.
 * Files: after an output could not be opened the sink keeps the handle of the closed stream; an
   output chosen while paused starts the stream again (`PausedIsQuiet` says so).  `ExitCondition` is not
   initialised until the thread sets it, and a reader deleted before is waited for for ever (`raced`).
 * Other handlers: a stop before the thread of lime or rtlsdr has begun waits for ever (`early`); the
   branch of pluto that "should not happen" (`pluto-handler.cpp:506`) happens, after an early stop; airspy
   flushes the ring with the stream running if the library had refused to stop.
 * Tuner: the boxes for the limits have a step of 100 and initial values in kHz (`forms/configwidget.ui:108-141`), while
   what they hold is taken for MHz (`radio.cpp:311`, 1071): one click on an arrow moves a limit by 100 MHz, and limits can cross.
   `StaysWithinLimits` says what becomes of such limits.  The oscillator moves on before the samples of the new VFO are there
   (`fm-processor.cpp:469`).  `setTuner` resets the RDS data (941) before its caller assigns `currentFreq`, so that
   `setPiCode(0)` takes note of the frequency that is being left (1425).
 * Set-up: `getDevice` catches `int` (`radio.cpp:717` and the like), most handlers throw `device_exception`: the program
   ends where "loading device failed" was to be said.  airspy goes on after a failed open
   (`airspy-handler.cpp:95`).  rtlsdr calls `dlclose` for a handle that was never set (128, 152) and
   leaves the device open if it refuses the rate (160), so that the next attempt fails.  The older sdrplay
   tests an `err` that was not set (`sdrplay-handler.cpp:133`).  `getDevice` has no branch for it, nor for colibri,
   whose rate of 1920000 it would refuse.
 * Settings: airspy starts with the third tab shown and the first one's gains, and a restart ends with those whatever the
   tab (230); hackrf asks its widgets after they were deleted (227); pluto saves `pluto-agcMode` and reads `pluto-agc`;
   sdrplay saves the bias outside of its group (861).  rtlsdr adds the offset in Hz again with each change
   (316) and both offsets again with each restart (240), reads beyond its table for a gain of 0 and ignores the highest (268); colibri's
   slider passes a position where decibels were computed (`colibri-handler.cpp:133`).  sdrplay's agc gets the gain
   reduction shown as its set point when it is switched on (804), and -30 at a start and with a change of the lna (459, 537).  A bias
   is shown as on also where the library (rtlsdr) or the hardware (sdrplay of version 1) has none.  The register that hackrf's ppm
   correction goes to "does not seem to work yet" (`hackrf-handler.cpp:336`): that it is in effect says that the library took it.
   `InEffect` and `SettingsSurvive` name these exceptions (`Kept`, and the cases of `InEffect`) and claim nothing of them.

Why the bounds are enough.  Four slots and calls of three make every call fill,
wrap and be clipped.  What the block check finds does not depend on the payload (`SyndromeIs`), so one
payload beside zero does; all errors of up to ten consecutive bits at either end
are enumerated, and where else in the block they lie makes no difference (`BurstsLeaveTraces`).  In `RdsReception` a block of two
bits is the shortest of which a lost bit spoils a part, and `CrcBits = 0` lets `doMeggit` invert any of
them; what is proved holds for every L.  `HealsSoon` is tight: with one bit less
it fails.  Two stations, two segments and two queued signals are enough for a label or a text to be mixed,
overtaken and put back: each mutant is found with these numbers.  Stations that send a
label, a text, or the first segment of each are checked one after the other (`Programmes`), for each group
is decoded by itself and the buffers are disjoint.  One speed of the tuner either way has the index pass through 0,
which is what matters of it.  With the limits of `AutoTune` a scan can turn round at either limit, at one where the
device does not go, between two that are one, and between two that cross.  In `SdrplayServer` the agc stands for the switches (`Options` is empty), which are set by the same request.
In `DeviceSettings` a slider has a position that is its default and one that is not, and
rtlsdr's gain three or four, the two at the ends being special and the highest depending on the device.  With `MaxRefused` = 1 a call that sets
two or three things at once (sdrplay's gains and agc) is never refused in the run, nor is a second one while the first is
refused: the handlers look at no two together, and the theorems are about any number.  After a refused start one setting may
differ from what it was (`MaxLate`), of those that matter later.  Airspy's three gains are set by the same code, so one stands for them.  Offsets of
rtlsdr stop growing at `MaxOffset`.  Deadlock is checked, except for `Lifecycle`, which
ends, and `RdsBlockCheck`, which tests one block.

### Fairness

Safety needs none.  For liveness: in `FilterSetup` the processor's loop turns as long as
the device delivers (weak fairness of `Processor`), and a slot that has stored the
width goes on to store the marker.  In `RdsReception` bits keep coming and the clock
is set when due; nothing is assumed of the channel, and `KeepsDecoding` has the end of the
disturbances as its premise.  `RdsGroupDecoder`
has safety only: `ShowsStationTuned` is about the moments when the new PI code is in and no signal is under
way (if the new station sends no RDS, a late signal of the last one stays on display).  In `Lifecycle`
both threads are scheduled and a handler that has begun goes on; the device owes
nothing: `QuitEnds` holds though it may have been stopped in the middle of a buffer.
In `AutoTune` the timer goes off and results are delivered (weak).  The timer gives
each frequency a second at least and a block takes 5 ms, so each station gets blocks
of its own time and again: strong fairness of the processor's steps while
tuned to a station.  User and AFC are never fair; `ScanEnds` is about a scan that both leave alone, between limits that
make sense (`Sensible`) and with a device that from some time on goes where it is told.
In `SdrplayServer` the server thread and the GUI's handlers go on once begun, since every call of the
library returns, with or without success.  In `Playback` the reader, the processor, the
callback (while the stream is active) and the GUI's handlers go on.  In `DeviceHandlers` the threads are
scheduled, the library delivers samples while it streams, and a stream that was ended does end.

## What is proved

All theorems hold for every value of the constants that satisfies the named
assumption of the module (`RingAssumption`, `CheckAssumption`, `SyncAssumption`, `ReceptionAssumption`, `LifecycleAssumption`,
`TunerAssumption`, `FilterAssumption`, `ServerAssumption`, `KindsAssumption`, `DecoderAssumption`, `PlaybackAssumption`,
`SettingsAssumption`).

**RingBufferProofs.**  `RingInv` = types, `AvailableBounded`, `RegionsHold`.  Neither of the
latter is inductive alone: that the write index cannot overtake rests on the call in
progress fitting the room *now*, though it was measured earlier; and that follows since
only the other side moves meanwhile, and it only makes room.  `SlotsSafe`
(`NoSlotRace`) and `SeenStays` follow from `RingInv`, the former with the arithmetic of slots modulo N
(`RegionsDisjoint`).  For `ImplementsFifo` the invariant also says what has been copied so far (`FifoInv`):
the slots between the indices hold what the abstract fifo holds, those of a put in progress its
first elements; so that each advance of an index is a put or a get of the fifo, and each copy a stutter.

**RdsProofs: block check.**  For every payload of 16 bits and every disturbance of 26.  The runs of a recursive function over 26
positions are shown to exist by counting down from 26 (`CountDown`, `RegistersAre`, `DivisionIs`); no induction over data is
needed, as the length of a block is fixed.  A turn of the loop is ten equations between bits (`Turned`, `RegisterIs`), from which
it is linear (`LinearTurn`), hence the loop is (`Linear`), and a word one position up takes one turn without a bit more
(`Shifted`).  The generator itself leaves the register empty: that is eleven turns followed one by one
(`GeneratorVanishes`), and it is here that the premultiplied input 0x31B has to fit the generator 0x5B9.  So do its multiples
(`MultiplesVanish`); each step of the division takes one away, so that the remainder has the syndrome of the word
(`RemainderIs`).  A word of ten bits leaves the register empty only if it is empty (`NothingComesOnlyOfNothing`: the ten turns
backwards), wherever it lies (`BurstsLeaveTraces`).  From these: a word passes exactly if the division leaves nothing
(`AcceptanceIsExact`); what is found of a block does not depend on its payload (`SyndromeIs`), so that the five offset words, which
differ, tell the places apart (`PlacesToldApart`), and a burst of up to ten bits is seen as it is (`BurstsAreRejected`).  The
invariant `CheckInv` says no more than which block the syndrome is of; TLC has checked it on the states of the run.  That
`doMeggit` leaves the last ten bits alone, which `RdsReception` takes of it, is `CheckBitsLeft`.

**RdsProofs: synchroniser.**  First of `RdsGroups`: `ChainFollowsPlace` carries the argument: place in the group and bits in the
block say which blocks were stored one after the other, and when the last of them was.  Every operation keeps the
place while a bit goes by, or goes to the next place at the end of a block, where the chain grows by
the block that was due, or goes back to A, where nothing is claimed.  `GroupsAreConsecutive` is that invariant
read at the end of block D.  `ReceptionImplementsGroups` takes all this over to `RdsReception`, whose steps are
steps of `RdsGroups` or stutters.

`GroupsAreIntact` (`GroupIntact`) needs `InStep`: as long as all blocks stored for the group at hand are the sender's
own, either the sender is at the place where the synchroniser is, with that many clean bits behind it, or the present block was
disturbed, and then it is too short or at no place where a block ends, and will not be taken for one of the sender's.
That is where `MaxLost` has to be less than a group: a whole group lost leaves everything in its place.

`ReceptionHeals` (`HealsSoon`) needs `Healing`, which says by how many bits the receiver may be behind: while it
searches, that block A comes before the bound (`InTime`); out of the search, that either the present block
began before the disturbances ended (`Late`), and will fail or be right, or the sender is where the synchroniser expects it
(`Within`), and then blocks that pass take it to be synchronised with `ToGo` bits to go.  The bound
8L - 1 - `CrcBits` holds for every L, `CrcBits` and `MaxLost`.

**RdsProofs: group decoder.**  `DInv`: segments and fragments stored are of one station, and texts of one
flag (`Pure`); and which station follows from the PI code stored, unless a reset is under way in either
thread (`LabelInv`, `TextInv`).  `ShownInv` says what the display will end with when the signals
under way are delivered, which is what `DisplayEndsRight` needs.

**ProcessorProofs.**  Of `FilterSetup`: a marker that is set means that a width was chosen (`MarkerMeansChosen`); with it
`OnlyChosenWidths` is inductive.  Of `Lifecycle`: `LifeInv`, by which the place in `TerminateProcess` says whether the thread has been seen to
end and the files are closed; the processor's flag and the sink's pointer are up only while their file is open
(`FileBeforeFlag`), in the middle of the handlers too; the flags of the
GUI cover the open files.  Hence `WritesSafe` (`BeginsToWriteOpen`: a write begins in a state with its flag or pointer up), `DeviceSafe`, `FilesSafe`.

**AutoTuneProofs.**  That the timer has a direction is inductive with the types of the
index and the frequency, and is what makes a timeout ask for a frequency between the limits, or one of them if they cross
(`StepWithinLimits`): with index 0 it would walk off.  `Tunes` says what `setTuner` makes of that: what it returns is what is
tuned to, and what was asked for, unless the device refuses the frequency, and nothing changes, or strays by more than
the oscillator reaches (`Astray`).  `TunerAssumption` says nothing of the limits but that they are numbers.

**SdrplayServerProofs.**  A request passes through stages (none made, pushed, told, taken, completed), and
the places of the two threads say which: that is the invariant, and it is why the request on the stack
is alive when the server uses it and why the queue is used by one thread at a time.  `HeldByPc` says what is
held at each place of the set-up.  `Synchronous` is the refinement of `SynchronousCall`: taking a
request up is a stutter, carrying it out is `Perform`, seeing its answer is `Return`.
`ShownIsInEffect` (`ShownIsApplied`) needs `Agreement`: what the device has is what the widgets show, but for the request
under way, whose argument is what they show or what they are clamped to (`AskedIsShown`); `Recorded`, by which a gain that is not lost is
in the record as the device has it, so that taking it along changes nothing; and `LnaBound`, by which the bound
announced last, be it the widget's or still posted, is the one for the frequency applied.

**DeviceHandlersProofs.**  `IInv`: a handler's flag tells whether its worker lives (`FlagTells`), but in the cases
that `QuietWhenStopped` names; and a flush finds no worker (`FlushedFirst`).

**PlaybackProofs.**  `Inv`: where the threads may be at the same time (`Threads`: the exit flag is up only if the reader is being
deleted or has not begun; a processor that ends was told to; a stream that is not to sound is stopped or about to be);
that a paused reader has at most the one block at hand (`ReaderAtRest`, hence `QuietWhilePaused`); and what the
buffers hold (`Buffers`: a reader about to put has room for a block, so that the ring of the reader never overflows, though the room was
tested earlier; the sink's ring holds whole frames).  `PlaysAnyFile` is the refinement of `PlayedFile`: what is under way is
the sound of the sink's ring, then that of the buffer at hand and of the reader's ring.  A put of the reader is `Take`, or `Pause` where it puts silence; a
frame handed to the sink is a stutter, or `Lose` if it does not fit, and that only with `Capacity` frames before it; a callback is
`Play`; everything else is a stutter.

**DeviceSettingsProofs.**  What is in effect while a device runs was told to it at four different times: when its handler was
constructed, when it was tuned, started, or changed; so `InEffect` is far from inductive.  `DeviceInv` says of each handler from when on a setting is
right, also while the device is stopped (`AirspyInv` ... `SdrplayInv`): a setting is right if the device has accepted what is
shown, or refused the last call about it (`Has`).  The members that nobody sees had to be tied to the device too: airspy's `currentTab` is
0 or the tab shown; rtlsdr's `oldGain`, unless it is 0, is the last gain told; a bias for which rtlsdr has no function, or the sdrplay of version 1 no hardware,
is untouched; sdrplay's gains, ppm and frequency are right while it runs only, and its gain reduction only without the agc.
Never told is right only for a setting that a constructor leaves as it finds it and that is shown to be off.
What calls do is said once, for a set of devices (`Telling`, `OneCall`, `TellingOne`), and that each handler keeps its settings
right through all of its operations is a lemma of its own (`AirspyKept` ... `SdrplayKept`).  `SettingsAreKept` needs that
what is remembered is in the file as long as it is (`Remembers`) and that what is read has the range of its widget
(`SavedRanges`); `BiasIsOff` that the supply was never told but what its member says.  A refused start is a place as the others, with the
invariants of a stopped device, but that `exit` forgets what is shown and writes nothing.  `MaxRefused`, `MaxLate` and `MaxOffset` are any numbers.

Every invariant, action property and refinement of the runs that pass is a theorem.  Only model-checked is what speaks of
what happens some day, for which the provers have no rule with fairness: `ChoiceTakesEffect`, `SettlesDown`,
`KeepsDecoding`, `QuitEnds`, `SilenceEndsOnStation`, `ScanEnds`, `EveryCallReturns`, `SoundGoesOn`, `ClosingEnds`,
`StopReturns`, `SamplesCome`.

## What is not modelled

Signal processing in floating point: demodulator, filters, pilot recovery, stereo
separation, the three RDS bit decoders up to the bits they give.  Wording, layout,
widgets and the log; of the settings file only what the handlers of devices keep there.  The libraries of the devices, of which only the
calls and callbacks, and whether they succeed, are used.  Weak memory, see `RingBuffer`; the plain variables shared by
threads are taken to be read and written whole, as the targets of the build do.  Within the
components modelled: `skipDataInBuffer` (nobody calls it); the bit error rate;
programme type, alternative frequencies, music/speech flag, clock and alphabets of RDS;
how the AFC computes its offset (a filtered mean of the demodulated signal); the log of PI codes; for SDRplay v3 an
unknown model, overload events, and the choice of the RspDuo's tuner (`RspDuo-handler.cpp:160-178`: it swaps what later requests are for); of
the settings, the ranges of widgets (but sdrplay's lna and rtlsdr's gain, which depend on the device), negative positions, and colibri.
The lists of lime's antennas are taken to be the same for every program.  The squelch (averages and levels in floating
point), the feeds of the scopes (rings as in `RingBuffer`) and the rate converter.  The handlers of elad and
pmsdr are not built any more, extio on Windows only.

`RadioInterface::getDevice` deletes the device before the processor, against its own comment
(`radio.cpp:636`); a device is chosen only once, before there is a processor, so that this
cannot bite.

## Plan

1. `PiLog`: `setPiCode` and the log of stations, with the queued signals of the group decoder: a PI code is
   logged for its own frequency.  Run: three frequencies, two queued signals.
2. `ScopeFeed`: the rings for the scopes, their partial puts and skipped displays.
3. `Squelch`: hysteresis, hold period, thresholds changed in between; `DelayLine`.
4. `RdsText`: `prepareText` on characters, alphabets, the last character.
