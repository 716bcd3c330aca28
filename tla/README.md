# sdrdab in TLA+

A model of [sdrdab](../src), a software DAB/DAB+ receiver: TLA+ modules for its scheduler, threads,
buffers and decoders, TLC configurations that check them on small instances, and TLAPS proofs of
what matters most for every instance. File names below are relative to `src/src/sdrdab/` unless
they begin with `sdrdab-`; TLA+ names are those of the code wherever that was possible.

    tlc -config play_steady.cfg MCPlayPipeline      one run: the .cfg names the properties
    tlapm BuildingBlocksProofs.tla                  the proofs of some components

## 1. The system

A data feeder thread reads I/Q samples from a file or from an RTL-SDR dongle into a buffer of
floats. The scheduler finds the transmission mode and the null symbols in it, corrects the
frequency, reads the list of stations from the FIC and then, in the state PLAY, keeps a pipeline of
worker threads busy: synchronizer, demodulator, data decoder. Decoded audio goes to a blocking
buffer from which another thread feeds GStreamer.

                    sync_feeder_buffer_          demod_decod_buffer_         RingSrc's buffer
    data feeder  ======================>  demodulator ==========> data decoder ==> scheduler
     (file, radio)        ||                                                        ||
                          =====> synchronizer                       GStreamer <== audio thread
            \______________ reports: threads_event_queue_ _____________/
                                        |
                                    scheduler (owns all positions)

| Component | State | Operations | Interacts through |
|---|---|---|---|
| Ring buffer (`RingBuffer/ring_buffer.h`) | head, tail, last_op_write | read, write, element read and write, sum, reset | used by feeders, resampler, audio |
| Worker threads (`threading/signaled_worker_thread.cc`) | suspended and finished flags, condition | resume, suspend, finish, loop | mutex and condition per thread; report to the event queue |
| Event queue (`threading/blocking_queue.h`) | queue | push, pull | mutex, condition |
| Scheduler, SYNC and CONF (`scheduler.cc`) | state_, positions in sync_feeder_buffer_ | Start, Process, Sync, Conf, Stop | data_write_ and its mutex shared with the feeder |
| Scheduler, PLAY (`scheduler.cc`) | two buffers' positions, queue of frames, a "report handled" flag per worker | Play, Reconfigure, the resume and shift methods | event queue, resume_thread, flags set by the user's thread |
| Data feeders (`DataFeeder/`) | running, previous_write_here, resampling buffer, gain | ReadAsync, AsyncCallback | data_write_, its mutex and condition |
| Data decoder (`data_decoder.cc`) | window of frames, counters | FIC, time deinterleaver, MSC | works in place on demod_decod_buffer_ |
| DAB+ superframes (`DataDecoder/superframe.cc`) | buffer of decoded CIFs, index of the header | SuperFrameHandle, CircshiftBuff | fed once per frame by the data decoder |
| Audio path (`audio_decoder.cc`, `AudioDecoder/`) | blocking buffer, four flags, idle sources | Write, Flush, LastFrame, Process, callbacks | GStreamer's main loop; flags without a mutex |
| Drift estimation (`scheduler.cc:935-1137`) | table of carrier offsets, queue of clock errors, search range | CalculateAndSetDrifts and helpers | synchronizer, resampling thread, feeder: a closed loop |
| Synchronizer (`synchronizer.cc`) | the detected mode, the position found last | DetectMode, DetectAndDecodeNULL | the scheduler moves its read position by the result |
| Demodulator, FFT (`demodulator.cc`) | the deinterleaver's table, a copy of the samples before the next null symbol | Process: FFTInPlace, DeQPSK | works in place where the synchronizer reads; writes what the data decoder reads |
| Resampling (`Resampler/`, `RingBuffer/resampling_ring_buffer.cc`) | ring buffer of four blocks, ratio | WriteResampledInto | file feeder |
| FIC decoder and station list (`DataDecoder/extract_from_bitstream.cc`) | what FIGs said in this frame, station_info_list_ | the walk over FIBs and FIGs, CreateStation, UpdateStation | scheduler in CONF and PLAY, user |
| Depuncturer, Viterbi, energy dispersal, Reed-Solomon (`DataDecoder/`) | tables; the decoder's metrics and survivors, kept between symbols | one call per block or superframe | data decoder |
| Command line program (`sdrdab-cli/`) | options, line buffer, the scheduler's thread, errno_ | commands, revival of the scheduler | ParametersToSDR, Stop, the scheduler's reports |
| Control of the dongle (`../rtlsdr/src`) | list and states of transfers; settings and registers of six tuners | open, close, read, cancel, set... | libusb's callbacks; the radio feeder and its gain control |
| Graphical program (`sdrdab-gui/`), audio sinks, programs of librtlsdr, `rscode` | | | same interface; vendored |

What is hard in this code:

* five threads report in any order, and each report's handler moves positions that other handlers
  and running threads rely on;
* both pipeline buffers are linear and are copied to their front while workers read them in place;
* the feeder, the demodulator and the decoder wait for one another through bounded buffers, and a
  refused shift has to be tried again by somebody;
* a worker must not be resumed while it runs, and whether it does is told by a flag that the
  scheduler keeps, not the thread;
* station changes, stops, the end of a file, lost devices and GStreamer errors come at any moment,
  through flags that are read without the mutex;
* the deinterleaver and the superframe buffer work in place with differences of unsigned indices,
  and a mistake shows several frames later as spoilt sound;
* what is measured is used to change what will be measured: crystal, gain and search range are
  corrected from frames that came before the last correction;
* the lengths of a hundred puncturing profiles, of the entries of twenty-five FIGs and of the symbols
  of any sub-channel in four modes are computed in different places that must agree;
* the dongle's settings change one another, and some are kept twice; its transfers complete, fail and
  are cancelled while it is being closed.

Correctness, per component: the ring buffer is a FIFO queue that forgets its oldest samples; a
request to a worker is worked once and reported once; the pipeline never sets a worker on data that
is not there, never skips or repeats a unit, and never comes to rest while there is input; every CIF
handed on is a CIF of the transmitter; no superframe is lost or repeated without noise, and noise
costs a bounded time; sound comes in order and comes out; before PLAY the input is read without a
gap; the program ends when it is stopped or its input ends; the receiver follows a crystal, a null
symbol and a signal strength that change, and comes to rest; the list of stations converges to what is
broadcast; what a transmitter codes is decoded, and what is spoilt is corrected or noticed; what the
user asks for happens, and the exit status tells why a session ended; the dongle receives what the
library reports, and nothing of it is used after it is freed. `PROJECT.json` lists the places where each
of these could go wrong ("hazards").

## 2. Modules

| Module | Models | State |
|---|---|---|
| `SampleQueue` | specification: a bounded FIFO that forgets its oldest samples | oldest, written |
| `RingBuffer` | `ring_buffer.h`, all operations, in the families its clients use | buffer, head, tail, last_op_write; `written` counts samples |
| `JobService` | specification: one request, one run, one report | jobs, reports |
| `WorkerThread` | `signaled_worker_thread.cc` and `blocking_queue.h` | flags, program counter of each thread, queue, the scheduler as client |
| `PlayPipeline` | `Play`, `Reconfigure`, `Process` from CONF on, the three resume and two shift methods, the worker functions | `s`: one field per member of the scheduler; user's flags; queue; feeder |
| `TimeDeinterleaver` | `data_decoder.cc:360-432` and the window it works on | which CIF the bits of each class come from, at each place |
| `SuperFrame` | `superframe.cc` and its use in `data_decoder.cc` | the CIFs in the buffer, header index; history of what was written |
| `AudioPath` | `blocking_ring_buffer.cc`, `ring_src.cc`, `player.cc`, and Write, Flush, LastFrame of the scheduler | buffer, flags, the audio thread, GStreamer's queue and sources |
| `Acquisition` | Start, Sync, Conf, Stop of `scheduler.cc` and both feeders | data_write_, positions, mutex, both threads |
| `DriftEstimation` | `scheduler.cc:934-1137`, `HandleDrifts`, and the frames of SYNC, CONF and PLAY that call them | table, queue, range, the thread's request, what the dongle was set to |
| `Synchronizer` | `DetectMode`, `DetectAndDecodeNULL`, the scheduler's moves | the recording or the next null symbol, what was found |
| `Demodulator` | `demodulator.cc`, the mode parameters, the sizes the scheduler and the data decoder expect | how often each symbol was transformed, what was written, what the samples before the null symbol are |
| `FileSource` | the file feeder's loop around its resampling buffer | `RingBuffer`, ratio; `taken` counts samples |
| `GainControl` | the radio feeder's choice of a gain | index and threshold, `RtlDevice`, the antenna's level |
| `Fig`, `StationList` | the walk over FIGs; FIC decoding, merging, CONF and Reconfigure's choice | pointer, what the frame said, the list, the user's wish |
| `Puncturing`, `ConvolutionalDecoder` | `depuncturer.cc`; Viterbi and energy dispersal | block, metrics, survivors, ring position, output |
| `ErrorControl` | Reed-Solomon, fire code, CRC | a superframe, header or FIB and the verdict |
| `DabFrame` | the number of CIFs in a frame, for both parts that count them | |
| `UserInput`, `CommandLine` | options; `cli_scheduler.cc` with both threads, and Start, Process, Stop as it sees them | options, line, both program counters, errno_, the user's copy of the list |
| `UsbAsync` | `rtlsdr_read_async`, its callback, cancel and close | list, transfers' states, status, mutex, reader and closer |
| `RtlDevice` with `E4000`, `FC2580`, `Fitipower`, `R82xx` | every other call of librtlsdr the receiver makes, and the tuners' drivers | what the library knows, the tuner's registers, the demodulator's |

`MC...` modules give values that a .cfg cannot write, or make one run of parts that share a question: a
behaviour of `MCBuildingBlocks`, `MCDataDecoder`, `MCTracking` or `MCRtlSdr` is about one part, chosen in
its initial state, and the others stand still. `<module>Proofs` holds theorems. The modules compose by
what each promises: `PlayPipeline` uses threads as `JobService` describes them, which
`WorkerThread` is shown to implement, and `AudioPath` uses a buffer as `SampleQueue` describes it,
which `RingBuffer` is shown to implement. `Acquisition` ends where `PlayPipeline` begins (Init of the
latter is the state in which Conf leaves the positions); `TimeDeinterleaver`, `ConvolutionalDecoder`,
`SuperFrame` and `ErrorControl` are what the data decoder does in one step of `PlayPipeline`, `Demodulator`
what the demodulator does in one; `CommandLine` takes SYNC, CONF and PLAY to be what `Acquisition`,
`StationList` and `PlayPipeline` make of them. `FileSource` extends `RingBuffer`, `GainControl` extends
`RtlDevice`: both use the operations of the module below, not a summary of them.

How state and actions correspond to the code:

* One action is what a thread does under one mutex, or between two accesses to state it shares
  without one. Flags set without the mutex (`write_ready` before a wait, `finish_rtl_process`,
  `flush_`, `force_read_`) have steps of their own, and so have `pthread_cond_wait`'s two halves and
  its spurious wakeups.
* In `PlayPipeline` a method of the scheduler is an operator from `s` to `s`; a handler is the
  composition of the methods it calls, in the order it calls them. An assert that fails sets `s.ok`
  to FALSE.
* Positions are offsets in floats, as in the code. What the buffers hold is left out, or is the
  number of the sample, CIF or unit (a cell then says where its contents come from), which is all the
  properties tell apart. `held`, `past`, `last`, `written`, `handed`, `ahead` are history variables.
* Frequencies are integers in a unit that keeps them below 2^31; gains and amplitudes are in tenths of
  a dB; registers keep their width. What a register does to the signal is external, and says only
  whether a chip locks, and on what.
* The operators marked "faulty variant" or "mutated" are what plausible mistakes would make of the next
  definition. They are not part of any specification; replacing the definition by its variant must
  violate the property it is paired with.

## 3. Runs

| Run | Question | Answer |
|---|---|---|
| `blocks` | Is the ring buffer a FIFO for all its clients? Can a request, a report or a wakeup be lost? | Coherent, RequestsKept hold; finish() returns; both implement their specification |
| `acquire` | Is the input read without a gap, and do both sides always go on? | yes, for both feeders and the places of the null symbol tried (others in 5); the end of the input is noticed |
| `play_steady` | Does the pipeline survive every interleaving and an imperfect synchronizer? | no assert fails, no worker is resumed twice or without data, no unit is lost; no deadlock |
| `play_live` | Is audio decoded again and again, and does Stop end it? | yes, together with another command and at the end of a file too |
| `decoding` | Are CIFs, blocks, superframes and codewords what was sent? | CIFs whole, blocks decoded, superframes found and written once, errors corrected or noticed |
| `audio` | Do flags and signals without a mutex lose sound or the end? | order, flush, last frame, end and progress hold |
| `stations` | Does the list become what is broadcast, whatever is missed? | in step, converges, told from the frame that was sent |
| `cli` | Do sessions end when they should, and commands take effect? Is a station that plays one of the list, the exit status true, the configuration one that works? | yes, unless the decoder is changed before a station plays |
| `tracking` | Is a crystal that is off followed, are mode and null symbol found, do three parts agree on a frame? | yes, within the bounds below |
| `rtlsdr` | Are blocks in order and transfers safe, does the dongle receive what is reported, does the gain settle? | yes, if it is not lost while it is being closed |
| `usb_close` | ... and if it is lost while it is being closed? | **violation**, see 5 |
| `file_drift` | Does the file's ring buffer store what it counts, whenever the ratio changes? | **violation**, see 5 |

The passing runs fire every action and every disjunct of their next-state relations, and each property is violated
when one definition is replaced by the faulty variant it is paired with.

Bounds, and why they are enough:

* `blocks`: length 8, so that a block of the file is two cells, and 40 samples: the indices take all
  pairs of values and wrap five times; the proofs remove both bounds. Two threads, two requests each: a
  thread's state after its report is the state it began in; two requests show a resume that comes in any
  place of the previous round. `AtTheEnd` FALSE leaves out the case that `file_drift` is about: the run refines a FIFO,
  which a buffer that takes itself for full is not. What the proofs say of a file includes that case.
* `play_*` use small numbers: block 24, buffer 144, frame 24, null 4, unit 12. The proportions of
  the code are kept (a block is half a frame, the buffer holds several frames but not a whole number of
  reads), so that copies, refused shifts and the start-up gap all occur, with endless input.
  `MaxIrregular` 2 lets two results of the synchronizer be inexact or missing; the null symbol stays
  within the tolerance. In `play_live` input is either endless or three blocks; two commands come at any
  time, but with endless input only Stop does (section 5 says what other commands do to it).
* `acquire`: mode I with two positions of the first null symbol, one irregular result, at most two
  blocks skipped in a row. Positions recur, so that the input is endless. Both feeders, both ends.
* `audio`: length 2, chunk 2, three samples written, one flush, one error, one buffer queued. The
  safety part was also run with length 3, four samples and two flushes.
* `decoding`: mode I, demodulator at most two frames ahead, twelve frames, three times the depth of
  the interleaver. 16 CIFs of superframe buffer, as allocated; 48 received, two of them noisy, every
  phase; 16 CIFs to be back in step is the least number for which the property holds (15 is refuted).
  Blocks in their real size with the real code: FIC of mode II and two CIFs of an audio sub-channel at
  two protection levels, with and without errors 23 or 29 cells apart; every other profile by the cells it uses. The last forty cells are
  received without errors. The Reed-Solomon code is the code's algorithm over the field of sixteen
  elements with four parity bytes, and all places of up to two errors; bursts of up to sixteen bits begin at
  every bit of a header and of a FIB.
* `stations`: three sub-channels (DAB, DAB+, packet mode), three FIBs to a frame, as in mode II; eight
  frames with every extension that is told apart; one reconfiguration, at any moment; a damaged FIB.
* `cli`: all pairs of options with up to one argument; sessions are then explored for a file, with
  three typed lines out of five and two sessions. A lost dongle (`Losses`), an input that is shorter than a
  block (`ShortInput`) and a change of the decoder before PLAY (`EarlyChalg`) are switched off, see 5.
* `tracking`: crystals 6 and 8 ppm off at 200 MHz and one fault (a frame missed, measured 3 kHz wrong, or
  thrown back to SYNC). DetectMode with its real numbers for seventy places of the first null symbol
  in each mode, dense around the detector's bounds. The null symbol in frames of 32 samples with 8 samples
  of null, two upsets. Stations that begin and end at, before and after the ends of symbols, in all modes.
* `rtlsdr`: two transfers and two reads one after the other; three calls, in any order and with
  values that take different ways through the drivers, on each of six tuners, direct sampling among them; a rate the
  resampler refuses, a crystal for the demodulator alone and one for the tuner alone; 25 levels of the antenna from
  below what the least gain shows to above the highest, and one change of level. `OffsetSampling` FALSE leaves out
  direct sampling while offset tuning is on, see 5.

Deadlock is checked in `play_steady` and `tracking`; everywhere else the system may really stop (a bound on the
input is used up, the program has ended).

### Fairness

Threads that can run do run (weak fairness per thread), and a worker function returns. In
`Acquisition` a thread that finds the mutex free again and again gets it (strong fairness of
`SetNewWritePointer`), without which spurious wakeups could starve the scheduler; likewise `UsbAsync` for the four
actions that need `async_mutex`. The radio delivers blocks as long as it is plugged in, which is also what makes
the gain control act; frames keep coming (`DriftEstimation`); every frame of the current
configuration is broadcast again and again (`StationList`). GStreamer's sink plays what is queued and asks for
more. A good signal lets the scheduler reach PLAY some time (`CommandLine`). Nothing is assumed of the
user, except that a line that was begun is ended, of the end of a file, of the loss of a device, of
errors, of spurious wakeups or of the audio decoder's output: these may or may not happen. In
`tracking` the one liveness property belongs to the drift; the synchronizer and the demodulator are only
checked for what each state and each step may be.

## 4. Proofs

TLAPS proves, for every value of the constants that satisfies the assumptions named in the modules (a
length of at least one, a positive number of CIFs per frame, a capacity of at least a frame, a null symbol shorter
than four fifths of a frame, sub-channels inside a CIF ...). A theorem that needs more says so in an ASSUME of its own. Each
inductive invariant is the conjunction of a type invariant and of the parts named here; the properties follow from it.

* `BuildingBlocksProofs`, the ring buffer -- `TypeCorrect`, `FifoContents` (Coherent), `MemorySafe` (NoWritePastEnd) and
  `Refinement` (Spec implements SampleQueue) for the bulk operations. Coherent alone does not
  bound the samples stored by the samples written, so IInv adds that. A write is split into its one or
  two copies, and each cell into written and left alone. `ElementsInOrder` and `ElementRefinement` say the same of the
  element operations, whose indices wrap with %: EInv adds that they never rest behind the last cell.
  `FileReadInOrder` (Coherent) is for the file's resampled blocks, of at least two cells, and any number of changes of the
  ratio at any moment, those at the right end included, after which StoredAsCounted is false (`file_drift`, section 5).
  `OnlyThereGivenTwice` says how far it is false: a block is lost in no step but one that resamples a block while head
  rests behind the last cell; if the buffer is empty then, length samples more are given a second time, and in every
  other step what is stored, taken and written goes on adding up. FileInv says where head may rest with which ratio,
  and, for the buffer that takes itself for full, that the last four blocks are still in it (LastWritten).
* `BuildingBlocksProofs`, the threads -- `RequestsAreKept` (RequestsKept), `OneReportEach`, `NoReportIsSleptOn` and
  `JobRefinement` (ImplementsJobService), for every number of threads and requests. The invariant follows one thread
  round its loop: at each place the suspended flag, the scheduler's flag, the queue and the counts of requests and runs
  determine one another (Phase); a thread told to finish never sleeps again (Leaving). The first and the last assume
  `Unchecked = {}`, that the scheduler looks for the report of every thread before it resumes it, which the code does
  not do for the resampling thread (section 5); the other two hold for threads of both kinds.
* `DataDecoderProofs`, the deinterleaver -- `TypeCorrect`, `HandsOnWholeCifs` and `InPlaceIsSafe`. That a CIF is whole when it is
  handed on depends on every bit of it having been put into place by one of the sixteen CIFs before.
  IInv is TypeOK, Progress (the counters agree with the stage), NotYetMovedIntact, Sorted (what each
  place in front of the CIF in turn holds, per class) and WholeCifs. Lemma `TableUndoesDelay` relates the
  code's `pos_table_` to `Delay`, the bit reversal of the standard.
* `DataDecoderProofs`, the superframes -- `SuperFrameTypeCorrect`, `BufferCorrect` (BufferHolds: a frame fits, and the CIFs are consecutive) and
  `NoneTwice` (WrittenOnce), whatever the channel does to headers and access units. IInv adds that the
  search never starts in front of the end of the last superframe written (SearchBehindLast). `NoneMissed`
  (NoSuperframeMissed) is for every channel, that is for any number of false headers and noisy CIFs, if the buffer has room for a
  frame behind four CIFs (`Roomy`; with the 16 CIFs allocated it does). MInv says that no header is left waiting (Prompt), that
  behind a superframe that was written the search goes on with the next one (InStep), and that from seven CIFs after the last
  noise on no header is passed over (NonePassedOver). Sixteen is the sum of what may be lost one after the other: four CIFs behind a false header, three to
  the end of a frame, four of phase, and the five of a superframe.
* `TrackingProofs`, the synchronizer -- `EveryModeFound` (ModeFound) for all 398205 places in a frame of any mode at which
  a recording may begin, its null symbol included, where a run tries seventy of each. `DetectMode` skips 20000 samples behind each
  null symbol it notices: more than any null symbol has, so that the same one is not found twice, and fewer than lie between
  two, so that none is missed; silence tells mode III from II. The lemmas say which null symbol the running sum
  notices first.
* `TrackingProofs`, the demodulator -- `NullSymbolKept` (NextNullIntact) and `SymbolsTransformedOnce`
  (TransformedOnce) for every set of sub-channels that lie inside a CIF, in every mode. For the first:
  only the last symbol of a frame reaches into the samples before the next null symbol, and it is transformed only for a
  sub-channel that ends with the last symbol of a CIF, which is when the samples are saved; IInv says
  what the copy holds in each phase. For the second TInv gives the number of transformations and
  the symbols written in closed form (`times`, `units`); lemma `SharedSymbolSkipped` shows that two CIFs
  share a symbol only where the code skips it, `WrittenIsTransformed` that the skipped one is supplied by the CIF before.
  `ComponentsAgree` (UnitsAgree) and `UnitsInPlace`: the scheduler's size of a unit, what the demodulator writes and the place
  where the data decoder looks are computed in three places and agree, for every capacity unit of the sub-channel. The
  argument is arithmetic: padding fills the outer symbols (`PaddedToSymbols`), and dividing a place by the size of a
  symbol gives the symbol back (`SymbolAndCell`, `CifAndSymbol`).
* `AcquisitionProofs` -- `TypeCorrect`; `StreamKept` (StreamInOnePiece: the input is read without a gap, and what is copied to
  the front lies inside the buffer and apart from its copy), for a file, as long as blocks fit (`BlockFits`); and `BlocksFit`,
  which gives that hypothesis in the modes whose frames are as long as a block (I and IV), unless everything stored is
  still needed when a block is due (`AllIsNeeded`). Both hypotheses exclude the one case of section 5 and nothing else that
  is known. IInv says who has the mutex at each place of both threads, that the flag `data_stored` hands the positions from one to the
  other and back, and what stretch of the input lies between the read and the write position at each of these hand-overs.
* `PlayPipelineProofs` -- `ResumedOnDataUndisturbed`, `DecodeWindowUndisturbed` and `NoAssertFailsUndisturbed`, for all sizes
  that satisfy SizeAssumption and every interleaving. Two limits are those of the code (section 5): the results of the
  synchronizer are within the tolerance (`Tolerance`), and the user has not asked for anything yet (`user.commands = 0`), since
  leaving and entering Play again does break all three. Good is what every method of the scheduler keeps: what is
  known to be stored is (SamplesThere), a frame that waits is stored and lies before the next one (FramesThere), the decoder's window follows
  the demodulator's without a gap (UnitsThere). The asserts are proved but for line 1187, which
  compares the feeder's last report with what is moved: it may fail when that report has come to lie before the
  buffer, as after a null symbol far outside its place, and the theorem says that nothing else makes it fail.
* `AudioPathProofs` -- `TypeCorrect` and `SoundIsRight` (SoundRight, all of it, without further hypotheses), for every size, any
  number of writes, station changes and errors. Three invariants: the samples handed on and behind them those stored rise
  (InOrder); while flush_ is FALSE nothing read or stored is older than the last change of the station (Flushing); unless
  sound was dropped on purpose, what was given, read and stored adds up to what was written (Ending). That a
  free number for a source exists is the only use of well-foundedness.
* `RtlSdrProofs`, the transfers -- `TypeCorrect`, `NoneUsedAfterFree` (NoUseAfterFree) and `OrderKept` (DeliversInOrder), for every number of
  transfers and calls, under `Reliable`: the dongle may be unplugged and memory may run out at any moment, but
  `handle_events` does not fail, and while rtlsdr_close runs no device is lost and no reading begins. Without it
  the properties are false (`usb_close`, section 5). The invariant says where each transfer is: libusb's, in the list, in the reader's
  hands, or idle, and never in two places (Held, Apart, Own); that nothing is left at the end (Ended); who may be where (Threads); and
  that the last block handed over, the good ones pending and the next one to come are numbered in a row (Gapless).
* `RtlSdrProofs`, the settings -- `RateKept` (RateCorrected, the half of ReportedIsSet about the rate), `TunerStaysReady` and
  `GainsMet` (GainReached), for every tuner, all frequencies, rates, corrections and crystals, any number of calls in any
  order, and direct sampling switched whenever the caller likes, also with offset tuning on. A rate that a new crystal moves
  out of the resampler's ranges is refused when it is set again, so that the ratio is that of the crystal before:
  RateCorrected says nothing of it then. `TunerStaysReady` includes the input an R828D listens to. Most calls change few fields of the long records
  and no gain (Quiet, Keeps), so that one invariant relates what different calls write: ratio, rate and crystal
  (RateOK); the tuner's copy of its clock, the crystal and the correction (TunerOK); and the registers each chip has for its gain
  (Wf, GainOK). The FC0013 looks its gain up: lemma `ListedGain` picks the first entry of the table that is large enough
  as the least element of a set. What the steps of the R82xx add up to is not proved: that is StepsAssumption,
  a statement without constants, which TLC evaluates on the runs `rtlsdr` and `usb_close`.
* `CommandLineProofs` -- `TypeCorrect`, `StatusTells` (ExitStatusTells), `ConfigWorks` (UsableConfig) and, for the three together,
  `ResultAndWish` (CommandsTrue), for all options, lines, stations, numbers of lines and sessions and every interleaving.
  The last assumes `~EarlyChalg`, that the decoder is not changed before a station plays; with it MadeForAnEntry is false already
  (section 5). The invariant: where the scheduler's thread is tells its state (Places); what the options leave can become a
  working configuration, and has once the thread is made (Configured); errno_ and the report agree from the report
  on, since OK is reported only after Stop, behind which the main thread reads no more (Ending); and (Wished)
  the user's copy of the list is the scheduler's, the wish is in it from the first station on, and before that there is no
  change of the decoder: not requested, not typed, and not among what `printf` has saved of the line.

Only model-checked, and why:

* `DriftEstimation`'s CarrierFollowed is about a loop of roundings, checked within the bounds of section 3.
* CarriersInCells (part of CellsRight: the frequency deinterleaver), `ConvolutionalDecoder`, `ErrorControl`,
  `Puncturing`: what recursive functions compute for every input needs induction over data, which is out of the prover's reach.
* `StationList` (ListRight, InStep, ToldOfThisFrame) sorts and folds, and `ErrorControl` uses bit operations, neither of which
  the provers know.
* ReceivesReported, the half of ReportedIsSet about the frequency: that the dividers of five tuners come within 6 kHz is
  arithmetic of nested divisions, which the prover does not find; `TunerStaysReady` proves the rest of it.
* PLAY beyond the first command, and acquisition from the radio but for its types: see section 5.
* UserObeyed, GainSettles and all other liveness, and ENABLED.

## 5. Disagreements

Two TLC counterexamples are runs of their own, and "findings":

* `usb_close`: `rtlsdr_read_async` makes the status inactive, then lets the mutex go to tell of a lost device
  (`librtlsdr.c:2203-2221`), then frees its buffers; `rtlsdr_close`, "block until all async operations have
  been completed" (1871), takes the inactive status for the end and frees the device meanwhile.
* `file_drift`: `sWriteInto` leaves head behind the last cell after every fourth block; if
  the ratio changes then, `WriteResampledInto` (`resampling_ring_buffer.cc:47`) finds no room up to the
  right end, stores nothing, and sets last_op_write: the empty buffer counts as full, and the last
  four blocks are given to the scheduler again, for as long as the ratio is not one.

The others are defined, and refuted by TLC when the .cfg named first is changed as told:

| Property | In | Change | What happens |
|---|---|---|---|
| `WorkersUndisturbed` | play_steady.cfg | block_size 196608, sync_feeder_buffer_size_ 1966080, frame_size 196608, null_size 2656, deqpsk_unit_size_ 46080, units_for_read 5, StartBlocks {9}, StartLags {100000} | `scheduler.cc:1171` protects what the demodulator reads, but the copy to the front (1191) moves the data, not the reader; the feeder is sent to the old place |
| `NoAssertFails` | the same sizes | Commands {"station"}, MaxCommands 1, StartBlocks {4} | leaving Play pushes an event for a synchronizer whose report is still on its way (873); the result is applied twice, line 777 fails |
| `NeverStuck`, `ResumedOnData`, `DecodeWindow` | play_steady.cfg | Commands and EndlessCommands {"station"}, MaxCommands 1 | after a station change a report is taken for another one (876), the feeder's last report is thrown away (869), or the decoder runs on a new buffer with the old end (651) |
| `NeverStuck`, `NoAssertFails` | the sizes of mode I | Feedbacks <- Shifted | a null symbol outside the tolerance moves the read position beyond the data (812) |
| `FileEndNoticed` | play_live.cfg | -- | in PLAY nothing breaks the loop when the file ends (763, 1485) |
| `ConvAlgApplied` | play_live.cfg | Commands and EndlessCommands {"conv_alg"} | a change of the convolutional decoder waits for another command (1668) |
| `StopReturns` | acquire.cfg | Sources and UserStops {"file"} | Stop sets its flag and signals without the mutex (1617); between the feeder's test and its wait the signal is lost, and `finish()` waits for ever |
| `BlockFits`, `StreamInOnePiece` | acquire.cfg | DetectedNulls {195280} | with exactly as much stored as is read and no room for a block, no branch of `CalculateNewBufferPosition` moves the pointers; the next block goes beyond the end (the comment at 1350 expects that of skipped blocks only), and what lies there is lost by the next copy |
| `FeedStops` | audio.cfg | -- | after a GStreamer error an idle source is left that nobody can remove (`ring_src.cc:216`) |
| `RequestsKept` | blocks.cfg | Unchecked {datadecoder}, as for the resampling thread | it is resumed without looking for its report (`scheduler.cc:966`), and a request is lost |
| `SumVisitsStored` | blocks.cfg | -- | Sum does not end on a buffer that is full, nor after bulk operations; `ZeroSpec` and `MixedSpec` of `RingBuffer` break Coherent: requests of no samples change the count, and an element is written behind the allocation. No client does these things today |
| `NullSearchUndisturbed` | tracking.cfg | -- | the copy of `demodulator.cc:58` protects the null symbol only when the frame is done; the synchronizer searches meanwhile |
| `NumberKept` | stations.cfg | -- | Conf takes the first station of the first list when the one named is not in it yet |
| `BlockDecoded` | decoding.cfg | FrameBlocks <- MCWeakBlocks | the weakest protection is not always decoded although nothing is wrong |
| `LineRunOnce` | cli.cfg | Lines <- MCTyping | printing from the other thread saves the line and puts it back while it is being run |
| `MadeForAnEntry` | cli.cfg | EarlyChalg TRUE | a decoder change before PLAY uses the end of the list as an entry (`scheduler.cc:628`) |
| `UserObeyed` | cli.cfg | ShortInput TRUE | Start spins on `IsRunning` (1599) for a feeder that has ended |
| `ReportedIsSet` | rtlsdr.cfg | OffsetSampling TRUE, MaxCalls 4 | after direct sampling with offset tuning on, the demodulator stays at IF zero |
| `LossNoticed` | rtlsdr.cfg | -- | the callback compares the result of a submission with a transfer status (`librtlsdr.c`), so that a loss there goes unnoticed |

Met while translating, and left as the code has them:

* Drift: with an error beyond about 12 ppm at 200 MHz the carrier leaves the narrowed range in SYNC already; a wrong
  measurement while `recalc_fc_drift_` counts fills the whole table; of the "next 10 fc_drifts"
  (`scheduler.cc:999`) nine are new.
* Synchronizer: in mode III half of null_size is odd and exchanges I and Q (`scheduler.cc:350`); a
  signal of nothing but zeros gives NULL_SHIFT at 0 for ever.
* Stations: EEP-B is never recognised; a size of 256 or more and a 32-bit service lose bits;
  the steps of FIG 0/3, 0/6, 0/8, 0/9 (extended), 0/13, 0/16, 0/17, 0/21, 0/22 and 0/24 are not those of EN 300 401
  (the carousel has entries for which they come out right); FIBs behind one whose CRC fails are all skipped; stations are never
  removed; one chosen before FIG 0/2 has come keeps service 65000.
* Puncturing: rows 29-32, 48 and 51 of the table do not fill their sub-channel.
* Command line: a name's beginning picks the first match, names that begin with a digit cannot be
  picked; two presets give kHz where Hz are expected.
* Dongle: the FC0012 driver divides by zero when unplugged; gains 0 of FC001x "succeed"; an R82xx whose PLL does
  not lock reports success; corrections beyond 488 ppm wrap; the FC001x's VCO frequency wraps beyond 1.07 GHz and the
  R82xx's `nint` beyond 1.77 GHz; the E4000's VCO frequency 0 becomes -EINVAL, which is taken for a frequency; `handle_events` that fails frees
  submitted transfers (`Faults` "no events"); a read begun while close polls is overlooked ("read in close").

## 6. What is not modelled

* Values of samples: FFT, differential demodulation, DC removal, SNR, the phase reference (only the
  offset it yields), normalisation. Their outcomes occur as nondeterministic choices.
* In PLAY the radio feeder (its lost blocks are those of `Acquisition`) and audio output (`AudioPath`).
* The clock error of a recording as the null symbol shows it; libsamplerate but for the number of samples a
  block becomes.
* The skipped block's filling (`SetNewWritePointer`, 1252-1266), which writes one float, and the end
  of the buffer at which a skipped block would have begun.
* FIG fields that are stored and read by nobody; `ExtractDataFromPacketMode`, `cancel_thread` and
  `BlockingQueue::clear`, which nothing calls in a running program.
* `GainControl`: an uninitialised index if the library reports a gain that is not in its own list (it never does after
  a gain was set), and the string matching of `verbose_device_search`, where a serial number that looks like a number is taken
  for an index.
* The R82xx's `div_num` one up or down for a VCO whose fine tuning reads other than the middle (`tuner_r82xx.c:478`): the
  VCO is taken to read the middle.
* Registers of the tuners that do not decide what is received (VCO currents, calibration,
  DC offset), I2C repeaters, EEPROM, bias, GPIO.
* Player tags and speed, sinks, completion and help texts, formatting of labels and coordinates, the graphical
  program, the programs of librtlsdr.

## 7. Plan

Done, in this order, most important first: the ring buffer and its proofs; worker threads; the PLAY
pipeline; deinterleaver and superframes with their proofs; the audio path; acquisition; the station
list; coding; the command line; drift, synchronizer and demodulator with their proofs; the dongle and
its gain; the resampled recording; proofs about threads, PLAY, audio and USB transfers, then about acquisition, the
detection of the mode, the resampled recording, the command line and the settings of the dongle.

Left:

* the clock error of a recording, as a second environment of `DriftEstimation`;
* `PlayPipeline` with `DriftEstimation`'s thread as a sixth worker;
* proofs: AllIsNeeded for the sizes of each mode and the results of a synchronizer within its tolerance, and the radio's
  skipped blocks (`Acquisition`); PLAY after a station change that finds no report on its way (`PlayPipeline`).
