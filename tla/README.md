# Verification of the video stream player

This directory holds TLA+ models of the player library (`src/wvAdapter/lib`),
the TLC runs that check them and the theorems that TLAPS proves about them.
The library downloads two DASH streams, demuxes, decrypts and decodes them in a
chain of threads and renders video and audio in step. Almost everything that is
hard in it is concurrency: bounded queues, a stream of network fragments shared
by two threads, a clock both renderers wait on, a CDM that calls back from
threads of its own, and a shutdown that has to reach all of them.

Paths below are relative to `src/wvAdapter/lib/` unless they begin with
`frontend/`.

## 1. The system

```
 curl thread -> BlockingStream -> demux thread -> BlockingQueue -> decrypt thread
   (networking.cc)               (video.cc, audio.cc, mp4_stream.cc)  |  (CDM)
                                                                 BlockingQueue
                             audio only: decode thread -> BlockingQueue |
                                                                        v
                                     Clock  <---- video and audio rendering threads
 control thread: pythonInterface.cc -> AdapterInterface -> all of the above
```

There is one such chain for video and one for audio; the clock joins them.

| component | state | operations | interacts with | what makes it correct |
|---|---|---|---|---|
| `BlockingQueue`, `include/common/blocking_queue.h` (five instances), with `QueueCounter` | deque, upper bound, `isShutdown_`, `isStopped_`, one mutex, two condition variables, an external counter | `push`/`emplace`, `pop`, `Stop`, `Resume`, `Shutdown`, `size` | one producer and one consumer thread; control thread | a bounded FIFO; nobody sleeps while he could go on; pause loses nothing; shutdown releases everybody |
| `BlockingStream`, `src/demux/blocking_stream.cc` (two) | deque of fragments, read and write index and position, `isRunning_`, one mutex, four condition variables | `AddFragment`, `WritePartial` (curl callback), `ReadPartial`, `Seek`, `Tell`, `GetSize`, `PopFragment`, `Shutdown` | networking thread, demux thread (through Bento4) | the bytes of each range come out whole and in order; indices agree with the deque; download limit |
| `NetworkingThread`, `src/core/networking.cc` | `isRunning_`, range list | loop over ranges, one curl transfer each | `BlockingStream`, HTTP server | one fragment per range |
| `Clock`, `src/core/clock.cc` | two times, the start barrier, `isShutdown_` | `SetStartTime`, `Sync`, `UpdateAudioTime`, `Shutdown` | both rendering threads | common start, bounded lead, no mutual waiting |
| Video and audio threads, `src/core/video.cc`, `audio.cc`, `widevineDecryptor.cc` | `isRunning_`, timestamps, codec context | loops that pop, transform and push | queues, stream, CDM, clock | each frame rendered once and in order; all end after `StopStream` |
| `WidevineAdapter`, `src/core/widevineAdapter.cc` (two) | promises, session, message, keys, timers, the CDM instance | `Init`, session calls, callbacks of the CDM, timer loop, `Shutdown` | CDM threads, control thread, timer thread | calls get their own answers; nothing is called on a CDM that is gone; everything times out |
| `AdapterInterface`, `src/core/adapterInterface.cc` | `isInitialized_`, `streamInitialized_`, all threads | `Init`, `InitStream`, `StartStream`, `WaitForStream`, `StopStream`, `Close` | everything | legal order of calls; no thread outlives what it uses |
| MP4 streams, `src/demux/mp4_stream.cc` | Bento4 objects, codec data, decryption fields, sample tables | `Init`, `ParseMoofMdat`, `BuildAdtsHeader`, `Close` | `BlockingStream`, demux and decrypt threads | what reaches the CDM is the file, frame by frame, and the subsamples say where it is encrypted |
| OpenMAX client, `src/renderer/omx/ilclient.c`, and the renderer on it, `omx_audio_renderer.cc` | event lists, flags, buffer lists, states of the components | tunnels, port buffers, state changes, `get_input_buffer`, `Open`, `Render`, `Close` | OpenMAX components, which answer from threads of their own | no answer is lost or taken by the wrong call; results are true |
| Other renderers, component registry, logging, time logger | device handles, singletons | `Open`, `Render`, `Close` | rendering threads | thin wrappers |
| Python extension and frontend (`frontend/`) | the program's place, a pending signal | login, manifest, license exchange, command loop, SIGINT handler | `AdapterInterface` | the adapter's calls come in a legal order, whenever CTRL+C is pressed |

The behaviours that are hard to test are listed, each at its line, under
`hazards` in `PROJECT.json`. They fall into five groups: the interleavings of
predicate, wait, change and notification; `Shutdown()` and `StopStream()`
arriving anywhere in them; CDM callbacks that are late or never come, and OpenMAX
events that come in any order; sequences of calls nobody wrote a test for; and
sizes, offsets and subsamples that have to agree after the bytes have been rewritten.

## 2. Modules

| module | models | extends / instantiates |
|---|---|---|
| `SampleChannel` | abstract: a FIFO channel of samples that can be paused and shut down, with its promise of progress | |
| `BlockingQueue` | the queue with a producer and a consumer thread, pause, resume and shutdown | `Channel == INSTANCE SampleChannel WITH ...` |
| `BlockingQueueProofs` | theorems about `BlockingQueue` | `BlockingQueue`, `TLAPS` |
| `BlockingStream` | the stream with the networking thread and the demux thread | |
| `BlockingStreamProofs` | theorems about `BlockingStream` | `BlockingStream`, `SequenceTheorems`, `TLAPS` |
| `Clock` | the clock with both rendering threads, desktop and Raspberry Pi build | |
| `VideoPipeline` | the composition for video: network progress, demux, decrypt and render thread over two queues, errors, pause, `StopStream` step by step | |
| `VideoPipelineProofs` | theorems about `VideoPipeline` | `VideoPipeline`, `SequenceTheorems`, `TLAPS` |
| `AudioPipeline` | the composition for audio: four threads, three queues, lost frames, timestamps | |
| `AudioPipelineProofs` | theorems about `AudioPipeline` | `AudioPipeline`, `SequenceTheorems`, `FiniteSetTheorems`, `TLAPS` |
| `SampleData` | the bytes of a media file on their way to the CDM and out of it | |
| `SampleDataProofs` | what the operators of `SampleData` compute, for all their arguments, and the theorems about it | `SampleData`, `SequenceTheorems`, `WellFoundedInduction`, `TLAPS` |
| `WidevineAdapter` | Init, session calls, promises, callbacks and shutdown of the CDM host | |
| `WidevineTimers` | timers of the CDM host and the timer thread, around Init and Shutdown | |
| `WidevineProofs` | theorems about `WidevineAdapter` and `WidevineTimers` | `WidevineAdapter`, `WidevineTimers`, `TLAPS` |
| `ILClient` | the OpenMAX client library and the audio renderer on it, with two components that answer asynchronously | |
| `ILClientProofs` | theorems about `ILClient` | `ILClient`, `SequenceTheorems`, `FiniteSetTheorems`, `WellFoundedInduction`, `TLAPS` |
| `PlayerSession` | one run of the program: calls of the adapter, CTRL+C, threads started, stopped and joined | |
| `PlayerProofs` | theorems about `PlayerSession` and `Clock` | `PlayerSession`, `Clock`, `TLAPS` |
| `MC...` | the constants of the runs | the module of the same name |

`Clock` and `WidevineTimers` have prefixes in their names (`ClockSpec`, `TimersInit`, ...) and
`cdmInstance` for `cdm_`, because a module of proofs extends them together with a second
model.

### How the parts are put together

The models form two levels. `BlockingQueue`, `BlockingStream` and `Clock` take one
object apart, down to predicate, wait and notification, and say what its users may
rely on. The pipelines put whole chains of threads together; a push, a pop or a wait
for a fragment is one atomic, guarded step there, which is what the refinement
`ImplementsChannel` of the queue and `FragmentsAreDelivered` of the stream justify, the
latter for ranges that end with their `mdat`: other ranges are left out of the pipelines.
`PlayerSession` goes one level up again: a thread is running or has ended, and it
ends when its flag is down and everything it may wait for has been shut down, which
`StopEndsThreads` of both pipelines says of them.
The lost wakeups under *Disagreements* are the exception at the lower level; the
upper levels do not repeat them.

### How code became state and actions

* A **critical section** is one action. It starts with the lock free and ends
  with the unlock or with the wait; what the code does after the unlock (a
  notification, typically) is the next action of the same thread.
* A **condition variable wait** is taken apart only where it matters. Where the
  code changes a predicate *without* the mutex (`Shutdown()` of the queue and the
  clock, `blocking_queue.h:66`, `clock.h:29`), evaluating the predicate and going
  to sleep are two steps (`...Blocking`, then `...Waiting`), the mutex being held in
  between. In `BlockingStream` and `WidevineTimers` predicates change under the
  mutex only, or the missed wakeup shows without the split, and the two are one step.
  `ILClient` has flags instead of condition variables: raising one and searching a
  list are steps of different threads, and every order of them is explored.
* **Spurious wakeups** are an action of every waiting thread.
* A thread's **program counter** is a function `pc` from threads to locations
  named for what comes next, a record with a field `at` in the pipelines, and the
  sequence `todo` of remaining instructions in `ILClient`.
* The **control thread** runs `StopStream` step by step, as far as the component
  sees it. `isRunning_` flags of the threads are plain `bool`s that another thread
  writes; they are read once per loop, and the read sees the old or the new value.
* **Data** is abstracted: a sample is its number, a fragment its range, size,
  bytes written and the set of ranges its bytes came from, a time a number of
  units, a session the promise that created it, a message the promise it followed.
  Only `SampleData` has bytes: headers as they are, payload as distinct numbers,
  negative where it is encrypted.

### The modules one by one

**BlockingQueue.** `deque` is `deque_` with the oldest sample first, so that
`push_front` is `Append` (`Save`) and `back()` is `Head`; `counter` is the
`QueueCounter` entry. `Push`, `PushFull`, `PushWait`, `PushNotify` are the branches
of `saveImpl`; `Pop`, `PopEmpty`, `PopWait`, `PopNotify` those of `pop`. A `pop`
released by shutdown with an empty deque reads `back()` of nothing: `PopUndefined`
takes the consumer to the location `"undefined"`, from which nothing is claimed.
Samples are numbered in push order, so their content is their place in the stream;
`NumItems` bounds how many the producer has.

**BlockingStream.** `fragments` is `fragmentDeque_`, oldest first; `readIdx` and
`writeIdx` are the code's indices, counted from the newest fragment (`At(idx)` is
`fragmentDeque_[idx]`), so `AddFragment` shifts both of them. `readPosition` and
`writePosition` are the positions in the two fragments, `toSend` what is left of the
running response. A response may be shorter or longer than its range by a member of
`Deviations`.
The demux thread is reduced to the calls Bento4 and `ParseMoofMdat` make: `Tell` and
`GetSize` before each atom, reads and seeks inside it, `PopFragment` after an mdat.
Bento4's calls are nondeterministic in their sizes, and an atom may claim more bytes than
there are. An atom may end anywhere in its fragment or with it, and any atom may be an
mdat (`AtomDone`, `AtomEndsInside`); of Bento4 it is assumed that an atom is complete with
the read or seek that reaches its end. `PopFragment` waits like the others (`PopWait`):
after an mdat in the middle of its fragment nobody but the waiting thread could make its
predicate true, and `Shutdown()` does so without a notification, so that only a spurious
wakeup ends the wait, with the oldest fragment taken out although it is still being read.
Three variables are history: `exact` (every response had the length of its range),
`mdatLast` (every range ended with its mdat and had none before) and `parsed` (the range
in which the mdat lies that `ParseMoofMdat` has in hand). The properties say which of the two
conditions each promise needs.

**Clock.** `SetStartTime` is the barrier with `startedThreads`, `Sync` the wait for
the other medium. `selfTimed`, chosen in `Init` from `Builds`, tells the desktop
build from the Raspberry Pi build, where audio calls `UpdateAudioTime` instead of
`Sync`.

**VideoPipeline.** Each thread is a program counter and what it has in its hands:
`demux` with the sample parsed, `decrypt` with its sample and the frame in it,
`render`. `held` are frames inside the CDM: a decoder holds frames back
(`DecoderDelay`) and answers `kNeedMoreData` meanwhile. A transfer may fail (the
network thread ends without telling anyone), a decryption or a rendering may fail
(one thread ends alone), `StopPlayback()` and `ResumePlayback()` pause the frame
queue. `control` counts the steps of `StopSteps`, the part of `StopStream` that
concerns video, in its order.

**AudioPipeline.** The same with the decode thread and its codec context, which
`StopStream()` frees (`ContextOpen`); a use after that takes the thread to
`"undefined"`. `lost` records the frames the CDM rejected or the decoder swallowed; the
decode thread stamps frames with a time of its own, `timestamp`, which those
frames do not advance.

**SampleData.** A file is its `moov`, the private data of the manifest and ranges of
atoms, good and bad ones. `Init`, `ParseMoofMdat`, the conversions of the demux
threads and the loops of the decrypt threads follow each other as phases: a sample
is in one thread's hands at a time, because it travels through queues. What a thread
keeps between samples (the read position, the growing array of subsamples, the
global timestamp) is a variable. `inputs` and `output` are history: all that has
been handed to the CDM and all that came out of it.

**WidevineAdapter.** Callbacks and predicates use the same mutex throughout, so
waiting is a disabled action and every callback one action. `requests` is what the
CDM has been asked and has not answered; it may answer at any time, reject, close
sessions by itself, or keep silent. A timeout may strike whenever the answer is not
there. `answers`, `lastCreate` and `returned` are history.

**WidevineTimers.** `TimerLoop` under `timerMutex_`, with its two waits. `wait_until`
reports a timeout when the deadline has passed, whatever woke it. `cdm_` is read by
the timer thread with a mutex that `Init` and `Shutdown` do not take; the join in
`Shutdown` is what keeps the read valid.

**ILClient.** A call of the library is the sequence of instructions it has yet to
execute; one that can fail carries what the code does then, so that the error paths
of `enable_tunnel`, `enable_port_buffers` and `change_component_state` are there in
full. The components (`omx`, `enabled`, `connected`, `allocated`, `held`) are
external: commands are queued, completed or refused in any order across components,
buffers come back, and events nobody asked for are repeated. `ilclient_event_handler`
runs at each of those moments. `Open`, `Render` and `Close` of the audio renderer
are calls like the others, but that `Render` does not return: having got a buffer it
hands it over again and again (`RunReadIntoBufferAndEmpty`, frames are never empty), whether
the component accepts it or not. What a component does with a header it has already, or
has given back, is left out: the list of free buffers is not looked at any more. The
blocking search for a free buffer is therefore exercised by another client (`EmptyBuffer`,
external), which hands over each buffer once, as `ilclient.h` describes it. One client
thread at a time calls the library. `failed` marks a history in which a call left the components
in the states described below (*OpenMAX error paths*).

**PlayerSession.** `main` is the next step of the Python program, `resume` where the
SIGINT handler interrupted it: Python runs the handler between two of its steps, and
not while a call of the extension holds the interpreter. `thread` says of each of
the nine threads whether it runs, has ended or has been joined; `stopped` is what
`StopStream()` has stopped, shut down or freed.

## 3. Runs

| run | question | bounds and why they suffice | outcome |
|---|---|---|---|
| `queue` | FIFO contents, bound, wakeups, mutual blocking, refinement of the channel with its liveness | upper bound 2, 5 samples: full, empty and in between, and the bound is passed after shutdown | holds |
| `queue_shutdown` | does `Shutdown()` release a consumer? | same | violated: lost wakeup |
| `stream` | reader and writer, fragments whole and in order, limit, delivery, shutdown | limit 2, four ranges of one to three bytes, responses exact or a byte off either way, the mdat anywhere in a range: the limit is hit, indices shift under a reader, `PopFragment` waits. What only an exact response, or a range that ends with its mdat, can promise is claimed of those alone | holds |
| `clock` | common start, lead, no mutual wait, playback to the end, both builds | `MAX_DELTA` 3, audio frames of 1, video frames of 2: each medium comes to wait for the other | holds |
| `video_pipeline` | frames in order and complete, all threads end after `StopStream` | 3 samples of 2 frames, queues of 1, a decoder that holds one frame: every queue is full and empty, a sample is split over stalls, the decoder still holds a frame at the end | holds |
| `audio_pipeline` | order, timestamps, playback, all threads end | 2 samples of 2 frames, queues of 1: as above, with losses at each of the four frames; the protected chain, which has one thread more | holds |
| `sample_data` | what reaches the CDM is the file; subsamples; ADTS; nothing left behind | files of two ranges in every pair of layouts, and of one range with some part of `moov` missing; one AAC frame of 2041 bytes, which needs the upper bits of the ADTS length | holds |
| `widevine_session` | promises, session, challenge, shutdown, timeouts | 4 promises: a session whose creation times out, a second one, an update, a close, and a second Init | holds |
| `widevine_timers` | timers never early, never on a dead CDM, never forgotten; `Shutdown()` ends | 3 timers, 2 ticks, 2 CDM instances: timers overtake each other, Init is repeated | holds |
| `widevine_double_init` | one CDM instance per adapter? | same | violated: retry after a half-way failure |
| `il_client` | assertions, leftovers between calls, truth of results, return of calls | two calls after each other, a fault and an asynchronous trouble at any moment, two buffers, and five event records where `NUM_EVENTS` is larger: repeated events come to use up the records unless they are dropped | holds |
| `player_session` | threads against the life of the CDMs, return of `WaitForStream` | two signals: one to interrupt the program, one to interrupt what follows the first | holds |

Deadlock checking is off in every run: each system may really stop (all samples
sent, playback over, nobody calling any more); what must not stop is stated as a
liveness property. `audio_pipeline` and `il_client` are the longest runs, two to three minutes.

Every property has a mutant, a definition of the module changed the way a bug would
change it (a dropped notification, an off-by-one in a predicate, a forgotten shift
of an index, a stop step left out, an event left on its list); with the mutant in
place TLC refutes the property. The definitions marked as mutants in the modules
are those changed forms; nothing else uses them. Type invariants are proved and not
spent a run on.

### Disagreements found

With a run:

1. `BlockingQueue::Shutdown()` (`blocking_queue.h:66`) sets its flag and notifies
   without the mutex. A thread that has seen the flag false but does not sleep yet
   misses both, sleeps for ever, and `WaitForStream()` hangs in its join
   (`adapterInterface.cc:358` says "stop reader and all threads").
2. `AdapterInterface::Init()` intends to "prevent double initialization"
   (`adapterInterface.cc:68`), but after the second adapter failed a retry initialises
   the first one again and its CDM instance is leaked.

Met while modelling, described only. Where the code's behaviour is undefined the
models go to a location `"undefined"` (`PlayerSession`: perhaps to `crashed`) and claim
nothing from there.

* `Clock::Shutdown()` (`clock.h:29`) is written like the queue's and loses the same wakeup.
* `BlockingStream::Shutdown()` (`blocking_stream.cc:325`) notifies two of its four
  condition variables. Neither a writer that waits with more bytes than its range holds nor
  a demux thread that waits in `PopFragment()` is woken, so `StopStream()` does not end them.
  `ShutdownEndsThreads` excludes these two waits and no other, and
  `NoSleepOnRightInput` proves that only wrong responses and wrong ranges lead to them.
* `StopStream()` closes the MP4 stream while the decrypt thread may still read its
  codec private data, and a second `StopStream()` deletes that data again
  (`mp4_stream.cc:614-622`).
* `Shutdown()` of the audio decoder frees `avCtx_` under its thread (`audio.cc:115-122`).
* For an unprotected audio stream `StartStream()` leaves the decrypt thread out
  (`adapterInterface.cc:314`) and the decode thread then reads a queue nobody fills;
  for an unprotected video stream the demux thread works on a sample table that does
  not exist (`video.cc:341`).
* The SIGINT handler assigns a `running` of its own (`prime_video_cli.py:195-203`):
  CTRL+C does not leave the command loop, although `README.md:117` says
  "Press CTRL+C to quit program."
* An ADTS header gives the number of AAC frames as a function of the size
  (`mp4_stream.cc:951`), so for frames of 2048 bytes and more it is not the one frame
  that the comment at `mp4_stream.cc:905` promises.
* `defaultIsProtected_` and `naluLengthSize_` stay uninitialised for unprotected or
  non-AVC streams; `videoCodecExtraDataSize_` is computed with `naluLengthSize_ + 1`
  bytes where five are written (`mp4_stream.cc:518-551`).
* If `mdat` is not the last atom of its range, `PopFragment()` (`mp4_stream.cc:273`) waits
  until the range has been read to its end, which only the waiting thread could do: the
  fragment is never delivered. Let through by `Shutdown()` and a spurious wakeup, it
  takes out a fragment the read index still points to, and `CHECK_INVARIANT()` fails
  (`blocking_stream.cc:130`). A range without an mdat at its end is not popped by its own
  `ParseMoofMdat()`; the next one takes it out for its own mdat, without looking at it.
* `ReadIntoBufferAndEmpty()` never makes `toRead` smaller (`omx_audio_renderer.cc:262`),
  so `Render()` does not return from a frame that is not empty; `CallsReturn` leaves out
  this loop.
* A second `StartStream()` would assign to joinable threads; no caller makes one.

### OpenMAX error paths

`ILClient` leaves these histories out of what it claims (`failed`, `MayFail`); each is a
failure of the component after which the library's lists disagree with the components:

* `ilclient_enable_tunnel` fails while the sink is still in Loaded: the completion of the
  source's PortEnable stays on its list (the other branch removes it, see the comment
  at `ilclient.c:634-636`), and the sink's port stays enabled, so that a later change to
  Idle waits for ever.
* `ilclient_enable_port_buffers` fails after PortEnable was sent: its buffers are
  not freed (`ilclient.c:881`).
* Both ends of a tunnel fail: the second error is taken for the answer to the disable
  that follows, and `vc_assert(0)` is reached.
* An error flag may be left over from a wait for two components that ended early;
  `ilclient_get_input_buffer` does not reset `prev` between two blocking searches;
  `ilclient_disable_port_buffers` mixes up its list when buffers of two ports are on it
  (`ilclient.c:959`), which the two-component setup never has.
* Commands the library asserts to succeed (`ilclient_disable_port`,
  `ilclient_state_transition`) are assumed to be accepted.
* `ilclient_enable_tunnel` is not called again for a tunnel that is up while the sink is
  in Loaded: the source answers SameState, which the wait for both ends
  (`ilclient.c:1255-1268`) takes for a failure although the port is enabled, and the
  call gives up a tunnel that works. A fault of the sink in the same call then
  fails an assertion in `ilclient_disable_port`.

`NoAssertFails` and `QuietBetweenCalls` claim nothing once enabling a port has failed: what is left
on the lists can be taken for the answer to a command six or eight calls later.

## 4. Fairness

* Queue, clock: **strong** fairness of each thread's own steps. A mutex that is
  taken and given back again and again enables and disables a waiting thread's step;
  the threads use the mutex briefly and block outside of it, and the implementation
  lets a waiting thread have it eventually. Spurious wakeups and new calls are not fair.
* Stream: weak fairness of the two threads; critical sections are single steps there,
  so no step is disabled by somebody else's use of the mutex.
* Pipelines: weak fairness of each thread and of the transfer under way. A queue has
  one producer and one consumer, so a push or a pop once possible stays possible.
  `ResumePlayback()`, errors and the first step of `StopStream` are not fair.
* Shutdown: weak fairness of the steps *after* the first. Nobody has to stop the
  stream, but a `StopStream` once entered is finished: it never blocks.
* Sample data: weak fairness of the only sequence of steps there is.
* Widevine: weak fairness of the control thread's current call, its timeout included,
  and of `Destroy()`; none of the CDM's callbacks. Timers: the timer thread, time and
  a begun Init or Shutdown.
* OpenMAX: weak fairness of the client thread, of each component's current command
  (a component completes or refuses what it was asked) and of the return of a
  buffer and its flag; none of failures and unsolicited events.
* Session: weak fairness of `StopStream` and `WaitForStream` once called and of each
  thread that has nothing left to wait for; none of the user.

## 5. What is proved

TLC checks small instances; TLAPS proves for every value of the constants
(`PROJECT.json` lists the theorems). Each module follows one plan: `IInv` is the
inductive invariant, a conjunction of named parts; one lemma per part (`...Step`)
proves that no action breaks it, one step per action; `InvariantHolds` puts them
together, and each theorem reads its property off `IInv`. Every `IInv` was checked by
TLC on the constants of its run before its proof. The assumptions are the `ASSUME`s of
the model's modules. But for `FilesAssumption` (below) they say no more than what kind
of number, or set of numbers, a constant is.

**`BlockingQueueProofs`.** From `UpperBoundAssumption` and `NumItemsAssumption`.
The inductive invariant has, beside the type invariant, `ContentsInOrder` and
`BoundedUntilShutdown`, two parts that make the wakeups inductive:
`BlocksForAReason` (what a thread saw in its predicate still holds on its way to
sleep, and only one thread is there at a time) and `NoLostWakeup` (whoever sleeps on a
condition that has become true will be notified by the other thread, which stands
at its notification). `PushesOneOfItems` keeps the producer within its samples.
`NoMutualBlock` follows: of two threads asleep each would need the other at a
notification. `QueueImplementsChannel` maps each step to a step of `SampleChannel`
or a stutter; pushing appends, popping removes the head because of
`ContentsInOrder`.

**`PlayerProofs`, the clock.** From the assumptions of `Clock`, so for every `MAX_DELTA`,
all frame durations and both builds. `LeadIsBounded` is inductive by itself: time
advances in a step that has just tested the predicate, and the other medium's time
only grows. The other two properties need more. `BarrierInv` says that
`startedThreads_` counts exactly the threads that are registered or at the barrier,
that whoever is behind the barrier is registered, and that nobody is registered
before both have arrived unless the clock is shut down: `StartTogether` is read
off it. `SyncInv` says that a thread sleeping in `Sync()`, or on its way there, is
ahead by `MAX_DELTA`, or the other thread stands at its notification; two threads
cannot both be ahead, and one that waits at the barrier excludes one that waits
behind it, which is `NoMutualWait`. `OnlySelfTimedUpdate` separates the builds.

**`BlockingStreamProofs`.** For every range list, every `MaxFragments` and every
set of deviations of a response. `CHECK_INVARIANT` in the code orders the two indices
and says nothing of what they mean, so it is not inductive: `WrittenUpTo` adds that
every fragment behind the write index is full, the one at it holds what
`writePosition_` says (and is not full while the writer goes on), and those before it
are empty; `IndicesInOrder` adds where the reader is, and that the assertion can only fail
after `Shutdown()`, once a fragment still read was taken out. `RangesEndWithMdat` counts
the used-up fragments as long as every range ended with its mdat: one when the thread
is about to pop, which is then the one whose mdat it parsed, and none elsewhere. Together
they give `ReaderStaysBehindWriter` and, with `WriterSleepsOnWrongLength`,
`NoSleepOnRightInput`. The content needs `InRangeOrder` (one fragment per range) and `ExactResponses` (a response
of the right length goes into the newest fragment and fills it): `FragmentsIntact`.
`DownloadLimit` needs `StopOrder` and `RoomToAdd`: `StopStream()` takes the
networking thread's own flag down before the stream's, so a writer released by
`Shutdown()` adds its fragment and no other. Two more results that no run checks:
`GetSizeIsDefined` (the read of `fragmentDeque_[-1]` happens after `Shutdown()` only)
and the action property `RangesAreConsecutive` (every step that changes what the demux
thread has taken out takes out the next range).

**`WidevineProofs`, the host.** From `MaxPromisesAssumption`. `PromiseLife` follows a
promise: it is asked for once, answered once, not yet asked for where the call has
only begun it, and the entry of the call in progress in `promiseResults_` says what
the CDM has said. With `CallShape` (which calls have a promise where) that makes
`CallsReportTheirOwnAnswer` and `NoPromiseIsLeftBehind` inductive, with any number
of promises given up before. `SessionIsOpen`, `NoStaleChallenge` and
`CleanAfterShutdown` need `CdmLife`: callbacks, which are all that could bring
something back, end with `Destroy()`, and only then is the state cleared.

**`WidevineProofs`, the timers.** From `BoundsAssumption`. `ExpiresOnLiveCdm` rests on
three facts about a pointer that is read with the wrong mutex: `cdm_` is never left
dangling (`CdmIsAlive`), an instance is destroyed only where there is no timer thread
(`ThreadIsJoined`), and the thread was told to stop before (`StoppedForShutdown`).
`NeverEarly` is inductive with the types. `ContextsAreUnique` and `NoWakeupIsLost` are
results of their own: no timer is handed back twice, and the thread is never asleep
past a timer or in front of the join of `Shutdown()`, which is the safety half of
`TimersExpire` and `ShutdownReturns`.

**`PlayerProofs`, the program.** For any number of signals. What `WaitForStream()` has
joined is a prefix of the join order (`JoinedSoFar`), nothing is started outside of
that order, whether the audio is protected or not (`StartedThreads`), so all is
joined when it returns. The handler of SIGINT may run after that, and again before
the program ends; `Returns` says where it comes back to and `AllJoined` holds across
it. `CdmsInUse` is `NoThreadOutlivesTheCdm` without its exception for a process
that has crashed, and stronger for threads that have ended and are not joined yet.

**`VideoPipelineProofs`.** From `BoundsAssumption`: any number of samples, frames per
sample, bounds and decoder delay. `FramesInOrder` does not say how many frames the CDM has
been given while the decrypt thread holds a frame it got back, or what the demux thread has
in hand; `HandedOver` and `DemuxedNext` say it for each of their places, `InOrder`
states the order element by element, the form in which the lemmas on `Append` and
`Tail` are. `QueuesStayBounded`, which no run checks, bounds the memory of the
chain: a shut down queue does not block any more, so the demux thread pushes the sample it
has parsed, and the decrypt thread each frame of its last sample, beyond the bound and nothing
more (`DemuxedLimit`, `FramesLimit`, which follow the place of the writer), and
the CDM holds `DecoderDelay` frames and the one it is returning (`HeldLimit`).

**`AudioPipelineProofs`.** From `BoundsAssumption`. `TimestampsLagByLosses` counts the
frames lost before a frame, so the proof has to know where all the others are.
`EachFrameOnce` says so: the frames given to the CDM are, each exactly once, in the
packet of the decrypt thread, in the decrypted queue, in the packet of the decode
thread, in the codec, behind the decoder (frame queue or speaker), or lost, and the
places hold earlier frames the nearer they are to the speaker (`Placed`, a statement
about six sets). `PlacesInOrder` orders the frames within each place. A frame that
moves, or is lost, then moves between two neighbouring sets, which the lemmas at the
head of the module treat without looking at the threads; `Counted` says that the
decode thread's time is the number of frames behind the decoder, and since the frames
before a given one are split into those behind the decoder and lost ones, `Lag` follows by
counting (`FiniteSetTheorems`). The time is claimed for as long as the codec context
lives, since `StopStream()` resets it.

**`SampleDataProofs`.** For every file of the kind `FilesAssumption`
describes: any number of ranges, atoms in any order, moofs that lack any of their parts,
tables of any length, subsamples of any size, any `moov`. `InputIsTheFile`,
`SubsamplesMatchTheData` and `AdtsFramesAreWhole` are about what loops over bytes
compute, so most of the work is in lemmas about operators:

* *Sums and concatenations.* `Sum`, `FlattenSeq`, `NalStarts` and the walk over ADTS
  headers are recursive functions: each is shown to exist, one value more at a time, and
  its equation is then used in an induction. The library's induction theorems take an
  operator as a parameter and cannot be used; `SetInduction` says the same of a set
  that contains 0 and with each number the next, which can. `FlattenProperties` and
  `FlattenIndex` say where each byte of a concatenation lies, `FlattenUnique` that nothing
  else holds the same bytes, `FlattenFlatten` that a cut at inner borders gives the inner
  pieces.
* *Conversions.* `SamplesConverted`: the loop over NAL lengths that runs over a whole
  sample changes exactly the length fields of its frames, whatever the payload, and
  arrives at its end. `HeaderProperties`, `LengthBits`: the 13 bits of an ADTS length
  come back out of the header. `AdtsIsWalked`: a decoder that follows the headers
  arrives at the end.
* *Subsamples.* `CipherOfUnits`: entries of clear and cipher bytes, one per unit, say of each
  byte whether it is encrypted, and `PrependedCipher` that they still do when what is
  put in front is counted as clear in the first of them.

`IInv` follows a file through the phases. `FoundSo` says what the locals of
`ParseMoofMdat` hold in the middle of a range: nothing, what moofs that could not be used
have left there (their durations, sizes, and a sum that is too large), or the first usable
moof. `Described`, `SampleIs`: a sample that comes out of it carries the table of its own
bytes; where decryption is off it need not, and is not decrypted. `DecryptOK`: the
decrypt loop stands at the border of a frame, and the inputs before it are the frames before it.
The growing array of subsamples and the global timestamp are in `InputsOK`.

`FilesAssumption` is what the proof needs of a file, and what the code takes for granted
without a check: a range has an mdat; a NAL unit's clear bytes hold its length field; a
table has entries; a sample without subsamples is an audio frame of one encrypted
piece that fits the 13 bits of the ADTS length; and a moof that is read in front of an mdat
describes it, or describes more bytes than it has and the sizes are compared
(`SizesAreChecked`, `mp4_stream.cc:297`). The last is needed: without it a moof of the same
total size as another's mdat gives the CDM frames cut at the wrong places, and nothing in
the code would notice. The files of the run satisfy it, the broken ones among them too.

The proof found a fault of the models, not of the code: a `CASE` whose guards overlap is
a choice of any of them, where `ParseMoofMdat`, `ProcessSampleDataInPlace` and the
commands of `ILClient` mean the first. They are `IF`s and disjunctions now.

**`ILClientProofs`.** From `ClientAssumption`, for any number of calls, faults, buffers and
unsolicited events. The state holds the rest of a call, so an invariant has to be true
in the middle of each call. The module does not list the middles: a set of pairs of an
abstract state and a rest is *sealed* if every step from a pair leads to a pair (`Sealed`,
with `Goes` for what one instruction may do), and rules say how to seal what
scripts are put together from (`Sequence`, `Finish`, `Instruction`; the last for
instructions that turn into others while they wait). Every function of the library then
gets a lemma like the one of the C code it is composed of (`LooseEnableTunnel` cites
`LooseDisableTunnel`), and an invariant says: the rest of the call is in a sealed set
(`Shape`).

* `Types`: the state keeps its types and each instruction finds the fields it reads.
* `RecordsSuffice`: the event callback drops an event that is on the list already
  (`Deduped`), so a list is no longer than there are different events, at most 27
  and those that come unasked; both lists and the record in the callback's hands fit into
  `NUM_EVENTS`. `Enough` says so: with the 100 records of `ilclient.c`, up to 22 kinds of
  unasked events. The run uses five records for three of them, to come near the limit.
  What is left of the assertions is the one of a call that gives up on a command it takes
  to be certain.
* `WakeUpsAreNotLost`: `NoLostWakeUp`, the safety half of `CallsReturn`. A wait looks at
  its list, then sleeps on flags; whatever is reported between the two raises a flag that
  the sleep returns for (`ilclient_wait_for_event` and `ilclient_wait_for_command_complete`
  look first and sleep after, and the callback puts an event on the list before it
  raises the flag). That each script looks before it sleeps is the second sealed property
  (`Awake`).

The proofs found another fault of the model: `NoAssertFails` held for the two calls of the
run, and not for four (*OpenMAX error paths*). The guard of `enable_tunnel`, and `failed`
in the invariant, say now what it depends on.

Model-checked only:

* All liveness: progress of the channel, playback, delivery, timers, return of calls,
  ends of threads. The prover does not treat fairness. `QueueImplementsChannel` is the
  safety part of `ImplementsChannel`.
* `ILClient`: `NoAssertFails` beyond what `RecordsSuffice` says of it, `QuietBetweenCalls` and
  `ResultsAreTrue`. The abstract states of `ILClientProofs` are made for them: what
  is missing are the lemmas on each script for a call that still makes claims.

## 6. Not modelled, and why

* Bento4, libcurl, libavcodec, SDL, ALSA, MMAL, the OpenMAX components and the CDM
  itself: external. libcurl, Bento4, the CDM and the OpenMAX components appear as
  nondeterministic partners.
* SDL, ALSA and MMAL renderers, registry, logging, time logger: device calls, output
  and accessors.
* Of the OpenMAX client: the user's callbacks, output buffers (`get_output_buffer`,
  `fill_buffer_done`), `get_port_index`, `suggest_bufsize`, `enable_port`: the audio
  renderer uses none of them. Neither the bytes of a frame nor a second acceptance of
  the same buffer (above).
* `BlockingQueue::size`, `GetSummary`, `GetCdmVersion`, `ValidKeyIdsSize`: they only read.
* Decoder calls of `WidevineAdapter` (`InitCdmVideoDecoder`, `Decrypt`, ...): they pass
  through to the CDM and change no state of the adapter; their users are in the pipelines.
* The SPS/PPS copy of `MP4VideoStream::Init`, the conversion of decoded planes to PCM,
  `ProcessSample` (nobody calls it): no property is about them.
* Login, web pages, manifest parsing and the conversion of arguments in
  `pythonInterface.cc`: input handling without shared state.
* Two calls on one adapter at the same time: the Python frontend calls from one thread.
* Everything after an undefined behaviour: the models go to `"undefined"` (or `crashed`)
  and stop claiming anything.

## 7. Plan

Done: all of the library's threads and what they share, the adapter's calls, the program
around them, the OpenMAX client, and the data on its way; proofs of every safety
property of the queue, the stream, the clock, the CDM host and its timers, both
pipelines, the data on its way and the program around them. Left:

1. Proofs: the three invariants of `ILClient`; the remaining action properties of the
   pipelines (a frame is rendered once and after all earlier ones).
2. The range lists that `frontend/mpd.py` builds from the segment index, checked against
   the index.
