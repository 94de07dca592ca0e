# djiDockServer in TLA+

djiDockServer runs beside a DJI dock and uses the vendor's Edge SDK to pull the
drone's live video, decode or forward it, keep the RSA keys that identify the
service, and fetch media files. This directory holds a model of its own logic:
TLA+ modules translated from the source, TLC configurations that check them on
small instances, and proofs that TLAPS checks for every value of the constants.
`PROJECT.json` pairs each definition with the lines it stands for, each property
with the run that checks it and with a plausible bug it notices, and each known
hazard with the properties that watch it.

## 1. The system

| Component | State it keeps | Operations | What is hard | What makes it correct |
|---|---|---|---|---|
| Live view streaming (`DJI/DJILiveview.*`) | `_h264_cache` with its mutex and condition variable, `_isRun`, `isLocalThreadRun`, `_status`, two futures | `Init`, `Start`, `Stop`, destructor; `StreamCallback`, `LiveviewStatusCallback`; `ThreadProcessH264Stream`, `ThreadStartH264Stream` | four kinds of threads, plain `bool`s shared between them, a `push_back` and a `notify_one` outside the lock, restarts that reuse members | chunks reach the decoder whole and in order; no lost wakeup; at most one decoder; `Stop` and the destructor come to an end; the stream is on after `Start` and off after `Stop` |
| Stream bitrate (same file, 82-91) | byte count, time of last publication, published rate | the end of `StreamCallback` | `uint32_t` arithmetic, a wall clock that may go back, a clock read before the lock | every chunk is counted in exactly one publication; the rate is over the interval it is divided by |
| H.264 decoding (same file, 203-281) | codec context, parser, packet | `initDecoder`, `deInitDecoder`, `decoding` | results of `init` ignored; members reused by the next session; a length kept in an `int` | no use of an object that was not made, no double close; every byte is parsed once |
| Encoders (`Encoder/*.hpp`) | frames, or an RTSP output context | `init`, `encode`, `deInit` | each FFmpeg object may fail to be made; frame size may change | as above; buffers fit the frame |
| RSA key store (`DJI/KeyStoreDefault.*`) | two key files, two strings, one shared buffer | constructor (`ReadKeys`, `GenerateKeys`), two getters | crash between two file writes, failed or short writes, a file that is not opened or read, power lost before a file is on the disk, a length that is reused | the SDK gets two halves of one pair, and always the same pair; a pair that is there is kept |
| Media files (`DJI/DJI.*`) | a global queue with mutex and condition variable, `_isRun` | `InitGetMediaFiles`, `MediaFilesUpdateCallback`, `ProcessMediaFileThread`, `ReadMediaFile`, `DumpMediaFile` | a detached thread that holds the object; a flag that is never set; failures that look like successes | every announced file is fetched once, in order, or reported |
| SDK life cycle (`DJI/DJI.*`, `main.cpp`) | none of its own | `InitSDK`, `DeInitSDK`; `main` | the shutdown code after `main`'s endless loop is never reached | - |
| Thermal images (`DJI/DJIThermal.*`) | SDK handle, picture buffer, the settings the handle holds | `Init`, `Process`, `GetSDKVersion`, `PrintRJPEGInfo`, `Release` | early exits that keep a success code; handle not cleared; two switches that must agree on a size, which is an `int32_t` product | the buffer outlives its handle; what was configured is applied; error codes fit the file |
| Timer (`utils/timeTask.hpp`) | `_expired`, `_try_to_expire`, mutex, condition variable | `start`, `startOnce`, `stop`, destructor | check-then-act, two stoppers and one signal, detached thread | at most one thread; `stop` returns and the task does not run after it |
| Log set-up and cleaner (`glogHelper/*`) | `isRun`, `program`, the cleaner thread, the files | constructor, destructor, cleaner | unsigned comparison of an age that is stale when used; an `int` product of days; other writers; a clock that is set back | only the program's own logs are deleted, only old ones, and those in the end; the destructor returns |
| Utility algorithms (`utils/utils.*`) | none | base64, IP checks, file names, paths | arithmetic on `npos` that wraps; masks and shifts; a failed `mkdir` that nobody looks at | agree with a reference definition |

How they interact: `main` makes the key store and hands it to the SDK in
`InitSDK`; the SDK asks it for both keys. `main` then calls `Init` and `Start`
of one live view. The SDK calls `LiveviewStatusCallback` when the set of usable
streams changes and `StreamCallback` for each chunk of H.264 bytes. The starter
thread sends the start command once a stream is usable; the decoder thread takes
whatever the cache holds, parses it and passes packets to one encoder.
`main` first names the log cleaner after `getFileName(argv[0])`; the cleaner runs
beside everything else until `main` ends, and what it logs goes to the folder it
cleans. `InitGetMediaFiles`, the thermal images and the timer are not called by
`main`; `test/test_dji_thermal.cpp` is the client of the thermal images.

## 2. Modules

| Module | What it is |
|---|---|
| `Liveview` | One `DJILiveview` object and its threads: the specification `Spec` |
| `StreamBitrate` | The bitrate arithmetic of `StreamCallback`; `Liveview` uses its operators |
| `H264Channel` | Abstract: a first-in first-out channel of chunks, drained whole, until it is closed |
| `LiveviewProps` | The type invariant and the properties of `Liveview`, and the refinement `ChannelSpec` |
| `MCLiveview` | The chunk lengths for TLC |
| `LiveviewProofs` | Proofs about `Liveview` |
| `FrameDecoder` | The FFmpeg objects of the decoder thread and its RTSP encoder over successive sessions, and the parse loop, with its properties |
| `FrameDecoderProofs` | Proofs about `FrameDecoder` |
| `MediaFiles` | The media observer, the queue and the thread that is to serve it |
| `KeyStore` | The key store over process starts, crashes and losses of power, with its properties |
| `KeyStoreProofs` | Proofs about `KeyStore` |
| `Timer` | A timer, its launched threads and the threads that start and stop it, with its properties |
| `TimerProofs` | Proofs about `Timer` |
| `Thermal`, `ThermalProofs` | A `DJIThermal` object over its calls and pictures, with its properties; proofs |
| `FilePaths` | The file name functions, `StringSplit`, `startsWith` and `CreatePath` as operators, with the `size_t` arithmetic; `LogCleaner` uses `getFileName` and `startsWith` |
| `Encodings` | base64 and the IP address checks as operators |
| `Utilities` | What the operators of the two must compute, for each text of a set |
| `MachineInts` | What an `int` holds of a larger number; `FrameDecoder`, `Thermal` and `LogCleaner` use it |
| `LogCleaner` | `GlogHelper`: the cleaner thread among other users of the folder, with its properties |
| `MCLogCleaner` | A folder for `LogCleaner` and the texts for `Utilities` |
| `FilePathsProofs`, `UtilitiesProofs`, `LogCleanerProofs` | Proofs about these |

### Liveview

A step is what one thread does between two points where another thread can see
or disturb it. Where a thread is, is its program counter:

| Variable | Code |
|---|---|
| `isRun`, `isLocalThreadRun`, `status` | the members of those names |
| `cache`, `mutex` | `_h264_cache` and its mutex; a chunk of bytes is its number, `Sentinel` the byte that `Stop` pushes |
| `rate` | `_recv_stream_data_total_size`, `_recv_stream_data_time` (as the time gone since), `_stream_bitrate_kbps` |
| `dec[s]`, `batch[s]` | the decoder thread of the `s`-th `Start`, and its `decode_data` |
| `st[s]` | the starter thread of the `s`-th `Start` |
| `cb`, `cl` | where `StreamCallback` and the client are |
| `streaming`, `arrived` | the SDK: whether it delivers, and how many chunks it has |
| `snap`, `cacheUB` | `Stop`'s `push_back`, split into its read and its write, and whether it raced |
| `decoded`, `window`, `session` | history that the properties speak about |

Points that are easy to get wrong and are kept:

- `Stop` pushes and notifies without the lock. The `push_back` is two steps. One
  that overlaps another change of the vector is undefined behaviour: the model
  lets it succeed, undo the other change, or vanish, and raises `cacheUB`.
  Properties about the cache's contents exclude those behaviours by name. A
  process that dies of the race is a prefix of a behaviour that is checked.
- A condition variable has waiters. `NotifyOne` wakes one or nobody and leaves no
  trace; a woken thread competes for the lock and evaluates the predicate again.
  Spurious wakeups may happen at any time.
- The result of `std::async` is assigned to a future that may hold the last
  session's thread: the new thread runs first and then the assignment waits for
  the old one (`StartStarter`, `StartReturn`). The destructor waits in the same
  way (`DestroyReturn`).
- The starter looks at `_isRun` only at the head of its outer loop.
- `StopH264Stream` may fail; the stream then stays on and `Stop` returns.
- The initial `initDecoder` and encoder set-up change nothing that the rest of
  this model sees, and their results are ignored by the code (`DecoderInit`).

The client is the one of `main.cpp`: calls of one thread, in any order, with no
`Start` of a live view that runs. Callbacks are followed until the destructor
ends. `StreamCallback` is one SDK thread. `_isRun`, `isLocalThreadRun` and
`_status` are plain variables that threads share, which is a data race; the
loops that read them call functions the compiler cannot see into, so the model
reads them afresh each time.

### FrameDecoder

`Liveview` has the decoder thread as it meets the other threads and takes decoding
as one step. `FrameDecoder` has what the thread does by itself. `LifetimeTheorem`
of `LiveviewProofs` is what lets it run sessions one after the other: no two
decoder threads are alive at once.

| Variable | Code |
|---|---|
| `pCodecParserCtx`, `pCodecCtx`, `pPacket` | the members of those names; `"closed"` is a parser pointer whose parser is gone |
| `pFormatCtx` | the member of the thread's own `EncoderRTSP` |
| `dataPtr`, `remain` | the locals of `decoding`; a piece is a byte, they are numbered, and `given` of them came in |
| `codecFound` | what `avcodec_find_decoder` says, the same for the life of the process |
| `fed`, `failed`, `dropped`, `narrowed` | history that the properties speak about |

`initDecoder` gives up at the first object it cannot make, and nobody looks at its
result or at that of the encoder's `init`. What FFmpeg does with an object that
is missing is undefined: parsing into a null packet ends in `"crashed"`, and
writing to an output without a header may. The parser may take all of what it is
offered, some or nothing, and may complete a packet each time. `isEncodeImage` is
false and nothing sets it, so the image encoder is never made. The module has
safety only and no fairness.

`decoding` gets the batch's length as a `size_t` and counts it down in an `int`.
`remain` is what the `int` holds of the length (`AsInt`), and the loop runs while it is
positive: of a batch of 2^31 bytes or more the code passes over some or all, and says
nothing. `narrowed` records that there was one.

### MediaFiles

`InitGetMediaFiles` in two steps (the observer, then the detached thread), the
destructor, the observer and each step of the thread. The thread's loop is guarded
by `_isRun`, which is false from the start and which only the destructor assigns.
So the thread ends at its first look, and all that follows in the module is what
the code would do. There is one property, that an announced file leaves the queue
(`DJI.h:53`); it fails. Properties of the unreachable part would hold for nothing
and are not stated. After the destructor nothing is followed.

### KeyStore

The state is the two files as the program sees them, what of each has reached the
disk (`publicDisk`, `privateDisk`), the two strings, where the constructor is, and
four history variables: the last pair generated (`key`), the last pair given to the
SDK (`served`), whether a write has failed, been cut short or been lost (`damaged`),
and whether a file that exists was not read as it is, in this process or an earlier
one (`misread`). What a file holds is nothing, an empty file, a torn one, or a given
half of a given pair.

`fopen` and `fread` may fail on a file that is there (`PublicNotOpened`,
`PrivateNotOpened`, `Reads`): the code takes a file it cannot open for one that is
missing, generates, and truncates the pair it had; what `fread` leaves out is
missing from the key. `ReadPrivate` keeps the effect of the shared `len` and
`_buffer`: a private key file of which nothing is read yields what was read of the
public key. `Crash` is the end of the process, at any step; it clears the memory and
tears a file that is open for writing. `PowerLoss` also takes what is not on the
disk: `fclose` does not write it there, `Sync` does, at any time. A getter that
would follow a null pointer is a `Crash`.

### Timer

Each access to `_expired`, `_try_to_expire`, the mutex or the condition variable
is a step. `caller[c]` is where a thread is in `start` or `stop`, `thread[t]`
where the `t`-th launched thread is. `Starters` and `Stoppers` say who calls what;
they may be the same threads. Kept with care: `start` and the two early returns
of `stop` look at the atomics without the lock; `stop` reads `_expired` a second
time before it resets `_try_to_expire`. The task is one step that ends. Left out:
the name and the period, which only getters read, `startOnce`, whose thread does
not touch the timer, and tasks that call their own timer. The destructor is a
call of `stop`.

### Thermal

`Process` is a program counter over its steps, in the order of the code
(`Following`); a row of getters that change nothing and end the call alike is one
step. Each step succeeds, fails through the SDK, or, on a handle that is destroyed
or whose buffer is freed, does anything (`SdkAnswers`, `SdkCrashes`).

| Variable | Code |
|---|---|
| `handle`, `handleData` | `_handle`, and the buffer that the SDK was given for it |
| `rjpegData`, `allocated`, `inits` | `_rjpeg_data`, and which buffers are not freed |
| `sdk` | the settings that the handle holds beside its defaults; they outlive a `Process` |
| `action`, `step`, `ret`, `pixels`, `outSize` | the running call and its locals |
| `file` | the output: untouched, empty, half written, whole |
| `made`, `starved`, `phase`, `orderly`, `destroyFailed` | history that the properties speak about |

Kept with care: `Init` allocates before it knows that the file can be read, and
does not free what it held; `Release` frees the buffer and not the pointer to the
handle, so that it can destroy twice; `configured` is what `_ispConfig` overrides,
and what it does not override is skipped. The program never assigns `_ispConfig`, so
`{"brightness"}` is its own; the other sets are configurations the code is written for.
It stays as it is while the object lives.
A setting is its name, a picture a number of pixels. Sizes are `int32_t` products:
`outSize` is what an `int32_t` holds of the exact size (`AsInt`; the overflow is
undefined in C++, the build wraps), and so may be negative, zero, or positive and too
small. The SDK is taken to write only into a buffer of the size it expects
(`DIRP_ERROR_SIZE`, `dirp_api.h:59`). `Release` is declared `int` and returns nothing; the model lets it return
to its caller, as the build without optimisation does.

### FilePaths, Encodings and Utilities

A string is a sequence of character codes. `rfind` returns `npos = SizeMod - 1`
for "not found" and sums and differences of positions wrap at `SizeMod`, so
`getFileName` of a path whose last dot is in a folder asks for a count near
`SizeMod` and gets the rest of the string, as in C++. base64 is in closed form:
which characters a group of bytes becomes, rather than how a loop fills a buffer;
a slot after the last character decodes to -1, as in the code. Texts are taken to be
short enough for the code's own counters, `unsigned int` for base64 and `int` for the
addresses. The loops of the
address checks, of `StringSplit` and of `CreatePath` are folds. `CreatePath` is over
a set of folders that exist and a set of folders that `mkdir` refuses; `..` is not
modelled. `Utilities` makes the argument a variable, so that TLC tries each text
as a state, and states what the results must be without the code's arithmetic.

### LogCleaner

| Variable | Code |
|---|---|
| `argv0`, `program` | what `main` is called with, and the member it is made into |
| `isRun`, `owner` | the member of that name, and where the object is between constructor and destructor |
| `pc`, `logs`, `now`, `file` | where `cleaner` is, and its locals |
| `clock`, `ctime` | the system's clock, and `st_ctime` of each file that there is |
| `setBack` | history: the clock was set back during this scan |

A scan is: sleep, list, read the clock, then for each name stat, message, remove.
Between any two of these others write, create and remove files, the clock goes on
or is set back, and the destructor may begin. `stat` and `remove` may fail, the
listing may be cut short by an exception, and the message at 106 may write to any
log of the program, the one about to be removed included. The message after a
removal is a write by others. `now - st_ctime` is taken modulo `WordMod` and compared with
`keepSeconds`, as C++ compares a `time_t` with a `uint64_t`. `keepSeconds` itself is a
product of `int`s: from 24856 days on it overflows and what is left of it (`AsInt`) may be
far less. `SecondsFit` says that it does not. `isRun` is a plain `bool` that
two threads share; the loop sleeps and calls the system, so the model reads it
afresh each time.

## 3. What TLC checks

| Run | Instance | Shows |
|---|---|---|
| `live_stream` | one session, three chunks, clock gaps 0 and 8 ms, status 0 or 1 | `StreamIntact`, `RateCountsEveryChunk`; the channel is implemented (`ChannelSpec`, with its liveness); `StartRetried`, `StopEnds`, `DestructorEnds` |
| `live_restart` | two sessions, two chunks | `TypeOK`, `CacheGuarded`, `NoLostWakeup`, `DecoderLifetime`, `ChunksKept` |
| `live_stays_stopped` | same | *violation*: the starter turns the stream on after `Stop` has turned it off |
| `live_stop_hangs` | same | *violation*: the signal of `Stop` is lost and `Stop` never returns |
| `live_bitrate_interval` | same | *violation*: a rate is published after 8 ms, not 2000 |
| `frame_decoder` | three sessions, eight bytes of stream, an `int` of up to 2 | `TypeOK`, `SoundUnlessFailed`, `ParserClosedOnce`, `FedOnce` |
| `media_never_fetched` | two files, two calls of `InitGetMediaFiles` | *violation*: a queued file is never taken, against `DJI.h:53` |
| `key_store` | up to three generated pairs, any number of starts, crashes, failed reads and losses of power | `TypeOK`, `MatchedUnlessDamaged`, `IntactPairStays`, `KeptUnlessDamaged` |
| `key_store_changes` | same | *violation*: a failed write is ignored and the next start hands out other keys, against `key_store.h:38` |
| `thermal` | two buffers, pictures of 0, 2 or 9 pixels, an `int32_t` of up to 7, any order of calls; the program's configuration, and one of a palette, a distance and the other formats | `TypeOK`, `DataOutlivesHandle`, `OrderlyIsSafe`, `BufferFits`, `SettingsApplied`, `ReportIsRight` |
| `log_cleaner` | two logs and one file of another program, a clock of three seconds; 4,900 texts for the functions | `TypeOK`, `OnlyOldOrTouched`, `OthersKept`, `OldLogsGo`, `DestructorEnds`; `FileNameIsBase`, `CreatePathMakesAll`, `Base64RoundTrip`, `AddressesMatch` |
| `timer` | one thread starts, another stops, three starts | `TypeOK`, `NotStartedAgain`, `WaitsForThread`, `StopEnds` |

Two more disagreements have no run. `main.cpp:31` gives `--keep` a number of days, but
`GlogHelper.cpp:84` computes their seconds in an `int`: 99999 days become about 578, and logs
younger than `--keep` are deleted (`OnlyOldOrTouched` excepts this by `SecondsFit`). `DJILiveview.h:109` says that with status 0 the
starter keeps sending the start command; the code waits for a status that is not
0 and only then sends (`DJILiveview.cpp:181-185`).

Every violation is described under `findings` in `PROJECT.json`, with the line of
the source or its documentation that it disagrees with.

**Bounds.** `MaxSessions` and `MaxChunks` bound the calls of `Start` and the
chunks delivered; nothing else is bounded. Three chunks fill a batch with more
than one while another is decoded and a third waits for the lock. The interesting
cases of a restart need two sessions: a starter or cached chunks left from the
first, and a callback across `Stop` and `Start`. The lock, lifetime, wakeup and
stream properties are proved for every bound. Of the clock only "less than the
threshold" and "at least the threshold" matter; a gap that is negative acts like
a small one. `UintMod` is 2^16 in the runs, so that sums and products wrap with
the chunk lengths chosen; it is a parameter of the proofs. Of `_status` only 0 and
not 0 matter. `MaxKeys` of three lets a pair be replaced and replaced again.
Three decoder sessions let an object that a session left behind meet one that
fails and one that does not; eight bytes with an `int` of up to 2 make batches whose
length the `int` holds as it is, as a negative number, as zero and as a smaller
positive one, parsed in one call or several, in each session.
Three starts let a timer be started while the stop before is still under way, and
once more after it.
Two buffers let a second `Init` lose the first one's and let `Release` meet a handle
it has destroyed; resolutions of 0 and 2 give an empty picture and sizes that differ
between formats; 2 pixels of 4 bytes and 9 pixels give sizes that an `int32_t` of up to 7
holds as negative and as small positive numbers. `keepDays` and `Day` are 1, so that the three seconds of the clock
give ages below, at and above the limit; `WordMod` of 8 is above every age, so that a
negative age wraps to a large one as it does in 64 bits. The texts are all paths of
up to six of `/`, `.` and a letter; all arrays of up to four bytes at the borders of
the bit groups and one of seven; and addresses of one part too few, enough and too many, whose
first and last parts are empty, zero, with a leading zero, at and above 255, too
long, or not digits; in `log_cleaner` these texts are tried in states of their own, in which
no cleaner runs. The seconds of `keepDays` fit the `int`
(`IntLimit` of 4), as up to 24855 days do in the code.
Deadlock is not checked: the client may call nothing more, a destroyed object
does nothing, and the hung `Stop` is stated as a property of its own.

**Fairness.** `Spec` has weak fairness for each thread's own steps and for what
is left of a method once it is called: the operating system runs threads that
can run. The lock has strong fairness, for the callback and for each decoder:
glibc's mutex does not promise it, but a waiter on a mutex that is released over
and over gets it in the end. `StartH264Stream` is accepted in the end if it is
sent for ever (strong fairness on the accepted outcome); `StartRetried` and
nothing else rests on it. Nothing makes the client call a method, a chunk arrive
or the status change, and no thread may count on a spurious wakeup. `KeyStore`
and `FrameDecoder` have no fairness and no liveness property. `MediaFiles` has weak
fairness for its threads and for the rest of a call, and strong fairness on the
lock. `Thermal` and `Utilities` have no fairness and no liveness property.
`LogCleaner` has weak fairness for the thread and for the destructor's wait, and
strong fairness for a listing that is not cut short and for the removal of each
file: a folder that can never be read, or a file that can never be removed, is
not cleaned. `Timer` has weak fairness for each
launched thread and for the rest of each call, and strong fairness on the lock.

**Liveness is conditional, where the code is.** `StopEnds` leaves out the one
place where the decoder holds the lock over an empty cache and is about to wait:
there the signal is lost, which `live_stop_hangs` shows. `DestructorEnds` allows a
status of 0, on which the starter polls for ever, and needs a stopped object.
`OldLogsGo` ends where the log is written again, the clock goes back so that it is
not old any more, or the destructor begins.

## 4. What is proved

All proofs are for every number of sessions, chunks, keys, starts, every chunk length,
clock movement, set of statuses and word size that the assumptions
`LiveviewAssumption`, `UintModAssumption`, `FrameDecoderAssumption`,
`KeyStoreAssumption`, `TimerAssumption`, `ThermalAssumption`, `FilePathsAssumption`,
`UtilitiesAssumption` and `LogCleanerAssumption` allow; TLC evaluates these on its runs.

For `Liveview` (`LiveviewProofs`), each result rests on the ones before it:

1. `TypeCorrect`: `TypeOK`.
2. `LifetimeTheorem`: `DecoderLifetime`. It is not inductive by itself. `LifeInv`
   adds that the client is outside `Stop` whenever `isLocalThreadRun` is set, and
   that it has called `Start` by then; so a new session's decoder starts only
   after `Stop` has joined the last one.
3. `LockInvariant`: `CacheGuarded`, which is inductive with the types.
4. `WakeupTheorem`: `NoLostWakeup`. The strengthening `WakeInv` speaks of the
   decoder that has seen an empty cache and has not begun to wait: it holds the
   lock, so by 3 only `Stop`, which takes no lock, can fill the cache meanwhile.
5. `BatchInvariant`: a batch exists only between copy and decoding.
6. `StreamInvariant`: `StreamIntact`. The stream `decoded \o batch \o cache` grows
   at its end by the callback's insert and is otherwise only cut differently
   (`StreamStep`); the lemmas on sequences say so for each of the three moves. 2 and
   5 are needed for there to be one batch.
7. `ImplementsChannel`: the safety part of `ChannelSpec`, step by step, from 6.
8. `ChunksInvariant`: `ChunksKept`. `StreamStep` says what any step does to the
   stream in any session, while one decoder at a time is alive: it leaves it, ends it
   with the next chunk, or ends it with a byte of `Stop`, the only one that may go
   wrong. A stream whose chunks count up from 1 still does with either of these at
   its end (`CountsOn`).
9. `RateInvariant`: `RateCountsEveryChunk`. Only the callback touches the bitrate
   (`RateStep`). `Delivered`, the sum of the chunk lengths, is a recursive function:
   that there is one is shown from the least number of chunks without (`LeastNumber`,
   `SumsExist`); that the running total wraps as the sum does is arithmetic on `%`
   (`Divided`, `ModSum`).

For `FrameDecoder` (`FrameDecoderProofs`): `TypeCorrect` and `FedOnceTheorem` from
`FeedInv`, which says where each byte is: not come in, in the batch before
`dataPtr` and parsed, or in the batch and not parsed; `dataPtr + remain` is at most the
end of the batch, and is the end unless the batch was longer than an `int` counts
(`IntOfLength`). So no byte is parsed twice whatever the lengths, and none is left
out without an error as long as every length fits; beyond that the code does leave
bytes out, and `FedOnce` excepts it by name. The types need `FeedInv` too, or `dataPtr`
could leave its range. `SoundTheorem` and `ParserClosedOnceTheorem` from
`ObjectInv`, which lists the objects there are at each point. That the stale
parser pointer is never closed again rests on two facts of the code: an FFmpeg
without the decoder never makes a parser, and one with it overwrites the pointer
before anything else can fail.

For `KeyStore` (`KeyStoreProofs`): `IntactPairStaysTheorem` from `WriteInv` (while
a pair is written, the files hold no intact pair that could be lost), for every process
that could open and read the files it looked at: one that could not does truncate an
intact pair, and a loss of power may take one that is not on the disk. `MatchedTheorem`
and `KeptTheorem` from `CleanInv` (what files and memory hold at each step of the
constructor), as long as no write was cut short or lost and no process so far misread a
file. All three conditions are what the code needs and does not see to.

For `Timer` (`TimerProofs`), for any callers and number of starts:
`NotStartedAgainTheorem`, if one thread at most calls `start`, from `StartInv` (a
start past its look at `_expired` finds no thread running; while one runs the
timer is not expired); `WaitsForThreadTheorem`, if one thread at most calls
`stop`, from `WaitInv` (a timer that is not expired has a thread that will say so,
or is about to have one). Both conditions are needed: two starts can both pass
line 39, and `notify_one` wakes only one of two stoppers.

For `Thermal` (`ThermalProofs`), for every configuration, set of resolutions and
number of calls: `TypeCorrect`; `BufferFitsAlways`, by comparing the two switches
case by case, for every size that an `int32_t` holds (for a larger one it is shown only that
the buffer is not empty); `DataOutlives`, which needs that a live handle's buffer is the one
`_rjpeg_data` points to; `OrderlyAlwaysSafe` from an invariant that says what handle
and buffer are in each phase of an orderly client: after a release nothing is left, after an
`Init` that failed at most the one buffer it made, and no live handle unless the SDK refused
to destroy it; `SettingsAlwaysApplied` from one
that says which settings the handle has at each step of `Process`, left over from an
earlier call or not; `ReportAlwaysRight` from one that relates `ret` and the file at each step.

For the functions (`FilePathsProofs`, `UtilitiesProofs`), for every text of bytes
that is shorter than `SizeMod`: `FileNamesRight`, `DecodingInverts`, `PathsMade` and
`AddressesChecked`. That a
character which occurs also occurs last is the one inductive fact; `LastOne` takes
it from the library's theorem that finite sets are well founded by inclusion. For base64
the three identities on bits (`BitsBack`) and the lengths (`Lengths`) are arithmetic;
`DecodedIs` puts them together at an arbitrary byte.

`PathsMade` and `AddressesChecked` are about loops, which are folds in the model.
The library's `FoldLeft` chooses a function on sets of positions, and a chosen thing is
only known if it exists: `FoldExists` builds it one position at a time, `FoldRuns`
then reads its values on `1..0`, `1..1`, ... `1..n` as a run of the loop, with the
accumulator after each character or name. The induction is over a set of numbers
(`UpTo`, from the least number that is not in it), because the library's induction
theorems take an operator. With such runs:

- `CreatePathMakes`: every folder that the loop comes by is a level of `Named(path)`
  (from the end of the way back, `BelowBack`), and at each level there is what was there
  and what no refusal is in the way of (`LevelMakes`);
- `LoopCuts`: up to each character the loop of `isIPv4` has cut off what lies between
  neighbouring dots, so in the end it has `PartsOf` the address, unless that ends in
  a dot, where the code's last test and the empty part (`PartsCover`) agree;
- `NumberIs`: what `stoi` and `to_string` accept are the 256 numerals, with `StoiIs`
  from the same kind of run; `ValidIs`: no address is of both kinds, as digits are no colons
  and hexadecimal digits no dots; `DottedIs`: what `getIpStr` puts together is cut
  into the same four numbers.

For `LogCleaner` (`LogCleanerProofs`): `RemovesOldOrTouched` from `Judged`, if the seconds
of `keepDays` fit an `int` (`KeepSecondsIs`; up to 24855 days): as long as
the clock is not set back, the reading is not ahead of it, so every write since
dates the file at or after the reading; `TooOldIs` is the unsigned comparison.
`RemovesOwn` from `Ours`, with `getFileName` right for every path (`NameIsBase`).

Only model-checked: all liveness (`ChannelSpec`'s fairness, `StartRetried`,
`DestructorEnds` and `StopEnds` of two modules each, `OldLogsGo`), which is out of the
prover's reach. Every invariant that a passing run checks is also proved.

## 5. Not modelled

What could still be added: a client that calls `Start` twice without `Stop`.

Not followed: callbacks and the media thread after their object's destructor,
tasks that call their own timer, `..` in a path, text that is not ASCII in base64 and
address checks (an index or `isdigit` of a negative `char` is undefined there).

Left out: system information (it reads `/proc`, runs commands and lists network
interfaces: input and output only), the character set conversions and the other
small helpers of `utils.cpp` (library calls, or one line), the vendor's SDK
and libraries (modelled from how they are used), the image encoder (never made), the
demos under `test/`, the glog settings, the command line and the build.
