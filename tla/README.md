# FMGateway in TLA+

FMGateway connects the FM controller of a repeater (MMDVMHost, through UDP) to an
audio network: USRP, raw audio, or IAX2 (Asterisk).  This directory models it,
checks the models with TLC, and proves their main properties with TLAPS.

All paths below are relative to the repository; the map from every definition to its
lines is in `PROJECT.json`.

## The system

One process, one thread of its own, the thread of libmosquitto for each connection of
the log, and signals.  `main()` creates a `CFMGateway` and calls `run()`; on SIGHUP it
does so again.  `run()` reads the configuration, becomes a daemon if told to, opens
MQTT, the repeater side and one network side, and then turns the main loop until a
signal sets `m_killed`:

1. `readType()`: look at the oldest record of the repeater's ring buffer; read it with
   `readStart()`, `readData()` or `readEnd()` and pass it to the network side;
2. `readData()` of the network side, at most 500 samples, written to the repeater;
3. `clock(ms)` of both sides with the time since the last turn: timers, and at most one
   datagram from each socket into each ring buffer;
4. a sleep of 10 ms when the time measured in 3 was below 10 ms.

In the main thread all calls are synchronous; there are no locks and no queues between
threads.  What makes the program hard is elsewhere: two ring buffers that throw everything
away when they overflow, records written and read piecemeal, timers that have to be
restarted by hand, a protocol client (IAX) whose state is spread over a dozen fields
updated in some twenty branches, datagrams that come in any order, late, twice, or not
at all, and a restart inside the process that inherits whatever the run before has left.

| Component | State | Operations | What makes it correct |
|---|---|---|---|
| Ring buffer (`RingBuffer.h`) | array, read and write pointer | `addData`, `getData`, `peek`, `clear`, sizes | a first-in first-out queue; empty and full are never confused |
| Timer (`Timer.h`, `Timer.cpp`) | counter, timeout | `start`, `stop`, `clock`, `isRunning`, `hasExpired` | expires once the time has passed, never while stopped |
| Repeater side (`FMNetwork.*`) | ring buffer of records, keepalive timer | `readType`, `readStart`, `readData`, `readEnd`, `writeData`, `clock` | records stay whole, and are read by the function of their type; keepalive goes on |
| USRP side (`USRPNetwork.*`) | ring buffer of audio, sequence number | `writeStart`, `writeData`, `writeEnd`, `readData`, `clock` | audio in order, lost only by an overflow; a frame fits its array |
| IAX side (`IAXNetwork.*`) | status, two timers, call and sequence numbers, challenge, key, ring buffer | as above, and a dozen private writers; 19 kinds of frames received | timers agree with the status; numbering; challenge and response; a call comes up and ends |
| Mu-law codec (`IAXNetwork.cpp`) | none | `uLawEncode`, `uLawDecode` | close to the sample; stable when repeated |
| Raw side (`RAWNetwork.*`) | ring buffer, resampler, squelch file | as above | bytes in order; lengths within the arrays; the pace kept |
| Main loop (`FMGateway.cpp`) | `m_killed`, where it is, the time of the turn | one turn, the signal handler | passes on everything in order; stops on a signal; aborts over nothing that may arrive |
| Lifecycle (`FMGateway.cpp`) | `m_signal`, `m_killed`, process, working directory, open descriptors | run, early return, restart, exit | signals are heeded; nothing is left open |
| MQTT and log (`MQTTConnection.*`, `Log.*`) | connection, `m_connected`; the broker's view of it | `open`, `close`, `onConnect`, `onDisconnect`, `LogFinalise` | the log is connected in the end, unless it is refused |
| UDP socket (`UDPSocket.*`) | `m_fd` | `open`, `read`, `write`, `close` | recovers from ENOTSOCK; loses no socket |
| Configuration (`Conf.*`) | the section, the members | `read` | a file means what it says |
| Threads, stop watch, utilities, build files | - | - | wrappers, hex dumps |

`PROJECT.json` lists all components with what is left out of each, and under `hazards`
the places where the code is hard to test, with the properties that watch each one.

## Modules

| Module | Models | Correspondence |
|---|---|---|
| `RingBuffer` | `CRingBuffer<T>` | `buffer`, `iPtr`, `oPtr` are the members; a call is an action; `reply` is what it returned; the copy loops are one update of the array |
| `QueueOps` | the same as a sequence | the operators the owners of a buffer are written with |
| `ByteQueue` | the promise of `CRingBuffer` | abstract specification, implemented by `RingBuffer` |
| `Timer` | `CTimer` | a timer is the value of `m_timer`; the timeout is an argument |
| `Audio` | 16-bit samples to float and back | a float is represented by the multiple of 1/65536 it is |
| `FMNetwork` | `CFMNetwork` | `buffer`, `timer` are the members; `sent` is what the call wrote to the socket |
| `USRPNetwork` | `CUSRPNetwork` | `buffer`, `seqNo`; `sent` as above; `TooLong` says when `writeData()` leaves the array of 500 bytes that it puts a frame together in |
| `RAWNetwork` | `CRAWNetwork` | `buffer`, `sampleRate`, the last character in the squelch file; `sent`, `read`, `heard` are what a call wrote, took out and returned; `phase` as above |
| `AudioPipe` | the promise of the gateway in one direction | abstract specification: packets go in, the same samples come out in order; in `LossySpec` a packet that does not fit loses all that is on its way |
| `FMGateway` | the loop of `run()` with the repeater side and the USRP side | `pc` is the statement of the loop; `killed` is `m_killed`; one action per step 1-4, `Signal` between any two; `AfterRecord`, `AfterAudio` and `AfterCallsign` say where a read and the write after it can lead, the assertions and arrays of both sides included |
| `IAXNetwork` | `CIAXNetwork` | the object is the record `iax`, one field per member; each private writer is an operator on it; one action per public function; `phase` ends as `aborted` or `undefined` over a block that `writeData()` asserts against or has no room for; `Restart` is the object of the next run |
| `IAXSession` | the same in a session | the client is `IAXNetwork`; `toServer`, `toClient` are the frames under way; the server `srv` is external, with the rules of IAX2 that the client relies on |
| `ULaw` | `uLawEncode()`, `uLawDecode()` | shifts are powers of two; a step encodes and decodes |
| `Descriptors` | the table of open descriptors (external) | the lowest free number is given out |
| `UDPSocket` | `CUDPSocket` | `fd` is `m_fd`; `files` is what the numbers stand for, which other parts of the process change |
| `Lifecycle` | `main()`, the signals, `run()` around its loop, the log and its connection | `pc` is the statement; one action per statement that can fail or be interrupted; one client of the log per run, with its thread and its number; the three steps of closing (`CloseLocal`, `CloseNet`, `CloseSquelch`) may be parted by a thread of the log |
| `Conf` | `CConf::read()` | `rest` is the text by lines, a line a sequence of words and of the characters that `read()` looks for; a step is one turn of the loop over `fgets()`; the forms of a line that an author may write are stated apart from how the code reads them |
| `MC*` | the instances for TLC | |
| `*Proofs` | theorems | |

How they are composed: `FMGateway` instantiates `FMNetwork` and `USRPNetwork` on its own
variables.  They and `RAWNetwork` use a ring buffer as the sequence that it holds
(`QueueOps`), which is justified by the proof that `RingBuffer` implements `ByteQueue`, a
state machine over the same operators.  `FMGateway` (twice) and `RAWNetwork` implement
`AudioPipe`.  `IAXSession` extends `IAXNetwork` and calls its operators with the frames
that are under way; of the ring buffer of the IAX side only the number of samples is kept.
`UDPSocket` and `Lifecycle` share `Descriptors`.  `Lifecycle` reduces the loop to its test
of `m_killed`, and `FMGateway` takes up there.

Some definitions have a variant before them ("Variant of ..."): the same code with a
plausible slip.  No specification uses them.  Substituted for the original, each makes a
property fail; `mutants` in `PROJECT.json` says which.

Abstractions worth knowing:

- A datagram is a sequence of bytes for `FMNetwork` (its tag and its length matter) and
  `RAWNetwork`, a kind and a payload for `USRPNetwork`, and the fields that steer the
  protocol for `IAXNetwork` (type, sequence number, call number, challenge, size).  Header
  bytes and information elements that are only copied out are left out.
- A socket is what a call finds on it: nothing, or one datagram of the configured peer or
  of a stranger.  In `FMGateway`, `IAXNetwork` and `RAWNetwork` loss, duplication, delay
  and reordering are all in that choice, since nothing constrains what comes when;
  `IAXSession` has the frames themselves, because whether a call comes up depends on
  what the server has received.  Results of writes are ignored by the callers and are
  left out, except in `open()` and `writeStart()` of the IAX side, which act on them.
- `Encoded` of `Audio` is the integer form of `short(v / 65536.0F * 32767.0F + 0.5F)`.
  It was compared with single-precision arithmetic for all 65536 samples.
- Elapsed time is chosen from a set each turn.  Timers keep the code's arithmetic, with
  their counters starting at one and compared with `timeout + 1`.
- The converter of libsamplerate fails, or leaves any samples at all in the array it was
  given; only the lengths are the code's.

## Runs

| Run | Question | Bounds |
|---|---|---|
| `ring_buffer` | Do the array and its pointers implement the queue? | 4 cells, 3 elements, chunks of up to 5 |
| `gateway` | Does the loop pass on all audio in order, keep its keepalive, stop on a signal, and keep records whole? Over what does it fail? | ring buffers of 20 bytes, 3 samples a turn, 2 in a frame, keepalive of 4 units; datagrams of 1 byte to 4 samples, frames of the peer of up to 5 samples |
| `gateway_asserts` | Is a start or an end of transmission read by the function that knows it? | the same |
| `iax` | Do status, timers, numbers and challenges stay consistent, whatever arrives? | 3 sequence numbers, 2 call numbers, 1 challenge, retry after 3 units, ping after 4; blocks that are empty, fit, and do not fit a mini frame |
| `iax_live` | Are NEW and REGREQ repeated, is the call kept alive? | 2 sequence numbers, 1 call number |
| `session_call` | Does a call come up over a network that loses and overtakes frames until it is mended, also after a restart of the client? Do both sides agree on what has become of the first call? | 2 frames under way to the client, or 2 objects one after the other; 2 calls, 2 challenges, 1 repetition by the server, 6 sequence numbers |
| `session_ends` | Does a registration end? Does a call that the server ends stay ended? | a server that registers the client and pings it, or one that hangs up over a network that keeps the order; 10 sequence numbers |
| `socket` | Does the re-opening after ENOTSOCK, or any failure of `open()`, lose a socket? When does `write()` abort? | 4 descriptors, which other parts of the process open and close at any time |
| `lifecycle` | What do signals, early returns and restarts leave behind? Does the log settle? | 9 descriptors, 2 signals, four configurations |
| `conf` | Does every member get the value that the file gives it? | files of up to 3 lines out of 14, with either end of a line, the last one also without |
| `ulaw` | Is the codec accurate, and stable when repeated? | all 65536 samples, 2 encodings |
| `raw` | At which rates do lengths stay within the arrays? Does audio keep its pace, do bytes keep their order? | ring buffer of 12 bytes, arrays of 6 samples, blocks of none to 3, rates of 5000, 8000, 12000 and 24000 |

Why the bounds are enough.

- `ring_buffer`: every chunk length from none to more than the buffer meets every position
  of both pointers, so a chunk wraps, fits exactly, is one too long, or does not fit an
  empty buffer.
- `gateway`: the datagrams include those shorter than a tag, audio that is empty, that fits a
  frame, that is too much for a frame and that is too much for a turn, an odd length, every tag
  and none; bytes differ so that a swap shows; a keepalive may be
  due in any turn, also two timeouts late.  From the peer comes also more than a turn
  takes out, so that the backlog grows, and two such frames overflow the buffer.
- `iax`: the sequence numbers wrap after three frames, the buffer after three samples; every
  frame is offered in every state.  One challenge is enough because the properties ask
  whether there was one.
- `session_*`: a frame of the first call can be met in the second and, with two call numbers
  and two challenges that alternate, is told from those of the second.  One frame under way
  in the other direction is enough to be lost or late; two towards the client overtake each
  other.  No call of these bounds uses up the sequence numbers of the client, so that more of
  them make no difference (the code has 256).
- `lifecycle`: two signals make a restart that is itself restarted or ended, between any two
  statements; 9 descriptors are enough for a process that closes what it opens, and run out
  in one that has lost some in each run, which then fails to open, as it would.
- `raw`: the rates have a converted block that is shorter than, equal to and longer than what
  is returned, and too long for the arrays; none divides evenly with every length that can be
  held; two datagrams overflow the buffer.
- `conf`: the last value wins, foreign section, section repeated: each needs three lines.

The theorems below hold for every value of the constants that the assumptions admit: buffers,
blocks, arrays and timeouts of any length in the proportions that the code gives them, any
datagrams, any number of signals, restarts, clients of the log and descriptors, any length of
a file.

What each property says is written above it in its module.  The passing run of `gateway`
ends in three ways: `stopped` after a signal, `aborted` when an assertion fails (no build
file defines `NDEBUG`), `undefined` when the array of a frame is left.  A read of a torn record
would be `undefined` too, and `OneWholeRecord` says that there is none.  `socket` does not
check for deadlock: after the assertion of `write()` the process is gone.

### Disagreement found

`gateway_asserts` is a run that fails on purpose.  `readType()` peeks the length and then
three bytes, but both peeks start at the front of the buffer, so the tag is compared with
the length and every record is called data (`FMNetwork.cpp:171`, `:180`).  A start or an end of
transmission is so read by `readData()`, which asserts that it is audio (`:218-219`), although
`readStart()` and `readEnd()` assert what these records are (`:195-196`, `:247-248`):
`NoTransmissionAborts` is violated by the first FME of TLC's trace.

The `gateway` run states the rest as `FailsOnlyOverUnfitAudio`: the program aborts over nothing
else than a record without audio (an FMS, an FME, an FMD without a sample, which
`USRPNetwork.cpp:167` asserts against, or what a datagram of one or two bytes happens to be),
and leaves an array only over one with more samples than a frame of USRP holds.

### What the models also show

These are things the code does that a reader of the models should know.  No line of the
repository promises otherwise, so that they are limits in the properties rather than runs.

- `readData()` gives the network side from no samples to 500 (`FMGateway.cpp:270`).  The array
  of a USRP frame holds 234 (`USRPNetwork.cpp:169`, 217-222), those of a mini frame 296
  (`IAXNetwork.cpp:214`, `:223`), and that of raw audio 1000 after the conversion
  (`RAWNetwork.cpp:118`), so that a `SampleRate` above 16000 overruns it with a full block.  All
  three assert that there is a sample.  A callsign of more than 453 characters would overrun the
  array of `writeStart()`; as `readStart()` is never called, no run gets there.
- A datagram of one or two bytes is compared with tags of three (`FMNetwork.cpp:127`, 145-154), so
  that it may be kept as a record; `readData()` then counts 2^31 - 1 samples in it.  It does
  not upset the records after it: `OneWholeRecord`.
- A connection of the log that the broker refuses is given up for good (`MQTTConnection.cpp:163`):
  `LogSettles` allows it.
- `NothingLeftOpen` excepts a run that returned early: `run()` then leaves its sockets open
  (`FMGateway.cpp:231-248`), and a SIGHUP that came meanwhile runs it again.
- A restarted daemon has changed to `/` and no longer finds an `.ini` file with a relative
  path; it also closes the numbers 0 to 2 again, which are then the connection of the log
  or whatever the run has opened.  `NumbersAreTrue` excepts it.
- A restart replaces the connection of the log without closing the one before
  (`FMGateway.cpp:216`).  In the foreground both have the same name, and the broker drops
  one for the other; `OneClientPerName` holds in a daemon, whose fork leaves the thread
  of the old client behind.
- SIGTERM between `FMGateway.cpp:106` and `:107` is lost, since `m_killed` is cleared after it:
  `SignalsHeeded` speaks of signals from the first statement of `run()` on.
- `write()` of the socket aborts after a re-opening that failed, since `read()` does not look
  at its result (`AbortsOnlyAfterReopen`).
- A REGREQ is repeated with the number of the frame sent last.  When another frame was sent
  in between, a server that goes by the numbers never accepts it, and the client goes on
  repeating it for ever: `RegistersOrNever` says so.
- An ACCEPT that arrives after the HANGUP that was sent after it brings the call up again;
  `HangupIsFinal` speaks of a network that keeps the order.
- When a server makes a second call, since the first has come to nothing or the client was
  restarted, the challenge of the one before is answered with the number of the other
  (`IAXNetwork.cpp:382`), so that a client with the right password is refused, and an ACCEPT
  of the one before is taken for the other's.  Until then both sides agree: `FirstCallAgreed`.
- `uLawEncode()` limits a sample to 8158, so that of the 16-bit samples it is given
  only a quarter of the range is encoded as it is; `CloseToOriginal` says what becomes of
  the rest.
- With `SampleRate` other than 8000 and without `HAS_SRC`, `RAWNetwork.cpp:141` and `:231`
  abort.
- `CConf::read()` succeeds without a port, which the constructors then assert against.
- What `CConf::read()` makes of other forms of a line may surprise: in `Key = Value` the second
  `=` and the blank belong to the value, a comment after a quoted value leaves the quotes in it,
  and the rest of a line of 500 characters or more, a comment too, is read as a line of its
  own.  `LineAssumption` leaves them out.

## Assumptions and fairness

- `LengthAssumption`: the proportions of the code's arrays: the record of all that one read takes
  (1500 bytes and 2) fits an empty ring buffer (2000) and its length two bytes; twice the
  samples of a turn fit it too; a frame of USRP holds less (234) than a turn passes on (500).
- `ArrivalAssumption`: a datagram of the repeater has at least one byte and at most those that
  `clock()` reads, and says anything; the audio of the USRP peer comes in whole samples, as
  much of it as the peer likes.
- `RawAssumption`: the main loop passes on at most a block, also none, and datagrams are not empty.
  `ArrayAssumption`: arrays of 1000 samples have room for two blocks of the main loop, and for as
  much as the ring buffer holds.  `ProductAssumption`: a block times the rate is an `int`, so
  that the rate is below 4 MHz.
- `NamesAssumption`: the names that the model gives to the connections of the log are different,
  and are none of the other owners of a descriptor.
- `LineAssumption`: a line of the `.ini` file fits the buffer of `fgets()` and has one of the
  forms of `FMGateway.ini`: a header, a comment, a blank line, a key without a value, or
  `Key=Value`, where the value may be quoted or be followed by blanks and a comment, and is a
  number that `atoi()` reads where the member is one, from 0 up to 65535 for a port and to that of
  an `unsigned int` for the rest.
- `SizeAssumption`, `HeaderAssumption`, `NumeralAssumption`: a header or a number is none of the
  characters that `read()` looks for.
- `ChoiceAssumption`: the server does not choose the call number or the challenge again that it
  chose last, and 0 is no number of a call (`IAXNetwork.cpp:297` takes 0 for none).
- `SampleAssumption`, `TimeAssumption`, `IAXAssumption`, `SessionAssumption`, `RingAssumption`,
  `SocketAssumption`, `LifecycleAssumption`: ranges of constants.
- `FMGateway`: weak fairness of the loop's step, since the thread never blocks (sockets are
  polled with a timeout of zero, `UDPSocket.cpp:248-250`).  Signals need not come.  That time
  passes is not assumed: it follows from the sleep (`sleeps`), and without it `PingsRecur`
  fails.
- `IAXNetwork`: weak fairness of a `clock()` that took time, which is what the main loop
  does by the same sleep.  Nothing is assumed of the server.
- `IAXSession`: the same for the client, weak fairness of the delivery of frames, and strong
  fairness of the server's repeating and giving up.  Nothing has to be closed, pinged, hung
  up or mended: `ComesUp` and `RegistersOrNever` speak of the time after the network is mended,
  when frames arrive before either end acts of its own accord (a round trip takes less
  than the 500 ms of the retry timer, `IAXNetwork.cpp:251-260`).
- `Lifecycle`: weak fairness of the main thread and of the thread of each client.  The library
  connects again on its own when a connection is lost (`MQTTConnection.cpp:79-91`); after a
  refusal `onConnect()` ends its thread (`:163`), which the fairness does not ask to do more.

## Proofs

All leaves are checked by `tlapm`; nothing is left out or assumed beyond the assumptions
above.

- `RingBufferProofs`: `TypeCorrect`, `NothingVanishesHolds`, `Refinement`.  The type invariant is
  inductive by itself; that an accepted chunk is held whole (`StoreSize`) follows from it by the
  arithmetic of the two pointers.  The queue is the cells from the read pointer on, and each
  call is shown to map to the call of `ByteQueue`: storing appends (`StoreAppends`),
  reading finds the oldest (`ReadIsOldest`), taking leaves the rest (`TakeLeavesRest`).
- `FMGatewayProofs`: `TypeCorrect`, `Framing`, `Keepalive`.  `OneWholeRecord`
  is not inductive: that a record is stored only into an empty buffer depends on where
  the loop is.  The inductive invariant adds that the buffer is empty from the dispatch to
  the clock of the repeater's side: each turn takes out the record that the turn before
  put in.  `readType()` calling everything data does not break it, since all three reads take
  out the record in the same way.
  Further `FailsOverNothingElse`, `UplinkRefinement`, `DownlinkRefinement`.  The
  third byte of a record is the F of its tag, so that `readType()` calls every record data
  (`AlwaysData`): START and END are never dispatched, and what `readData()` and
  `writeData()` ask of a record is the only way to fail.  Upwards the pipe is the audio of the one record that the invariant
  above allows; downwards it is the samples of the ring buffer, and the refinement
  needs that the buffer always has an even length, which `ArrivalAssumption` makes
  inductive.  There `HeardConcat` and `HeardTake` say that bytes joined or taken in pairs are
  samples joined or taken.
- `IAXProofs`, of `IAXNetwork`: `TypeCorrect`, `TimersAgree`, `AnswersHold`.  The invariant `IInv` says
  of the object what holds at every point of a call (`Fine`): its type, that a
  registration under way has a challenge, that answers sent carry one, and that timers and
  status agree.  The writers are shown to touch neither status nor timers (`Same`), and
  the timers, the handlers and the public functions follow from that.
  Further `IdentityHolds`, `NumbersHold`, `ReceiptsAcknowledged`, `QuietHolds`.  These are about what one call of the object does, in which several frames are sent from
  several places.  The proofs follow the object from the start of the call: a predicate
  relates it to the object at the start and to the frames sent so far, every writer and
  every branch keeps it, and at the end of the call it is the property.
- `IAXProofs`, of `IAXSession`: `FirstCallHolds`.  What the client believes is not enough for an
  invariant: it depends on the frames that are still on their way.  `SInv` adds, for as long as
  the server has made one call at most (`FirstCall`), that every frame to the client, and the
  one that the server may repeat, tells of nothing that has not happened (`Said`), that every
  answer on its way to the server and the one in `m_seed` is to the one challenge there has
  been (`Answers`), and so that the server cannot come to refuse it.  All steps of the
  server come to one relation (`Goes`), under which what was true of a frame stays true
  (`LaterKeeps`); all calls of the object come to another (`ClientKeeps`), which rests on
  the first part and on the challenge being followed through every handler (`Truly`).
  The network may lose and overtake: `Put` and `RemoveAt` only leave frames out.
- `ULawProofs`: `StaysClose`, `LossOnlyOnce`.  The biased magnitude lies in one of 128 steps of
  the law; the byte names the step (`EncodeIs`), the sample made of it is the middle of the step
  (`DecodeIs`), which is in the step itself (`MiddleStays`) and no further from the sample than
  half of it.
- `ConfProofs`: `FileMeansWhatItSays`.  `LineAssumption` says what an author may write, and nothing of
  how the code takes a line apart; that `strtok()`, the quotes, the comment and the blanks
  at the end leave the key and the value that were written is proved (`SettingText`, `PlainText`,
  `SettingMeans`, and `SilentText` for the lines that say nothing).  The invariant `CInv` is the
  property for the lines read so far, with what is left of the file and the section that is
  carried from line to line (`WithinNext`, `MeaningNext`).  The theorem holds for a file of any
  length and for any lines of these forms.
- `UDPSocketProofs`: `NoSocketLostHolds`, `AbortsOnly`.  The invariant adds the types and that
  a phase in which the object is not used has no descriptor; the outcomes of `open()` are
  treated once, for `Open` and for the re-opening.
- `LifecycleProofs`: `TypeCorrect`, `NothingLeft`, `DaemonsHaveOneClient`, `NumbersHold`.  The invariant is the
  conjunction of the types, the count of forks and clients, that what is open of the
  networks is in their numbers (`Accounted`), and that of the clients only the last has a
  thread in a daemon (`OneThread`).  For `NumbersHold` it is joined by `Truth`: as long as no
  daemon has been restarted, every number that a network or a client holds stands for it, so
  that whoever closes a number closes its own (`ClosesTruth`), and the standard streams are what the
  process inherited until a daemon closes them.
- `RAWNetworkProofs`: `ArraysSuffice`, `PaceHolds`, `RawRefinement`.  Each direction divides once,
  and a division loses less than its divisor (`Division`); `ReadLengths` follows the three
  cases of `readData()`, which never asks for more than the ring buffer holds.  That a block which
  does not fit needs more than twice the rate is `TooLongBlock`.  The refinement maps a datagram to accepting or losing it,
  and `readData()` to delivering twice the samples it takes.

Checked by TLC only: all liveness, which is out of the prover's reach (`StopsWhenKilled`,
`RecordsLeave`, `PingsRecur`, the properties of `iax_live`, those of `session_*` but
`FirstCallAgreed`, `SignalsHeeded`, `LogSettles`).  Every invariant, action property and
refinement that a passing run checks is proved.

## Plan

Everything of the first plan has been done: the ring buffer, both sides of the loop and the
IAX client first, then the session, the raw side, the lifecycle, the codec, the configuration
and the socket, and the proofs that were left.  What would come next:

1. The main loop with the IAX side in place of USRP, so that the audio of a call is followed
   through the mu-law codec.
2. An interface specification that the three network sides implement in common.

## Not modelled

- `Thread`, `StopWatch`: wrappers of the operating system; only `sleep()` and `elapsed()`
  are used, and are the times of the models.
- `Utils`: hex dumps for debugging.  The project files, makefiles and the prebuild script.
- The text of log lines and publishing them, which change no state; subscriptions of
  `CMQTTConnection`, of which there are none.
- Of the IAX side: the bytes of the information elements, the timestamps, and the statistics
  that PONG carries and nothing else reads.
- `reset()` of the networks, and functions of `CTimer`, which have no caller.
- The arguments of the command line; the branches for Windows.

## How to run

    tlc -config MCFMGateway.cfg MCFMGateway.tla
    tlapm FMGatewayProofs.tla

Most runs take seconds on a small machine; `gateway`, `lifecycle` and `session_call`
about one, `session_ends` two.  A proof module takes from seconds to some
minutes.
