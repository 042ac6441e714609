# RaspiTank in TLA+

RaspiTank drives a Heng Long radio-controlled tank from a Raspberry Pi: a web
page and a console give commands, a C++ program queues them and sends each as a
32-bit frame, in Manchester code, on a pin wired to the tank's board. These
modules specify the program, TLC checks them on small instances, and TLAPS
proves the central facts for every value of the constants.

1. [Inventory](#1-inventory)
2. [Plan](#2-plan)
3. [Modules and code](#3-modules-and-code)
4. [Runs](#4-runs)
5. [Fairness](#5-fairness)
6. [Proofs](#6-proofs)
7. [What the code does that its reader may not
   expect](#7-what-the-code-does-that-its-reader-may-not-expect)
8. [Not modelled](#8-not-modelled)

## 1. Inventory

```
 web page ──web socket──► connection threads ──AddCmd──► cmdQueue ──► CommandSender ──frames──► tank
 (WebUI.js)               (onion's pool, OnMessage)        ▲  (queueLock)    │
     ▲                                                     │                 │
     │                    console (main thread) ──AddCmd───┘                 │
     └───────────────── SendMsg (wsLock) ◄──── ENGINE_STATUS ────────────────┘
                              ▲
                              └── sensor poller (every 500 ms)
```

| Component | State | Operations | What is hard | What makes it correct |
|---|---|---|---|---|
| **Command** (`Command.cpp`, `Command.js`) | the fields of a command, its cached frame `cmd` | constructors, `ParseJSON`, `GetCmd`, `CRC` | fields OR-ed into one word, an added offset, a checksum over the word it is OR-ed into, a frame value that also means "none" | a frame checks, decodes to its command, is never an engine frame by accident, and is the same when asked for again |
| **Controller** (`Controller.cpp`) | `cmdQueue`, `queueLock`, `engineStarted`, `StopThread`; local to the sender: `lastExternalCmd`, `lastCmdTime` | `AddCmd`, `StartEngine`, `StopEngine`, `Dispose`, the loop of `CommandSender` | callers on several threads, `empty()` outside the lock, polling for a flag another thread switches, uninitialised fields, wall-clock time | the queue is popped only when non-empty; blocks are sent whole, in order, once; the engine flag and its message agree; calls return; a tank whose operator is silent stops |
| **Console** (`RaspiTank.cpp`) | none | a command type with a count, `start`, `stop`, `exit` | shares the queue with the clients | as above |
| **WebSocketServer** (`WebSocketServer.cpp`) on **onion** | `wsLock`, `ws`, the life of each `onion_websocket` | `OnConnect`, `OnMessage`, `SendMsg`, `Stop`, `Shutdown` (also as signal handler) | callbacks on a pool of threads, a pointer the library frees, reads that time out after five seconds, a signal handler that takes a mutex, an early return that keeps it, two writes for one message, a PONG written without the lock | news goes to the newest client, in messages whole but for a PONG; no null or freed pointer is used while clients stay and finish what they begin; every waiting thread gets the lock |
| **Web page** (`WebUI.js`, `WebSocketMng.js`) | `engineState`, the picture on the start button, an interval timer, repaint timeouts, the socket | clicks, status messages, timers, (re)connection | status messages overwrite whatever the page does; timeouts nobody cancels; commands dropped silently when the socket is not open | at rest, page, button and tank agree about the engine; a waiting page is answered |
| **Page and Controller together** | both | clicks to frames and back | a late answer to an earlier click | end-to-end agreement |
| **Touch gestures** (`hammer.js` 1.0.6, handlers of `Gamepad.js`) | one detection session for the page, a flag per gesture, `enabled` and `active` of each stick | start, move and end of touches and of the mouse, seven gestures, the hold timer | gestures take each other over, fingers leave together, the browser imitates the mouse, a release outside the window is lost | a stick is pushed only by the drag of the session; nothing stays pushed when nothing touches the page; the hold timer finds a session |
| **Sticks** (`Gamepad.js`, `stick.js`, parts of `WebUI.js`, `Command.js`) | the push of each stick | `Stick.update`, `Update`, thresholds to speeds, JSON | four strict ranges each way, enumerations sent as numbers | the tank goes where it is pushed, no slower for a harder push, left as right |
| **Command traffic** (`Gamepad.js`, `WebUI.js`, `Controller.cpp`) | the lengths of `cmdQueue` and of the page's backlog in the socket, over time | up to two commands every 40 ms, bursts of 10 to 50 from a button, any count from the console, 511 and 61 frames from a start and a stop, a frame of 24 ms or more | an unbounded queue; commands that gather in the socket while the connection's thread waits | the wait of a command is bounded by what was put before it and by the time lost, and queue and socket drain |
| **Server and Controller together** (`WebSocketServer.cpp`, `Controller.cpp`) | `wsLock` and `queueLock` | `OnMessage` into `AddCmd`; `CommandSender` into `SendMsg` | one lock taken while the other is held, calls that wait for frames | the locks are taken in one order; every command that arrives is handed over and returns |
| **Overlay** (`WebUI.js`) | reticule, knob, alert, range, two interval timers, the canvas | engage and secure, select, draw | timers cleared through variables that a click overwrites | a secured tank has a clear picture and no timer; the alert of an engaged one blinks |
| **Manchester line** (`SendCode`, `SendBit` of both programs) | the level of the pin over time | header, bits, gap | sleeps that overrun | a receiver that measures levels finds every frame, and only those |
| **RTController** (`RTController.c`) | `userCommand` under a mutex, its copy | the loop of `main`, HTTP handlers | strings copied byte by byte, buffers never initialised, a query string that may be missing | the tank obeys one client's command, whole; the last one goes on air, unless the program crashed |
| **Singleton** (`Singleton.h`) | the pointer and its mutex | `GetInstance`, `Kill` | `*instance` is read after the mutex is released | one object at most; what is returned exists |
| **HengLong_Test** | none | a bench program: loops over a table of frames | nothing concurrent | its table is the reference for Command |
| **Sync, logging, sensors, I2C drivers, webcam** | small or none | helpers, input and output | - | - |
| **libjson, mongoose, jQuery, packages** | - | third-party code | - | - |

`PROJECT.json` lists the components with their status, and, under `hazards`,
every place where this code can go wrong in a way a test would hardly reach,
with the properties that guard it.

## 2. Plan

In order of importance. All of it is written; the last column says what stands
behind it.

| Module | Subject | Status |
|---|---|---|
| `Controller`, `CommandLink` | queue, sequences and sender; the abstract promise they implement | checked; safety, engine flag and refinement proved |
| `ControllerInUse` | a clock that is set back, exit while clients start the engine | checked; safety and refinement proved |
| `Command` | encoding | checked; all of it proved, for any speeds |
| `WebSocketServer` | connections, messages, shutdown | checked; safety proved |
| `WebUI`, `Tank` | the page; page and `Controller` composed | checked; agreement proved |
| `Dispatch` | `WebSocketServer` and `Controller` composed: the two locks | checked; order of the locks proved |
| `Gestures` | touches to pushes of the sticks | checked; safety proved |
| `Sticks` | pushes to frames | checked; all of it proved, for pushes of any length |
| `Traffic` | the rate of commands | checked; bound proved |
| `Line` | frames to levels | checked; header and reception proved |
| `RTController` | the older program | checked; safety proved |
| `Singleton` | one object | checked; safety proved |
| `Overlay` | the picture of an engaged tank | checked; safety proved |

What could be added: the animation queue of the log panel. What remains without a
theorem is liveness.

## 3. Modules and code

**`Command`** - pure encoding plus the life of one object. A frame is the set of its
raised bits among 0..23 (the byte 0xFE on top is constant), so `cmd |= mask` is a
union. `InitCommand` is `Command::Init`, `ParseJSON` the method of that name,
`GetCmd` and `CRC` likewise, with one helper per field of the frame (`DriveBits`,
`RotationBits`, `TurretBits`, `WeaponBits`). A client's JSON text may give a
direction that the enumeration does not name ("Other", a cast of any integer); the
constructors from an integer that nothing calls are left out. `Init` picks any
command the other constructors can build; `Encode` asks it for its frame, again and
again, because `GetCmd` caches its result in the field it starts from.

**`Controller`** - the threads around `cmdQueue`. `Console` is the thread of
`main()`, `Connections` are threads of onion's pool, `Sender` is
`CommandSender`. Each caller has a program counter: it is asked for something
(`ConsoleAdd`, `ClientAdd`, `StartEngine`, `StopEngine`, `Dispose`), takes
`queueLock` (`AcquireQueue`), pushes its commands one by one (`Push`), releases
(`ReleaseQueue`) and, for a start or stop, polls `engineStarted` (`Return`). The
sender's loop is cut where another thread can be seen in between: the test of
`StopThread` and the clock (`Check`), the unlocked `empty()` (`PeekNonEmpty`,
`PeekEmpty`), the lock, `Pop` with the assignments after it, the status message
(`Report`), the release, and `SendCode`.

- A frame is its code, a name: `Command` computes the bits.
- `empty()` read while another thread pushes is a data race: it may already see
  the push (`PushUnderWay`), so a sender may go for the lock with the queue
  still empty. `WillPop` and `PopNonEmpty` show why this is harmless.
- `StopThread` and `lastCmdTime` are not initialised: any value at first.
- `StopThread` is never assigned: `Dispose` deletes the server first, whose
  joinable `listenerThread` makes `~thread` terminate the process (`Kill`).
- Time is a counter of ticks (`Tick`); `HoldTime` ticks are the 50 ms for which
  a client's last command is repeated.

**`CommandLink`** - what Controller promises: callers submit whole blocks;
commands leave in order, each once, with nothing in between two commands of one
block; only while nothing waits may the link repeat an operator's last command
or, when the engine runs, send neutral. `Controller!ImplementsLink` maps to it:
the backlog is the queue without what a caller still holding the lock has
pushed, so a block becomes visible at the release of the lock.

**`WebSocketServer`** - `OnConnect` (`LockToConnect`, `Replace`, `Accept`,
`Assign` or `Refuse`, `UnlockConnected`), `OnMessage` (`LockToRead`, `Read` or
`ReadFails`, `Handled`), `SendMsg` (`TestSocket` outside the lock, `LockToSend`,
`WriteHeader`, `WritePayload`, `UnlockSent`), `Stop` and the signal handler
(`Interrupt`, `LockInHandler`, `StopInHandler`, on the main thread, whose own
steps stop meanwhile). A connection stands for its client, its thread and its
`onion_websocket`; the library's part is the life of that object, the two writes
of a message, and the pool. Use of a freed `onion_websocket` is undefined: `Touch`
lets the process crash or go on. `accepted`, `faulty` and `pinged` are history
variables.

- *The pool*: `Request` puts a request with a thread, `Take` begins it once that
  thread is free. A thread fetches up to ten events at a time, so a request may be
  `behind` a connection that is served until it closes, though others are free.
- *Frames*: a header (`FrameArrives`, `PingArrives`) says how many parts of payload
  are still to come (`left`, the code's `data_left`), which arrive one by one
  (`PartArrives`, `payload`). `Read` takes what is there and hands it over if it
  parses, and `Onward` and `PollAgain` come back for the rest without a new header.
- *Time-outs*: accepted sockets have a receive timeout of five seconds, so a read
  fails for a client that is there but stalls as well as for one that has gone.
  `Fails` clears the callback. For the client that is there the error -1 is also
  subtracted from `data_left`, so that onion calls the cleared callback: the
  process ends. The end of a connection is no error, and whether the callback is
  cleared depends on an old `errno`. A header that is not finished in time
  (`HeaderStalls`) frees the object although `ws` still points to it, as does
  `Close`.
- *PING*: the connection's thread answers by itself, in two writes and without
  `wsLock` (`ReadPing` or `PingFails`, `PongHeader`, `PongPayload`).

**`WebUI`** - the engine panel and the socket of the page. `picture` is what
the start button shows, `repaints` the 100 ms timeouts that will show
"warmup", `warmupTimer` the one-second interval timer. `SendCmd` drops a command
unless the socket is open. `Disconnect` and `Reload` lose what is under way.
`lost` is a history variable: was any command or message lost?

**`Tank`** - `WebUI` and `Controller` composed: `Serve` is `OnMessage` handing
the next command to `AddCmd` on the connection's thread, which is blocked for
the whole of a start or stop; `ReportToPage` is the sender's message reaching
the page. The other steps are those of one part, the other unchanged. The
page's `socket` is `pageSocket` here.

**`ControllerInUse`** - `Controller` with a wall clock that is set back (`SetBack`),
and with the observation `startWaits`, a history of whether a start waited while
`Dispose` did its work.

**`Dispatch`** - `WebSocketServer` and `Controller` composed. `OnCommand` is
`OnMessage` reading a part of a frame and, if it parses, calling `AddCmd` in the
same step (both on the connection's thread, `wsLock` already released);
`CommandAdded` its return; the sender, for a status message, goes through
`TestSocket` to `UnlockSent` of the server while it holds `queueLock`. The sensor
poller sends on its own.

**`Gestures`** - fingers and a mouse over two sticks, the log panel and the rest of
the page. A step is one browser event with all that hammer.js makes of it: the
listeners (`touch_triggered`, `last_move_event`, `enable_detect`), the session
(`detection.current`), the gestures in their order of registration, each a function
of the state that fires events (`Fire`), and the handlers of `Gamepad.js` that these
call at once (`React`). Coordinates are abstracted to what gestures test (far enough
for a drag, turned or scaled). `missed` and `swept` are history variables for the
two known ways to leave a stick behind.

**`Sticks`** - a push is a point in whole pixels; `Turns`, `Drives` and
`UpdateTurrelGmPd` are the thresholds, compared as squares so that they are exact
on the rim. The resulting command is read by the server's own `ParseJSON` and
`GetCmd`, taken from `Command`.

**`Traffic`** - lengths and times only: `Update` every 40 ms with up to two
commands, `Click` with a burst, `Console` with the count that the user types,
`Engine` with the 511 or 61 frames of a start or stop, `Send` and `Fill` of a frame,
`Pass`. While the connection's thread waits, in a start or stop or for a lock
(`Hold`), the page's commands gather in the socket (`buffered`); `Release` is its
reading of them, in one go or up to the next command that makes it wait. A frame may
take `Overrun` longer. A unit of time is 8 ms. `pushed` and `late` are histories
since the line was last free: the commands other than the sticks', and the time that
the sticks' commands lost.

**`Overlay`** - the engage button, the reticule's knob, the intervals by number
(`running`), and the canvas as what is drawn on it. Drawing a reticule clears
everything to its lower right, so that the end of a long range text goes too (`Wide`,
`Cut`), until the range is next drawn.

**`Line`** - the pin's level and how long it had it; every sleep lasts up to
`Jitter` longer. The receiver, which is not part of the repository, takes a high
level of a header and half a bit as a frame's start and then an edge per bit.

**`RTController`** - `main` copies `userCommand` byte by byte under the mutex, with
strncpy's stop at a NUL, decides, and sends; a handler writes its client's command
byte by byte. Buffers begin as anything in `Garbage`; a `strcpy` of one without a
NUL (`PastEnd`) and a request without a query (`RequestNothing`) may end the
program. `current` is the history of commands that the next frame may follow.

**`Singleton`** - `GetInstance` and `Kill` line by line, on any thread;
`overlapped` is the history of calls that met one of `Kill`.

`MC*.tla` give the constants of the small instances. `MCCommand` also holds a
decoder that shares nothing with the encoder, and every row of the tables of known
frames of `RTController.c` and `HengLong_Test.cpp`: those the encoder gives, and
the four it does not (`FireRow`, `GunRow`, `RecoilRow`, `NeutralRow`; section 7). The
speeds that the tables call slow and fast are read off the frames, and
`TableInOrder` adds that fast is faster.

`MCFrames`, `MCPage` and `MCParts` check two or three parts each that share no
variable: `part` says which of them a behaviour follows, and the others stand
still. For parts that share nothing that loses no behaviour of any, and spares the
product of their states. Definitions commented "Variant" are plausible slips of the
code; each property is known to fail on one of them (`mutants` in `PROJECT.json`).

## 4. Runs

| Run | States | What it shows |
|---|---|---|
| `frames` (`Frames.cfg`) | @frames | Every command the program or a client can build, with directions that have no name too: it has one frame, with its checksum (`FramesCheck`), that decodes to the command (`FrameMeansCommand`), is that of the older programs' tables where the two agree and no disputed one (`AgreesWithTable`), and is an engine frame, or the value read as "none", only for the commands that mean it (`SpecialFramesReserved`). Every push of both sticks: the frames move the tank as pushed and nothing else of it (`FramesFollowPush`), `HarderNeverSlower`, `LeftMirrorsRight` |
| `weapon_frames` (`CommandWeapons.cfg`) | violation | `Fire()`, `Gun()` and `Recoil()` are not sent as the frames of the two tables (`WeaponsAgreeWithTable`): see section 7 |
| `controller` (`Controller.cfg`) | @controller | Console, one connection and the sender, the clock set back at will: `PopNonEmpty`, `ClientsKnowEngine`, `EngineSwitchesAfterIgnition`, `EngineOffAtExit`, the refinement `ImplementsLink`, and that calls return and the queue is sent (`CallsCarriedOut`) |
| `set_back` (`SetBack.cfg`) | @set_back | `ReleasedAfterSetBacks` with a clock of three ticks, on which commands are stamped 0, 1 or 2 and set back below that: also a command from the future is repeated for a while only |
| `web_socket` (`WebSocketServer.cfg`) | @web_socket | `LockHolders`, `NewestServed`, `SafeWhileServing`, `WholeFrames`; the deadlock check shows that the states `Stuck` are the only ones in which the server freezes |
| `web_socket_live` (`WebSocketServerLive.cfg`) | @web_socket_live | `SendsReturn`, `ClientsServed`, with one thread for two clients |
| `read_timeout` (`ReadTimeout.cfg`) | violation | A read that times out ends the process (`FailedReadCloses`): see section 7 |
| `dispatch` (`Dispatch.cfg`) | @dispatch | `LocksInOrder`, `CommandsReturn` |
| `tank` (`Tank.cfg`) | @tank | `PageAgrees`, `ButtonTellsTruth`, `PageAnswered` |
| `gestures` (`Gestures.cfg`) | @gestures | `RestWhenUntouched`, `PushedByDrag`, `HoldFindsSession`, `SessionEnds` |
| `page` (`Page.cfg`) | @page | Traffic: `WaitBounded`, `Drains`. Overlay: `ClearWhenSecured`, `AlertBlinks` |
| `parts` (`Parts.cfg`) | @parts | Line: `HeaderStandsOut`, `FramesRead`. RTController: `ObeysOneClient`, `LastIsObeyed`. Singleton: `OneObject`, `ReturnsObject` |

Type invariants are theorems (section 6) in the modules that have proofs;
`Controller`'s is also checked. Every run but `weapon_frames` and `read_timeout`
passes. Deadlock is checked in all but `parts`, where the bounds of `Line` and
`Singleton` (frames sent, objects made) end the behaviour and the older program may
crash; elsewhere a `Stay` step is allowed only where the program has halted.

**Bounds.**

- `JsonSpeeds` has 0 to 3, 7, the last of the enumeration `Speed`, and 8, which
  wraps: each of the three bits that count is set and clear in some of them. With
  the directions "Forward", "Backward" and "Other" that is every case of the switch.
  The theorems take any integers. `Reach` = 62
  pixels is the rim, 60, and two beyond.
- Sequence lengths (`NIdle` ... `NStopIgnition`) are 1, and 2 for the
  `engine_start` frames: the parts are what interleavings can tell apart, and a
  repeated start frame must be found redundant. The proofs need no such bound.
- `MaxRequests` = 3 lets a start, a stop and a drive command meet in every
  order and from two threads; in `Tank` 4, and `MaxClicks` = 4, let a start, a
  stop and two emergency stops overlap.
- `MaxClock` = 1 with `HoldTime` = 1: a command is fresh at one tick and expired at
  the next, and a clock set back makes it fresh again. A client's command arrives
  only while its hold time can still run out, else the end of the clock would keep
  it fresh. So here all are stamped 0; `set_back` has `MaxClock` = 3 and
  `MaxRequests` = 2, so that a stamp lies up to two ticks ahead. `Tank` and
  `Dispatch` stop the clock, which only decides about repeated frames.
- `MaxCount` = 1 is a console command typed once, or with count 0.
- `WebSocketServer` has two clients (replacement needs two), two senders
  (interleaved writes need two), a pool of two, and one frame of one part, or an
  empty one, from each client; PINGs, plain requests and signals come. Clients, and
  senders, are interchangeable: this run uses symmetry, the liveness run does not.
  That one has one sender, no PING, plain request or signal, payloads of up to two
  parts, and a pool of one, so that clients do wait for a thread; that the threads
  of two connections wait for each other's `wsLock` is in `web_socket` and
  `dispatch`. `read_timeout` needs one client and one frame.
- `Dispatch` has a client with one frame, of up to two parts each of which may be a
  command (start, stop or drive), and a second one that connects, so that `ws` is
  cleared and set while a sequence is under way, but waits behind nobody, sends and
  begins nothing and stays (`CONSTRAINT SecondIsSilent`): the client's thread, the
  sender and the poller are the three that can hold a lock; that several clients
  exclude each other is `web_socket`.
- `Tank` keeps to behaviours in which nothing was lost (`CONSTRAINT
  NothingLost`): each of its properties holds at once when something was, and
  nothing returns from there.
- `Gestures` has two fingers (what two fingers may do, three may; gestures count
  no further), a mouse, two sticks and the panel. Sticks, and fingers, are
  interchangeable; what the last step fired is left out of the state compared
  (`VIEW`), as no later step reads it.
- `Traffic` has the real times of Update and frame, and a third more for a frame
  that overruns. The bursts are scaled: a click is 10 copies, the console types 2,
  a sequence is 14 frames, and 24 in all are pushed, with 40 ms lost, before the line
  must be free again; two clicks, or a click and a sequence, overlap. What must
  be told apart is which of them fit between two Updates, and the real numbers
  (10, 40 and 50 copies, 511 and 61 frames, any count) are all beyond; the theorem
  takes these as they are and needs no limit, as the bound is a sum.
- `Overlay`: three engagements, so that timers of two earlier ones could survive,
  and one range text that reaches under the reticule and one that does not.
- `Line`: five bits in place of 32, with every word of them that begins with a
  1; sleeps are up to a third longer. Levels depend on two neighbouring bits
  only. The theorem holds for any width and any jitter below half of half a bit.
- `RTController`: two handlers, two commands set, among them one of a single
  character and one that asks for autonomy, and three contents of memory.
- `Singleton`: three threads and three objects: one is made, deleted and made
  again while a third thread looks on.

## 5. Fairness

- *Threads run*: weak fairness on the sender, on each caller, on the page's
  handlers and timers. `CommandSender` never blocks but on its locks, the pool's
  threads and the browser's event loop are scheduled.
- *Locks*: `Controller` needs weak fairness only, because the requests are
  bounded and the lock is in the end left free. In `WebSocketServer`, threads
  take `wsLock` over and over; a waiting thread gets it (strong fairness), as
  its users sleep or wait for the network between two uses and the sender takes
  it only for an engine frame.
- *The clock advances*: weak fairness of `Tick`.
- *The clock is set back* only finitely often, in `ReleasedAfterSetBacks`: a
  clock set back for ever would repeat a command for ever.
- *The mutex of RTController*: `main` leaves it free for the 24 ms of every
  frame, so a handler that waits gets it (strong fairness), and so does `main`.
- *Dispatch*: as in its two parts; strong fairness for those who wait for
  `wsLock`.
- *Traffic and Overlay*: the interval timers, the sender and time go on, and the
  connection's thread returns to the socket from whatever it waits for.
- *Clients* need not finish, or send, anything. A thread that waits for a payload with
  `wsLock` held gets the next part or gives up after five seconds; the properties
  therefore except an ended process, which is what giving up on a client that is
  still there leads to. There are no plain requests and no signals: both can leave
  the lock held for ever. And `ClientsServed` promises a client that waits for a
  thread nothing while another one stays, or has left in the middle of a frame, when
  its thread spins on the end of the connection.
- *Polling*: `PollsEachFrame` says that a caller of `StartEngine` or `StopEngine`
  polls at least once while a frame is sent: it polls every 10 ms, a frame takes
  24 ms (0.6 + 32 x 0.6 + 4). Without it a stop queued right behind a start
  could switch the flag back between two polls, and the caller of the start
  would wait for ever.
- *Operators*: nothing obliges anybody to click, type or connect. Liveness
  properties except a halted process, and `PageAnswered` except a lost message.

## 6. Proofs

Each theorem holds for every value of the constants that the module's
assumptions allow: any set of threads, any sequence lengths and any bounds.

`System_proofs`, in three parts, begins with the Controller and its clock
(`Controller`, `ControllerInUse`):

| Theorem | States |
|---|---|
| `TypeCorrect` | `Spec => []TypeOK` |
| `MutualExclusion` | `Spec => []LockHolders` |
| `SeenIsPopped` | `Spec => []WillPop` |
| `PopsNonEmpty` | `Spec => []PopNonEmpty` |

They follow from `Invariance`: `IInv == TypeOK /\ LockHolders /\ WillPop /\
PopNonEmpty` is inductive. `PopNonEmpty` alone is not: a sender at "lock" would
reach "pop" with an empty queue. `WillPop` says that what it saw is still there:
either the queue is non-empty, and only the sender removes commands, or a push
is under way, and then its thread holds the lock (`LockHolders`) until that
command is in the queue, so the sender gets the lock only afterwards.

`SwitchesAfterIgnition` (`Spec => EngineSwitchesAfterIgnition`, if nobody types
`engine_start` or `engine_stop` at the console) needs `EInv`: in the blocks that
callers add, and in the queue, an engine command follows an ignition frame or
repeats a start (`BlocksChained`, `QueueChained`); while a caller is pushing, the
end of the queue is the command it pushed last (`PushesFollow`), which is where
the lock is needed: no other thread appends in between; and if the head of the
queue is an engine command, the last frame taken was an ignition frame, or the
engine runs already (`HeadFollows`). The lemmas before it say what `Repeated`,
`\o`, `Append` and `Tail` do to a chained sequence. The assumption is a real one:
the console accepts raw engine frames with any count, which switch the flag
without an ignition. `StatusIsTold` is `Spec => []ClientsKnowEngine`.

`ControllerImplementsLink`, `Spec => ImplementsLink`: initial states map to initial
states and every step to a step of `CommandLink` or a stutter. The mapping
needs `LInv`: a caller's block is one of those that may be submitted
(`KnownBlocks`), what it has pushed is the end of the queue (`QueueEndsInPushed`),
so that releasing the lock appends exactly its block to the backlog, and the
sender owes a real frame (`OwesFrame`). Popping meets no caller in the middle of
a block, which is `LockHolders` again.

The same part carries these over to `ControllerInUse`, whose specification is
the one the run `controller` checks: `SafeInUse`, `InUseImplementsLink` and
`InUseSwitchesAfterIgnition` show that a clock set back disturbs none of it
(`SetBackAside`). `EngineOffWhenOver` (`InUseSpec => []EngineOffAtExit`) needs
`UInv`: once `Dispose` is through, the engine is off or a start waited
(`OffOnceDisposed`), and the history does note every start that waits meanwhile
(`WaitsNoted`): an engine frame popped at the end is one of those.

The other two parts are about the Controller with its neighbours.

- `LocksStayInOrder` (`DispatchSpec => []LocksInOrder`). `LocksInOrder` speaks of the
  holders of `wsLock` only; what makes it last is where the threads of both parts
  are at the same time: a connection's thread is in a call of the Controller only
  while its `OnMessage` waits for the call (`InCall`), `CommandSender` is in
  `SendMsg` only while it reports the engine (`Telling`), where it holds
  `queueLock`, and `wsLock` is held by who is in a critical section
  (`WsLockIsHeld`).
- `PageComesToAgree` and `ButtonIsTrue` (`TankSpec` implies `[]PageAgrees` and
  `[]ButtonTellsTruth`), for any number of clicks and any lengths of the
  sequences. Both speak of states at rest, so the invariant `TInv` must say where
  everything under way will lead. `EndsIn(k)` is what the engine will be switched
  to in the end: the latest engine command decides, first of those in the socket,
  then of those the connection's thread still has to push, then of those in the
  queue, and the flag itself if there is none. Unless something was lost, what
  the button shows, and what the page's interval timer waits for, is what the
  engine ends in (`Foretells`); the latest status message under way is true
  (`LatestTrue`); and if no engine command and no message is under way, the page
  believes the flag (`Believes`). One thread alone pushes for the page
  (`OneLine`), so commands are not reordered between socket and queue. `Foretells`
  also made `ButtonTellsTruth` stronger than it was first written: a running
  interval timer needs no exception.

`WebSocketServer_proofs`: `ServerTypes`, `LockIsAccountedFor` (`LockHolders`),
`NewsGoesToNewest` (`NewestServed`) and `MessagesStayWhole` (`WholeFrames`), with
plain requests, signals and PINGs allowed or not. The invariant adds to them, while
the process lives, where the mutex is (`Locking`: with a thread inside, or with a
refused request that kept it; the handler never beside a main thread that holds
it), that `ws` is Null while `OnConnect` makes a socket (`Connected`), and that a
half-sent message is that of the thread between its two writes (`HalfSent`): a
sender, which holds the mutex, or the connection's own thread with a PONG, which does
not. So two messages are never mixed, and what may be mixed is the PONG to a
client that sent a PING, with one message. `ServesSafely` (`SafeWhileServing`) adds
`SInv`: an `onion_websocket` is freed, and a cleared callback called, only after its
client left, let a read time out or sent an empty PING, or by the shutdown
(`FreedWhenLeft`), and once somebody was connected `ws` is Null only while the lock
is held in `OnConnect` (`NullBriefly`): `SendMsg` tests `ws` without the lock and uses
it with the lock, and this is why the test still holds.

`Page_proofs`:

- `WaitIsBounded` (`WaitBounded`) is inductive with the types (`TrafficTypes`): time
  lowers both sides; an Update raises the wait by `FrameTime * n` and the bound by
  `Tick + Excess(n)`; a click, a count typed at the console and the 511 or 61 frames
  of an engine sequence raise both sides by `FrameTime` each. A command counts
  wherever it waits, so that being held back in the socket and read in a burst
  changes neither side (`ReceivedWaits`, `PushedWaits`); the time that the line spends
  without commands which are held back is lost time, as an overrun is (`late`).
  `PageWaitIsBounded` is the same for the run's `PageSpec`.
- `ViewIsClear` (`ClearWhenSecured`): the numbers of the intervals that run are
  those the two variables hold, and tell how often the tank was engaged
  (`TimersCount`), so a click that stops them stops all; the canvas shows the
  selected reticule, and nothing else when secured (`PictureFollows`).

`Line_proofs`:

- `HeaderAlwaysStandsOut` (`HeaderStandsOut`): a level lasts at most two halves in
  the middle of a bit because every bit has an edge there (`LevelsTell`).
- `EveryFrameIsRead` (`FramesRead`): `Received` says, half-bit by half-bit, how far
  the receiver is, given how far the transmitter is and how long the level has
  lasted; frames may have any width and sleeps any jitter below half of half a bit.
- `GapLasts` (`GapAsSaid`): where the gap is asked for in full, as in
  `Controller.cpp`; `RTController.c` asks for less than its comment says.

`RTController_proofs`: `RTTypes` and `TankObeysOneClient` (`ObeysOneClient`): without a
handler in the mutex `userCommand` is one client's whole command (`Whole`), and
until the program crashes `main` has of it what it has copied (`CopiedSoFar`).

`Singleton_proofs`: `AtMostOneObject` (`OneObject`), `NeverDeletedTwice`
(`DeletedOnce`) and `ObjectIsReturned` (`ReturnsObject`). Besides the mutex, the
invariant says what the thread inside is about to change (`Changing`), and that
a call of `GetInstance` which meets none of `Kill` finds the object to stay
(`Staying`).

`Frames_proofs`, with whatever integers a client sends for speeds and however far a
finger goes. `FramesAreRight` puts the seven theorems together for `FramesSpec`, the
specification that the run `frames` checks.

- `OneFrameWithChecksum` (`FramesCheck`). `CommandInv`: there is a command `b`, as a
  constructor or `ParseJSON` left it, such that `frames` holds at most its frame and
  `command` is `b`, or `b` with that frame kept in `cmd`. It is inductive because
  `CRC` applied to its own result changes nothing (`CRCTwice`): it reads other
  bits than the four it sets. The properties then are about one function of `b`.
- `FrameSaysCommand` (`FrameMeansCommand`) and `EngineFramesReserved`
  (`SpecialFramesReserved`). `DriveRaises`, `RotationRaises` and the lemmas after them
  say which bits each field raises: a speed fits its bits, as only its low three
  count, and no two fields share one. `BitsAddUp` turns bits back into the number
  (`DecodesTo`), so the decoder reads off what was put in. The ignition and neutral
  frames have a bit that no field raises, idle a turn that no command makes, and a
  frame without any bit can only be full speed ahead with a full turn to the left.
- `TableIsFollowed` (`AgreesWithTable`). `OnlyFrame`: a frame that decodes to a
  command, has the right checksum and no bit besides is the command's frame. Each
  row of the tables on which the encoder agrees is shown to be such a frame; of the
  four disputed ones, three have a bit that no field raises, or a checksum that is
  wrong, and the frame called recoil has the bit that only fire raises.
- `HarderIsNeverSlower` (`HarderNeverSlower`) and `LeftIsMirrorOfRight`
  (`LeftMirrorsRight`). `StickInv`: what was sent last are the commands of the point
  last seen. `FurtherIsAbove` is the arithmetic: a push past 15 or 35 per cent is
  past it a pixel further, also where the rim begins to limit the push between the
  two.
- `FramesAreAsPushed` (`FramesFollowPush`) joins both halves: the commands a push may
  send (`TurnsAre`, `DrivesAre`), what the server reads of them (`ServerReads`), and
  by `DecodesTo` what the tank does on the frame (`OrderMoves`).

`Gestures_proofs`: `OnlyTheDragPushes` (`PushedByDrag`), `SessionsEnd` (`SessionEnds`),
`HoldIsInSession` (`HoldFindsSession`) and `LetGoIsRest` (`RestWhenUntouched`), with any
sticks and fingers, with a mouse or without. `PushedByDrag` is part of the
invariant; beside it, a session belongs to fingers that are heard or to a
pressed button (`SessionHeld`); while touches are heard, `last_move_event` counts
at least one finger and no more than are there (`LastCounts`), so that such a
session has a finger on the page; and the hold timer runs within a session
(`TimerInSession`). Each gesture has a
lemma of its own that says what its handler may do to the session and to the
stick; `Detect` is their composition. `LetGoIsRest` follows from the first two.

**Assumptions.** Threads, clients and fingers are distinct and none is the "nobody"
of a lock or of an element (`ThreadsAssumption`, `PollerAssumption`,
`ThreadsAreDistinct`, `GesturesAssumption`, which also has finitely many fingers);
bounds are natural numbers, and the lengths of sequences, the frame and the pool not
zero (`LengthsAssumption`, `BoundsAssumption`, `ParametersAssumption`,
`ClicksAssumption`, `EngagedAssumption`, `TrafficAssumption`, `RTAssumption`,
`SingletonAssumption`); some of the ranges that are told reach under the reticule,
but not the absence of one (`EngagedAssumption`); the frames that drive the tank are
none of the program's special ones (`CodesAssumption`); a frame begins with a 1, its
header is at least two half-bits long and the jitter is below half of one
(`LineAssumption`); a stick's reach is a natural number of pixels
(`SticksAssumption`), and speeds are integers (`JsonSpeedsAssumption`).
`ConsoleTypesNoEngine` and, for the gap, `Gap >= SaidGap` are hypotheses of single
theorems.

**What proving changed in the modules.** In `Edge` of `Line`, `Transform` and `Drag` of
`Gestures` and `Turret` of `Sticks` two arms of a CASE could be true at once: TLC
takes the first, the logic either, so these are IF chains now, as in the code.
The events of a step are handled as they are fired, not at its end, which is what
`trigger` does.

*Model-checked only*: liveness and everything that depends on fairness
(`CallsCarriedOut`, `ReleasedAfterSetBacks`, `SendsReturn`, `ClientsServed`,
`CommandsReturn`, `PageAnswered`, `Drains`, `AlertBlinks`, `LastIsObeyed`), which is
out of the prover's reach, the absence of deadlock, and the two violations
(`weapon_frames`, `read_timeout`). Every invariant and every action property that a
run checks is a theorem.

## 7. What the code does that its reader may not expect

- **The frames of the weapons** (`weapon_frames`). `RTController.c:73-76` and
  `HengLong_Test.cpp:75-77` list 0xFE442F34 as "fire", 0xFE440F78 as "machine_gun" and
  0xFE420F24 as "recoil". `GetCmd` sends 0xFE420F24 for `Fire()`, 0xFE400F68 for `Gun()`
  and 0xFE402F24 for `Recoil()`: the tank is told to recoil where it is to fire, and
  the tables' fire and machine gun frames have bit 18, which no command raises.
- **A second neutral**: `HengLong_Test.cpp:61` has 0xFE380F00, whose checksum is not
  the one of `CRC`, and 0xFE3C0F00, the program's, in the comment above it.
  `RTController.c` has 0xFE3C0F00.
- **Slow and fast** of the tables are, read off their frames, other speeds than the
  page sends, and the two tables differ on the slow frames of the tracks.
- **A direction without a name** in a client's JSON drives ahead, as bit 22 is raised
  for "Backward" only, and the faster the lower its speed.
- **A read that times out ends the process** (`read_timeout`): sockets that onion
  accepts have a receive timeout of five seconds (`listen_point.c:300`). When a client
  sends a header and no payload, `onion_websocket_read` returns -1, which
  `ws->data_left-=r` adds to what is left, and clears the callback (`websocket.c:252`);
  the loop that called it (`websocket.c:407`) goes round again and calls NULL.
- **A refused request keeps `wsLock`** (`WebSocketServer.cpp:83`): `OnConnect`
  returns without unlocking; `LockHolders` names the case, `Stuck` the result.
- **A signal handler takes `wsLock`**: it may interrupt a main thread that
  holds it. `Stuck` again.
- **A client that left**, or that did not finish a header in five seconds: the
  library frees the object, nobody clears `ws`, and the next `SendMsg` uses it.
  `SafeWhileServing` therefore excepts behaviours in which a client left or stalled.
- **A client that left in the middle of a frame**: its read returns 0, which is
  neither data nor an error, and its thread spins on the closed connection.
- **A PING** is answered without `wsLock` (`websocket.c:369`): the PONG may come
  between the header and the payload of a message. An empty PING makes the thread
  read another header before it answers. And until its next frame a connection that
  answered keeps PONG as its opcode, so the messages after it are sent as PONGs,
  too.
- **A client behind another**: a thread fetches up to ten events at once
  (`poller.c:422`) and serves a web socket until it closes, so that the next client
  may wait for that although threads are free.
- **"warmup" for ever**: the emergency button cancels the interval timer but not
  the 100 ms repaint, so its button may go on showing "warmup".
  `ButtonTellsTruth` speaks of "on" and "off" only.
- **A page that connects anew** is not told the state of a running engine, and
  after a mere close does not connect again: hence `lost` in `PageAgrees`.
- **0xFE000000** is both "no command" and the frame of full speed forward and
  left (`UnassignedOnlyFullForwardLeft`): that command is not repeated.
- **`Dispose`** never reaches its last lines (`Kill`).

- **Exit while a start waits**: `Dispose` looks at `engineStarted` once. A start
  that waits then, or is asked for until the process ends, leaves the engine
  running: `EngineOffAtExit` excepts exactly that (`startWaits`).
- **A clock set back** makes the age of a command negative: it is repeated until
  the clock has caught up.
- **`GetInstance` reads `*instance` after it released the mutex**: a `Kill` in
  between deletes what it returns. The comment at the mutex (`Singleton.h:49`)
  promises thread safety without that exception; only `Dispose` calls `Kill`.
- **RTController's gap** is asked for as 3.33 ms under a comment that says 4 ms
  (`RTController.c:231`, `233`); `Controller.cpp` asks for the 4 ms.
- **RTController crashes** of a request without a query (`RTController.c:322` copies
  from NULL), and may of a command without a NUL in its ten bytes (`RTController.c:155`
  copies past the end).
- **RTController** obeys memory it never initialised until a client sets a command,
  and `autonomyCommand`, which nobody writes, when a client's ninth character is
  1. A command shorter than nine characters leaves the tail of an earlier one
  in force, autonomy included.
- **The push of a stick**: sideways, 80 per cent or more sends no turn, and
  neither does exactly 50; along, exactly 35 sends nothing. The slow turn to the
  left has speed 0 up to 20 per cent, where the one to the right has 1.
- **A diagonal push** sends two commands each 40 ms, 48 ms of frames: it delays
  every later command, an emergency stop too, by 8 ms for each 40 ms it lasts. A
  weapon button queues 10, 40 or 50 copies at 24 ms each, a start 511 frames: an
  emergency stop right behind a start waits 12 s for it.
- **Stick commands during a start** from the page stay in the socket, as its thread
  polls for the engine, and are queued in one burst when it returns.
- **The reticule** is cleared with a corner where `clearRect` takes a width and a height
  (`WebUI.js:335`): the end of the range text goes with it until that is next drawn.
- **Two fingers that leave at once** end a drag without `dragend`
  (`hammer.js:1019`): the stick goes on reporting a push (`swept`).
- **A double tap** compares the name and the time of the session before, not its
  element (`hammer.js:1223`); and a browser's imitated mouse events may be heard
  after a tap as a second touch (`hammer.js:503`).
- **`no_mouseevents`**, the option `Gamepad.js` sets, is not one hammer.js 1.0.6
  reads, so the mouse drives the sticks as well.
- **Swipe**: its test of the number of touches (below one and above one) is
  never true, so it heeds no limit.
- A laptop page loads `Stick.js`; the file is `stick.js`.

Two of these are violation runs. Most of the others are exceptions that a property
names or choices that a module leaves open; the second neutral is in `AgreesWithTable`.
What two fingers, a double tap, the mouse or a swipe do
beyond the sticks, and the name of a file, no property is about.

## 8. Not modelled

- *Set-up* (`Initialize`, `SetupIO`) comes before the initial states; an exception
  of `SetupIO` inside the sender thread ends the process there.
- *Buffers, JSON text, HTTP, handlers and TLS of onion*, the wording of messages
  and logs: data that no lock, queue or frame depends on. That `tmp[len]` in
  `OnMessage` lies behind its buffer is therefore not seen.
- *Pointer events* of hammer.js (Windows 8), `on`, `off` and `enable`; directions and
  coordinates of its events.
- *The log panel's animation*: jQuery's queue of effects, which a drag fills with
  one animation per move.
- *RTController's sensors*, which share nothing with its commands, and the
  autonomy thread, whose start is commented out.
- `Sync` makes one event nobody waits on. Sensors, I2C drivers and the webcam are
  input, output and display; the sensor poller appears as a sender of messages.
- *libjson, mongoose, jQuery and the packages* are third-party code, of which
  RaspiTank depends on the documented behaviour only.

The last point decides how much of the repository can be covered. Of its 68,612
lines of JavaScript about 66,000 are copies of jQuery, jQuery UI and their
documentation stubs; the program's own scripts, together with the one version of
hammer.js that its pages load, are about 2,600, and the logic of all of them
that changes state is in `WebUI`, `Gestures`, `Sticks`, `Traffic` and `Overlay`.
The program proper is C++ and C: `Controller`, `WebSocketServer`, `Command`,
`Singleton` and `RTController.c` are covered operation by operation.
