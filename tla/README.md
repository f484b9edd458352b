# Smart Garden: a TLA+ development of the app and of the database client it relies on

The app under `src/SmartGadrden/SmartGadrden` shows the sensors of a garden and
controls its pump, fan, bulb and canopy.  It has no server of its own: app,
other phones and the garden's controller meet in one Firebase Realtime
Database, of which every screen observes and writes a few string leaves:

| leaf | value | who writes |
|---|---|---|
| `CHEDO` | work mode: "1" wall buttons, "2" app, "3" automatic | settings screen, others |
| `TINHIEUDONGCO` | four characters, one per engine (row *r* of the control screen is the *r*-th from the end; the pump is the first) | control screen, others |
| `DULIEUCAMBIEN` | the sensors, two digits each, and the rain flag | the controller |
| `pumpSpeed` | "1" to "3" | control screen, pump screen |
| `timeoutPump`, `timeoutFan`, `timeoutBulb`, `timeoutCanopy` | seconds | timer screens |
| `thresholdTemp`, `thresholdSoilMosture`, `thresholdLight` | two numbers | settings screen |

There are no tests in the repository; its comments and the assertions of the
vendored client are the only statements of what the code should do.

## Inventory

**Database client** (`Pods/FirebaseDatabase`).  Vendored, but the core of what
the app does: every screen is a few callbacks over it.
*State*: the pending writes and their layered view (`FWriteTree`), one `FView`
per observed leaf (server value, event value, registrations), the requests
outstanding and the state of the connection (`FPersistentConnection`).
*Operations*: `setValue`, `observe(.value)`, data messages, listen responses,
write answers.  They run one at a time on the client's serial queue; the
events they raise are dispatched to the main queue.
*Hard*: the answers, the data of others and the local writes interleave; views
are updated incrementally; events are suppressed when nothing is believed to
have changed; answers are held back while a listen is unanswered.
*Correct*: a view shows the newest unanswered local write or else the server's
value; its handlers end with what it shows; when nothing is on its way, that is
what the database holds.

**The connection** (`FPersistentConnection`, `FConnection`, `FIRRetryHelper`).
Fetches a token, opens a websocket, and on each new connection sends every
listen and every unanswered write again.  `goOffline`, a kill by the server and
the wait to be opened are reasons to stay down; the last one that goes schedules
the next attempt.  *Hard*: losses at every moment; tokens that come for an
attempt that is over; answers that were held back when the connection was lost;
listens whose hash lets the server leave out the data.  *Correct*: the client is
never stranded; a write is handled at least once and in order, and answered
once; what was missed is learned.

**The two calls** (`Common/WriteDataFirebase.swift`,
`Common/FetchDataFirebase.swift`).  Observers are permanent, have no cancel
callback, and a value that is no string is a failure.

**Progress overlay** (`Common/ProgressHUB.swift`).  One shared view; `show` and
`dismiss` dispatch a block each; no count of users; a hide animation whose
completion tears everything down.  *Correct*: it does not stay up for good.

**Control screen** (`Features/ConfigScreen/ConfigViewController.swift`).
*State*: `workMode`, `engineStates`.  Observes the mode; each mode event that
enables the switches registers one more observer of the engines.  A switch
changes one character of its copy of the string and writes the whole string
back, under the overlay.  *Hard*: a read-modify-write across a network, with an
overlay as its lock.  *Correct*: the switches end with what the database holds;
a tap changes its own engine only; the pump's speed is reset before the pump is
turned on.

**Settings screen** (`Features/SettingScreen/SettingViewController.swift`).
Three switches of which one should be on, six threshold fields that are
checked before the mode is written and read again after it was accepted.  *Hard*:
the check is skipped when the automatic switch is turned off, though the mode and
then the thresholds are written all the same; fields change before the answer.
*Correct*: a switch that is on is the garden's mode; thresholds follow an accepted
mode only, and are zeros only past the check.

**Timer screens** (`Fan`, `Bulb`, `Canopy` and `LampViewController.swift`, which
is the pump's).  A time limit is compared with the clock, written as seconds,
and counted down by a repeating timer of which every press starts one more.

**Sensor charts** (`Temperature`, `Humidity`, `SoilMosture`,
`LightViewController.swift`).  Two arrays that run in parallel, kept in
`UserDefaults` by two calls.  *Hard*: kills between the calls; traps in the
drawing.  *Correct*: the arrays never drift so that the drawing traps at every
start.

**Home screen** (`HomeViewController.swift`).  Two observers of one string; each
of their events dismisses the shared overlay, whoever raised it.

**Tab bar** (`Features/HomeViewController.storyboard`).  Home, settings and control screen,
each loaded when it is first selected and then alive for good: their callbacks
run on one main queue, with one overlay and one alert between them, whichever is
shown.

**Splash, shell** (`SplashViewController.swift`, `AppDelegate.swift`, ...).
Navigation and start-up.

## Modules

```
SyncTree ------------------ the client's cache, against any server
   ^ (Client == INSTANCE)
RealtimeDatabase ---------- calls, serial queue, a connection that stays up, server
   ^ EXTENDS     ^ EXTENDS
AnyScreen      Screen ----EXTENDS--> ProgressHUD
                 ^ EXTENDS
   HomeScreen, PumpScreen, WorkModes
                              ^ EXTENDS
                ConfigScreen, SettingScreen
                 ^ EXTENDS (with HomeScreen)
               Garden ----- the tab bar and its three screens

Countdown, SensorHistory -- stand alone
WriteLedger --------------- what a client may count on for its writes
   ^ (Ledger == INSTANCE)
PersistentConnection ------ the connection, lost and made again

SyncTreeProofs, SensorHistoryProofs, CountdownProofs, ConnectionProofs,
AnyScreenProofs, GardenProofs: theorems
ChannelProofs, ServiceProofs: lemmas about channels, and about the client
under any screen
MC*.tla and *.cfg: instances for TLC
```

**SyncTree.**  A value of a leaf is opaque; `Null` is a missing leaf
(`FEmptyNode`), `NoWrite` is "no value at all".  `view[p]` is an `FView`: the
registrations in order, the server's and the event's cache nodes with their
`isFullyInitialized` flags.  `UserOverwrite`, `ServerOverwrite`, `AckWrite` and
`RevertWrite` are what `FViewProcessor` makes of one view; the actions
`ApplyUserOverwrite`, `ApplyServerOverwrite`, `ApplyListenComplete`,
`AckUserWrite`, `AddEventRegistration` and `ListenRefused` are one block of the
serial queue each, from `FRepo` down.  `FWriteTree` is kept the way the code
keeps it: `VisibleWithout` has the three outcomes of `removeWriteId` (hidden,
rebuilt, removed), and `lastWriteId` moves back with `resetTree`.  The main
queue is a sequence of blocks: value events, completions, and blocks of the app
itself, which `FireEvent` runs first to last.  Only what the app uses is
modelled: default queries on leaves, overwrites, no disk cache.

**RealtimeDatabase.**  `sharedQueue` holds the calls dispatched by
`setValueInternal` and `observeValueEventWithHandle`; `RunSet`, `RunObserve`,
`Receive` and `AckPut` are its blocks.  An answer that comes while a listen is
unanswered goes to `putsToAck` and is let go by the response to the last
listen, before the queue does anything else.  The server (`ServePut`,
`ServeListen`, `RemoteWrite`) is external: it is what the client relies on, that
is requests handled in order, and a new value pushed before the answer to the
write that made it.

**AnyScreen.**  An app that may make any call at any time.

**ProgressHUD.**  `alpha`, the background view that takes the touches, and the
hide animations in flight.  `HudHide` starts an animation only when `alpha` is
1, and `alpha` is reset only by `HudHidden`, so a `HudSetup` in between is
undone by the completion of an older animation, as in the code.

**Screen.**  What the screens share: `ShowAlert` (nothing is presented over
another alert, nor by a screen that is not shown), the callback of a write that
only says whether it failed (`Written`), the overlay's blocks, and what keeps the
user from touching (`Touchable`).  `tab` is the screen that is shown; it changes
only in `Garden`.

**ConfigScreen.**  The engines' string is the set of the rows that are on.  A string of
another length than four, which nobody is known to write, is not considered.  One
action per callback (`ModeEvent`, `EngineEvent`, `EngineWritten`,
`SpeedWritten`), and `Tap`, which is the whole of `handleSwitchChanged` and
`updateFirebaseData`.  The switch of a row shows its bit, because every assignment
of `engineStates` is followed by a reload.  `QuickTaps` says whether a second tap
may come before the `show` block of the first has run.

**SettingScreen.**  `switches` is the set of the modes whose switch is on, at most
one.  `fields` holds, for each threshold, what its two text fields would be
written as, or `Empty`.  `Turn` is `switchChanged` with `checkTextFieldsEmpty`;
`ModeWritten` is the completion that, for "3", writes the thresholds from what the
fields hold *then*.  `bypassed` is a ghost: it becomes true when the user gets
past the check of the fields in one of two ways, by turning the automatic switch
off over an empty field (`SwitchedOffEmpty`) or by emptying a field between the
switch and the completion of its write (`AutoModeOutstanding`).

**PumpScreen.**  The slider (`pumpModeSlider`) is moved by the user and by every
event of `pumpSpeed`; one press of the button makes two writes.  `unsent` is a
ghost: the user has moved the slider since it was last written or set.

**WorkModes.**  The three modes, which two screens name.

**HomeScreen**, **Garden.**  `Garden` extends the three screens, which share the
variables of `Screen` and have names of their own for the rest (`LoadControl`,
`LoadSetting`, `ControlTypeOK`, ...); a step is a step of one of them, and the
others' variables stay.  `SelectTab` loads a screen the first time.

**Countdown.**  A timer screen without its database: `written` is what `Press`
hands to the database.  The clock counts ticks; `TimeOfDay` is the `HH:mm:ss` of
the field, so that what is compared are seconds of one day.  `Press` reads the
clock three times, up to `Gap` ticks apart.  `forgotten` counts the timers that
still fire but that no variable of the screen refers to any more: `UpdateTime` is
the same whichever of them fires.

**SensorHistory.**  `values` and `times` with the saved copies.  The code keeps a
reading alone; the model keeps with it, as a ghost, the time it was read.
`SensorEvent` is the callback down to the first call of `saveData`; a trap in
`createLineChart` kills the app there, before anything is saved.  `Leave` is the
closing of the screen or a kill, also one between the two calls of a save, which
the ghost `torn` remembers.  Events with no string show an alert and change
nothing; they are left out.

**PersistentConnection.**  `connectionState` and `interruptReasons` are the code's;
`scheduledRetry` is the block of the retry helper, `fetches` the tokens asked for
and not yet come, each with the number of its attempt, `realtime` the
`FConnection`.  `Retry`, `TokenFetched` and `Ready` lead up, `Lose`, `GoOffline`
and `ServerKill` down (`OnDisconnect`), `Open` and `GoOnline` are
`resumeForReason`.  `Restored` is `restoreState`: the listens in any order, since
they are enumerated from a dictionary, then the writes by their numbers.
`toServer` and `toClient` are the messages on their way.  A loss empties
`toClient` but not `toServer`: what was sent may still reach the server until
there is a new connection, so that a write may be handled and its answer lost.
The cache is reduced to one value for each leaf that is listened to.  `Back` is a
network that comes back or an app that comes to the foreground: while disconnected
they try to schedule an attempt again.  As `NeverStranded` says, one is scheduled
already unless something interrupts, so all they do is shorten the delay, and how
long a delay takes is left to fairness.  `log` is a ghost of what the
server has handled.

**WriteLedger.**  The abstract specification: writes are issued, handled, and
answered in order.  `Handle` may repeat a write until it is answered, but never
comes before the first handling of an earlier one; `Answer` gives the server's
last word.

## Runs

| run | instance | what it shows |
|---|---|---|
| `sync_tree` | one leaf, two handlers, two values, 3 writes, 2 registrations, main queue of 3, answers in order (343k states) | `ViewIsOverlay`, `ServerSnapStays`, types |
| `sync_tree_any_order` | the same with answers in any order (873k) | `WritesStack`, `VisibleIsLayered`, `ObserversCurrent` |
| `any_screen` | two leaves, a handler each, any 3 calls, 1 write of others, every verdict (118k) | `ObserversConverge`, `EventSnapStays`, `ClientSpec` (the system implements `SyncTree`), `WritesAnswered` |
| `config_screen` | bulb and pump, 2 quick taps, 1 write of others, every verdict (821k) | `ScreenCurrent`, `OverlayDown` |
| `config_screen_alone` | 3 taps one after another, nobody else, writes accepted (639) | `OverlayLocks`, `OtherEnginesKept`, `PumpSpeedFirst`, `OverlayReleased` |
| `config_screen_early_tap` | 1 tap, the pump on at the start | **violates** `OtherEnginesKept` |
| `setting_screen` | one threshold, a mode that is no number at first, 2 switches turned, 2 edits, another phone sets the automatic mode, every verdict (773k) | `SwitchIsMode`, `OverlayDown`, `ZerosOnlyPastCheck`, `ThresholdsNeedAuto` |
| `pump_screen` | three speeds, slider moved once, 2 presses, 1 write of others, every verdict (895k) | `SliderIsSpeed`, `SpeedFollowsLimit` |
| `garden` | three screens, 2 tabs selected, 1 switch turned on each, sensors missing at first and reported once, writes accepted (992k) | `AllCurrent`, `OverlayDown`, types |
| `countdown` | 2 ticks a second, 3 seconds a day, 3 presses, reads of the clock up to a tick apart (102k) | `ProgressDefined`, `NotStoppedEarly`, `LimitKept`, `CountdownEnds` |
| `sensor_history` | 9 callbacks of two numbers and a reading that is none, kills anywhere (1.2M) | `NoIndexTrap`, `Aligned`, `SavedDraws`, types |
| `persistent_connection` | one leaf, 2 writes, 1 listen, 1 loss, 1 interruption, 1 write of others, every verdict (393k) | `AssertionsHold`, `NeverStranded`, `CacheCurrent`, `AnswersInOrder`, `LedgerSpec` (it implements `WriteLedger`), `WritesAnswered`, types |

Why the bounds are enough.  Three writes of one leaf are the least that make
`removeWriteId` take each of its branches with a write left over; two
registrations tell "every registration" from "the first one"; the leaves do not
interact in the cache, so one suffices there, and two are taken where they share
the serial queue and the count of unanswered listens.  Eight callbacks are the
first that trim the arrays; nine go past it.  Two engines, one of them the pump,
tell "its own engine" from "the others".  Two switches and two edits make each
order of a mode, the answer to it and a field that is filled and emptied; the three thresholds are copies of
one another.  Two presses tell the echo of one from the value of the other.  In
`countdown` a press may be at the limit, at the turn of a second and at midnight,
and the third press leaves two timers forgotten.  One loss and one interruption
fall at every point of two writes and a listen, and after each other; a second
write is what could be overtaken.  What these bounds leave open, further losses
among them, is what the theorems below are for.  `MaxQueue` only keeps the state
space finite where the app may call at any time (`sync_tree`); in the screens'
runs it is above what is ever reached, and so are `MaxWrites` and `MaxRegs`.

Deadlock is checked in `sync_tree*` and `sensor_history`.  The other runs stop
when the bounded calls, taps, losses or ticks are used up and nothing is on its
way, which is the normal end of what they model.

**What does not hold.**

- `config_screen_early_tap`: the mode's event dismisses the overlay and enables
  the switches, but the engines' states are only then asked for.  A tap before
  they arrive changes a bit of the default `"0000"` and writes that string, which
  turns off whatever was running.  The comment at `ConfigViewController.swift:137`
  describes replacing a part of the string.  `OtherEnginesKept` is therefore shown
  by `config_screen_alone` from a database whose engines are all off, the value
  the screen starts from.
- With other writers the whole-string write loses their changes as well, and
  nothing in the code claims otherwise.
- `PumpSpeedFirst` is shown for a single user and accepted writes, since the code
  does not wait for the answer about the speed.  `OverlayLocks` is shown for one who
  waits for the overlay, with a mode that others leave alone: a mode event of
  another phone, or any event of the sensors once the home screen is loaded,
  dismisses the overlay of a write that is still outstanding.  `ScreenCurrent`,
  `AllCurrent` and `OverlayDown` hold with all of these.
- Settings: turning off the switch that is on writes the same mode again, which
  raises no event, so that no switch is on; `SwitchIsMode` says what a switch that
  *is* on means.
- Settings: zeros reach the database for thresholds that were never entered.
  `checkTextFieldsEmpty` looks at the fields only if the automatic switch is on
  (`SettingViewController.swift:150`), so turning that switch *off* writes "3" once
  more and then every threshold (`:122-127`), without an edit and with nothing
  else going on: the fields start out empty and are never loaded from the database.
  The other way is to empty a field after the check and before the answer.
  `ZerosOnlyPastCheck` shows that there is no third way, for a user who enters no
  zeros.
- Pump: limit and speed are two writes that do not wait for one another.
  `SpeedFollowsLimit` is about the order in which they are handled; either may be
  refused, and the pump then has the new speed with the old limit, or the reverse.
- Timers: with a limit that spans midnight `getTimeLeft` is off by a day, so
  `LimitKept` is about reads of the clock on one day.  A timer that was forgotten
  never stops, and empties the field again and again after the countdown has
  ended: nothing in the code is against it, so no property is about the field.
- An alert over another one, or of a screen that is not shown, is dropped.

Each property is also known to be able to fail: beside a definition there may be
one whose comment begins with "Mutant", a plausible mistake in that code (a
dropped guard, a swapped order, an off-by-one), with which TLC finds the property
violated in the same run.  `PROJECT.json` lists them under "mutants", with the
lines each definition models under "map", and the situations in this code that
are hard to test under "hazards".

## Fairness

`ServiceFairness` is weak fairness of the blocks of the serial queue, of the
delivery of messages and of the server's two steps: dispatch queues run what
they are given, and in `RealtimeDatabase` the connection is assumed to stay up
and the server to answer.  The main thread runs its queue (`MainThread`,
`RunBlock`) and completes its animations.  There is no fairness on calls, taps,
alerts that are dismissed, or writes of others: nobody has to do these.  A listen
is assumed to be accepted there; a refused one would leave the overlay of
`viewDidLoad` up, since `fetchDataFromFirebase` passes no cancel callback.

In `PersistentConnection` the client is opened once, its attempts proceed
(`Connect`: the retry helper's delay ends, a token comes, the handshake is done),
messages are delivered and the server handles requests.  Losses are bounded, for a
network that fails for ever answers nothing; nobody has to go online again, which
is why `WritesAnswered` there excepts a connection that stays interrupted.
`Countdown` assumes that time goes by and that timers fire.

## Proofs

Each inductive invariant was model-checked before it was proved.

`SyncTreeProofs` (for every set of paths, values and handlers, every
registration and any number of writes):

- The inductive invariant `IInv` is `TypeOK`, `WritesStack`, `VisibleIsLayered`
  and `ViewIsOverlay`.  Each needs the others: the rebuild in `resetTree` is
  right only because ids are distinct, so that there is one newest write
  (`WritesStack`); `lastWriteId` moved back is still above every pending id
  because the writes have a greatest one (`BoundedHasMax`, from well-foundedness
  of the naturals); the view's value can be recovered after an answer only
  because the visible write is the layered one, and the answered write is the
  oldest of its leaf (`InOrder`).
- `Typing`, `WriteIds`, `Layering` and `Overlay` are its consequences;
  `SnapStays` is the action property that follows from it.
- `NobodyLeftBehind` proves `ObserversCurrent` from a second invariant, one
  handler at a time: a step either leaves a view's value alone or appends that
  value for each registration, and a block that leaves the queue becomes what is
  shown.
- Assumption: `SyncTreeAssumption`, the types of the constants.

`SensorHistoryProofs` (for any readings and any number of callbacks, kills and
restarts): `IInv` adds to the properties that the saved arrays are the ones on
the screen (`SavedIsShown`), that there are never more than seven times
(`FewTimes`) nor more times than readings (`FewerTimes`).  A torn save may leave
more readings than times, and trimming takes one of each only when both are
long, so `NoIndexTrap` is not inductive without `FewTimes`: with more times than
seven the two arrays could be cut apart.  `Invariant`, `Typing`,
`NeverPastTheReadings`, `KeptAligned`, `SavedCanBeDrawn`.

`CountdownProofs` (for any day, tick, gap, number of presses and of forgotten
timers): the invariant ties the part that is left to the whole it was set with
and to `endTime`; `ProgressShown` and `StoppedAtTheEnd` follow.  `LimitExact` is
about one press: three reads of the clock, and the arithmetic of seconds and days
(`LimitKept`).

`ConnectionProofs` (for any number of losses, interruptions and tokens that come
late).  `OneStepPending` says which step leads out of each state of the connection
and that it is the only one that counts.  An attempt's number is what makes it
inductive: a late token is in `fetches`, the latest one is not once it was used.
`Asserted` and `Unstranded`.

The messages on their way are `Answering`, under any number of writes, listens,
losses, interruptions and writes of others (`AnswersInvariant`).  It says that the
writes that are answered or held back are the first ones and the outstanding ones
are the rest (`Outstanding`, `Numbered`); that in the channels there are only
outstanding writes and answers to them, in order, the answers ahead
(`InTurn`); that none is missing while the connection is up (`NoneLost`), so
that the next answer is the one to the oldest; that `unackedListensCount`
counts the listens and responses on their way (`Counted`), so that what is held
back waits for something that comes (`HeldBehindListen`); and that an answer on
its way is still the server's last word (`Spoken`) and no write is ahead of one
that was never handled (`NoGap`).  How a step changes a channel is said once
(`Shifted`, `Added`, `Removed`, in `ChannelProofs`) and used for every kind of
message.  `Typing`, `InOrder`, and `Implements`: every step is a step of
`WriteLedger` or leaves its variables alone.

`Current` is about the cache: a leaf that is listened to, with nothing on its way
about it, is held as the database has it, also after what was missed while the
connection was lost and although the server leaves out the data whose hash it is
told.  `Following` (`FollowingInvariant`) is the reason, while connected: a listen
on its way tells what the cache holds *now* (`HashesTrue`); the server knows of
every listen but those on their way to it and those it refused (`ListensKnown`);
the last data on its way for a path is what the database has (`DataCurrent`); and
where none is on its way the cache has it already (`HeldCurrent`), except that it
may not know yet that a leaf does not exist, which is what the server's answer to
the listen tells it.

`ServiceProofs` is what every screen may rely on: the client, the connection and the
server of `RealtimeDatabase` under an app that makes calls and runs the blocks of
the main queue as it likes, on a connection that stays up.  `ServiceInv` is about
what is on its way: the answers that are held back, the ones that are coming and the
writes that are being sent rise in that order, and no pending write is missing among
them (`InTurn`); `unackedListens` counts the listens and the responses on their way
(`Counted`); every observed path is listened to or will be, and the view has what
the database has unless data is coming (`Followed`).  `DatabaseInv` adds the
invariant that `SyncTreeProofs` proves of the client by itself, through
`ClientP == INSTANCE SyncTreeProofs`: its lemmas are used, not repeated.  The lemmas
on top of it are what the proofs about screens are made of: what a screen goes by is
what its handler was last called with, or a block, a registration or a write of its
own that will change that is on its way (`Follows`); what was asked for is watched or
will be (`Wanted`); nobody is called who does not watch a view that has something to
show (`Heard`); and the values on their way for a path stay in a set that the writers
do not leave (`HeldIn`).

`AnyScreenProofs` (for any paths, values, handlers, calls and writes of others) is
about that service alone.  `AnyInvariant`; `ImplementsClient` is the refinement:
every step is one of `SyncTree` under a server that answers in order, so the
theorems of `SyncTreeProofs` hold here with no assumption about the server left,
because `InTurn` shows that the next answer is the one to the oldest write.
`Converge` puts both together: when nothing is on its way, no write is pending, so a
view shows what the server said, which is what the database has, and every handler
was called with it.  `NothingTakenAway` needs `Counted`: an answer is handed on only
while no listen is unanswered, and then every observed view has the server's value
to fall back on (`AllServed`).  `Types`.

`GardenProofs` is about the screens, for any handlers, paths, values, bounds and
writes of others; the taps may be quick and the writes refused unless a hypothesis
says otherwise.

- *The overlay comes down* (`ControlOverlayDown`, `SettingOverlayDown`,
  `GardenOverlayDown`).  `Overlay(Hs, Ts)`: every `show` block in the main queue has
  a block behind it that hides, or a first event or the completion of a write that
  will hide is still to come; and so has a background that is up, unless its hide
  animation runs.  `Hs` are the handlers whose events hide, `Ts` the writes whose completions
  do: the parameters are what lets one argument serve three screens and their
  composition.
- *A screen shows what the database holds* (`ControlIsCurrent`, `SwitchFollowsMode`,
  `SliderFollowsSpeed`).  `ControlInv`, `SettingInv`, `LampInv` and `HomeInv` say of
  each observed leaf that the screen `Follows` it; with `Followed` that is the
  database's value once nothing is on its way.  Several registrations of one handler
  are allowed for, as the control screen makes one more with each event of the mode.
- *The three tabs together* (`GardenTyped`, `GardenIsCurrent`, `GardenOverlayDown`).
  `TabsHolds` is the conjunction of the screens' invariants with `Overlay` of all of
  their handlers; a step of one screen leaves the others' calls, handlers and
  copies alone.
- *Limit, then speed* (`LimitNeverAlone`).  `Paired` and `LimitPaired`: right behind
  a limit in the serial queue there is a speed; so there is in the connection, where
  the head of the queue is what comes behind the last request.
- *The speed comes first* (`SpeedComesFirst`).  `Led`: in each of the queues between
  the screen and the server, whatever would turn the pump on has a speed ahead of it,
  unless the next queue, or the server, has the speed already.  Hypothesis `OneUser`:
  writes are accepted, others do not write the speed nor turn the pump on, and the
  pump is off at first.  Each of them is needed: the code sends both writes without
  waiting.
- *The overlay is the lock of the engines' string* (`ControlLocks`).  `LockInv` is a
  token: it is with nobody, with a call that is to be made, a write that is
  unanswered, a block that hides, an animation, or the listen of the mode
  (`HeldBy`), with one place at a time and only under an overlay that is up or about
  to be.  `ModeInv`, that the mode's event comes once, is what keeps a second event
  from freeing it.  Hypothesis `OneAtATime`: no other phone writes the mode and a
  user waits for the overlay of the tap before; writes may be refused and others may
  write the engines, which the run `config_screen_alone` does not have.

Assumptions: the types of the constants (`RealtimeDatabaseAssumption`,
`ScreenAssumption`, `ConfigScreenAssumption`, `SettingScreenAssumption`,
`PumpScreenAssumption`, `GardenAssumption`, `PersistentConnectionAssumption`, and
those of the components above), which TLC evaluates in the runs.

Only model-checked: liveness (`OverlayReleased`, the two `WritesAnswered`,
`CountdownEnds`), since it rests on fairness, and three action properties:
`OtherEnginesKept`, which needs beside `LockInv` that every value of the engines in
flight is the one before the tap or the one after it, and
`ZerosOnlyPastCheck` and `ThresholdsNeedAuto`, which need the fields and the
answers to mode writes related.

## Not modelled

Of the client: signing in, which the app does not do, and with it an error in
place of a token (`FPersistentConnection.m:465-470`); transactions, merges,
filtered and nested queries, `onDisconnect`, removing a listener and the disk
cache, which it does not use; the frames of the websocket and their keep-alives.
`RealtimeDatabase` and the screens over it assume a connection that stays up:
`PersistentConnection` is the model of one that does not, with the cache reduced to
a value for each leaf.  Of the app: the weather of the city, one request to
another service; the splash screen's animation; the digits of the sensor string
and of the thresholds; the trap of `Float(data)!` on a speed that is
no number (`LampViewController.swift:45`), which nobody is known to write;
layout, wording, icons and the chart's look.

The other vendored libraries, gRPC, BoringSSL, leveldb, Firestore, analytics and
the chart view, make up nearly all the C and C++ of the repository.  Nothing of the
app's own logic runs in them: the Realtime Database client talks over its own
websocket, and Firestore is linked but not called.
