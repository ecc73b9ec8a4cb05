# MojecSmartHome in TLA+

MojecSmartHome is an Android app (`src/app`) for a house with a UDP switch
board, an electricity meter behind a web service and, one day, security
cameras. The repository also carries a copy of the ipcam-view library
(`src/mjpeg-view`), which `settings.gradle` does not include yet, and with it
the libjpeg 8d that its native decoder is built from. This
directory holds TLA+ modules translated from that code, TLC configurations that
check them on small instances, and proofs that TLAPS checks.

Short names for source files below: **AF** `fragments/AutomationFragment.java`,
**MA** `activity/MainActivity.java`, **EF** `fragments/EnergyFragment.java`,
**LG** `activity/LoginActivity.java`, **SU** `activity/SignupActivity.java`,
**MV** `MjpegViewDefault.java`, **MI** `MjpegInputStreamDefault.java`,
**MN** `MjpegViewNative.java`, **IP** `ImageProc.c`; the `j*.c` files are those of
`src/mjpeg-view/src/main/jni/jpeg8d`.

To run: `tlc -config MCAutomationPanel.cfg AutomationPanel.tla`, and so on for
the table of runs; `tlapm HomeAutomationProofs.tla` for the proofs.

## 1. Inventory

| Part | State it keeps | Operations | Talks to |
| --- | --- | --- | --- |
| Automation panel (AF) | three ToggleButtons with a listener, one `popupDialog` whose buttons are bound again by each tap, the field `toggledProgrammatically` | tap, "Toggle", "Don't Toggle", close mark, Back, view creation and restoring | calls `sendMessage`; is replaced by the navigation |
| Command channel (AF `sendMessage`) | per command: a thread, a socket, `stringData`, a Handler | open, send, receive, close, post; show the answer | the board at 192.168.1.179:4210, by UDP; the main looper |
| Navigation (MA) | static `navItemIndex` and `CURRENT_TAG`, the drawer, FragmentManager's container and back stack, posted loads | choose in the bottom bar or the drawer, Back, recreate | creates every fragment |
| Energy page (EF, AppController) | one `ProgressDialog` per view, the Volley queue, result texts | balance, consumption and import query; their answers | the meter's web service, through Volley |
| Session and entry pages (SplashScreen, WelcomeActivity, LG, SU, ResetPasswordActivity, MA's menu) | the task of activities, the Firebase user, progress bars, the splash timer thread | timer, skip, sign in, sign up, reset, log out, pair, Back | Firebase, through listeners bound to an activity |
| Camera view, Java decoder (MV, MI, Mjpeg, MjpegSurfaceView) | `mRun`, `surfaceDone`, `mIn`, `thread`, the holder's canvas and monitor | set source, stop, surface callbacks, render loop | the camera's HTTP stream |
| Camera view, native decoder (MjpegViewNative, MjpegInputStreamNative, ImageProc.c) | the same with `suspending`, and one frame buffer per process in C | the same, with suspend and resume | the same |
| Multipart parser (MI, MjpegInputStreamNative) | position and mark of the stream, `mContentLength` | find marker, parse header, read frame | called by the render loop |
| Profile, security, notifications, settings, about, privacy pages; moving background; PrefManager; EndPoints; grid decoration | none that another part reads | show a layout | - |
| Decompressor of libjpeg (jdapi*.c, jdmaster.c, jdinput.c, jdcoefct.c, jdmainct.c, jdpostct.c, jdsample.c) | the call that may come next, scan and row counters of input and output, coefficient arrays, row buffers, multiplier tables | the calls of its application, each of which may be suspended | the data source, the application (IP) |
| Entropy coding (jchuff.c, jdhuff.c, jcarith.c, jdarith.c) | bits under way, predictions, runs, statistics, restart counters | encode or decode an MCU, gather statistics, restart | the markers and the byte buffer |
| Transforms (jidct*.c, jfdct*.c, jddctmgr.c, jcdctmgr.c) | tables made at the start of a pass | block to samples, samples to block | the coefficient controllers |

What is hard in each part, and what makes it correct:

* **Panel.** A toggle has flipped before its question is asked, so a "no" must
  undo a flip, and the undo runs the same listener. One flag for three toggles
  tells taps from undos; one dialog serves three toggles, and a second finger,
  a restored view or a recreated activity can rebind it or open it. Correct
  means: the question asked is about what the screen shows, no tap is
  swallowed, a declined flip leaves no trace.
* **Channel.** A thread per command: two commands overlap, UDP loses, delays
  and copies, `receive` has no timeout and compares nothing, a failed exchange
  throws on the main thread, a killed process leaves datagrams under way.
  Correct means: an answer shown is this command's answer, and the last command
  wins.
* **Navigation.** Two mechanisms share one container: transactions on the back
  stack for the bottom bar, posted loads without it for the drawer, reading
  static fields when they run. Correct means: the fields agree when they are
  read, nothing is added twice, the container is never blank, the user sees
  what was chosen.
* **Energy page.** Answers come back after the page was left, destroyed or
  recreated; one dialog stands for several requests. Correct means: no answer
  meets a page without context or a dialog of a dead activity, and the modal
  dialog goes away.
* **Session.** Timers and answers open pages when the user has moved on.
  Correct means: one main page, no way back to it from the login page, and a
  log-out that stays one.
* **Camera view.** The main thread of the default view stops threads it gives up
  on after 500 ms, over a field that is not volatile. Correct means: no thread
  reads null, none survives a stop, and all end in the end. The native view waits
  without a limit instead, and its C code keeps one picture for the process,
  without a lock. Correct means: one thread renders, the picture is there when it
  is used, and it is known what a stop may wait for.
* **Decompressor.** Any call may be suspended in the middle of an iMCU row and be
  continued by another one, while output reads the arrays that input fills.
  Correct means: every line is in its place, as complete as was asked, with the
  tables of its own scan, and no call waits for what it does not need.
* **Entropy coding.** A decoder is right only if it repeats every state change of
  its coder, through refinement scans, suspensions in mid-block, restarts and
  lost bytes. Correct means: what arrives is what was sent, and a loss stays
  where it was.
* **Transforms.** Thirty-two functions of hand-derived fixed point arithmetic
  in each direction. Correct means: they undo each other, stay in range and agree
  on brightness.

## 2. Modules

```
Toggles ── AutomationPanel ─┐
        └─ CommandChannel ──┴─ HomeAutomation ── implements ── SwitchBoard
MainNavigation     EnergyQuery     SessionFlow
MjpegPlayback ───────┐
MjpegNativePlayback ─┴─ MjpegSurface
HuffmanTables ─┐
JpegScan ──────┴─ HuffmanCoding ────┐
         └─────── ArithmeticCoding ─┴─ EntropyCoding
JpegDctKernels ── JpegDct                             JpegDecompress
```

`HomeAutomation` EXTENDS the panel and the channel and joins them where the
code does (`btnToggle` calls `sendMessage`, the end of the process takes the
panel with it). `SwitchBoard` is the abstract specification; `HomeAutomation`
has it as `INSTANCE SwitchBoard WITH confirmed <- commanded, switch <- device`
and what the dialogs on the screen ask as `question`. Proofs of module `M` are in
`MProofs`, which extends it; those of the panel and the channel are with the whole
screen, those of the two views with their surface. `JpegDecompressProofs` rests on
`JpegInputProofs`, the input side of the same module. A
definition whose comment begins with *Mutant* is a plausible bug in the definition
below it, unused by the specification; it is there to show that a property notices
it.

### AutomationPanel

`panel` is the fragment: positions (`checked`), the flag, whether the dialog is
up, what its buttons are bound to (`target`). A handler runs to its end on the
main thread, so it is one action, composed of the operators that mirror the
calls: `ClickNotToggle` is `Declined`, that is dismiss, raise the flag,
`Toggled`, that is flip and `CheckedChanged`, which lowers the flag (AF:86-177).
`TouchDown`/`TouchUp`/`LoseFocus` are the split touches of Android: a finger
that was on a second toggle when the dialog opened still taps it if it is lifted
before the dialog has the focus. `parked` holds the instances on the back stack;
`Return` and `Recreate` run `onCreateView` and then `RestoreViewState`: the
framework calls `setChecked` on every saved toggle, and each call that flips one
runs its listener. The fields survive on the back stack and not a
recreation. `commit` and the posted load only ask for a change of page (MA:159-165,
313-329), and a toggle may be tapped before it comes: `NavigateAway` does not ask
whether the dialog is open, and what it leaves open is in `leftover`, over another
page or over none yet. There "Toggle" still sends the command if the fragment is on
the back stack (`ConfirmLeftover`), and throws if it is not (`ToggleWithoutActivity`);
every other way to close it changes nothing that is still shown (`CloseLeftover`).
What such a dialog asked about counts as `drifted`. One case is left out: a fragment
that returns from the back stack under its own old dialog. Besides the late tap it
takes a Back key held since before the dialog. `confirmed`, `tapped` and `drifted`
are histories, and start again with each view. The layout's toggles 4 to 7 have no
listener: they are not part of it.

### CommandChannel

Worker `w` is the `w`-th call of `sendMessage`; `pc[w]` goes opening, sending,
receiving, posted, shown. `OpenSocket` takes any port no open socket has, so a
closed socket's port may come back; `IOFails` is the catch block, from every
place that throws; `CloseAndPost` is the finally and `handler.post`; `ShowReply`
and `NullReply` are the Runnable, the second being `trim()` on null (AF:447),
which ends the process. `net` is a set of datagrams that `Lose`, `Duplicate` and
`Obey` work on; order is free. A datagram carries its worker and a copy number
only to tell datagrams apart. `stale` and `raced` are histories: a port taken
over old datagrams, a toggle commanded over an older command under way.

### MainNavigation

`added`, `backStack` and `queue` are FragmentManager's; `Executed` is the
execution of a replace, `Popped` that of a pop. `looper` holds the activity's
pending loads and the manager's pending execution, in order, and the load reads
`navItemIndex` and `CURRENT_TAG` when it runs. `LoadHomeFragment` has the early
return for a tag that is found (MA:303), which sees shown and back-stacked
fragments but no queued ones. Selecting an item in the drawer also presses the
bottom bar for the items it has (MA:212-234), so that one handler commits and
posts. An item is its index; which layout it shows is left out.

### EnergyQuery

An instance of the fragment is attached, parked or gone; its dialog hidden,
showing or *leaked* (up when its activity was destroyed). A page is left in two
steps. `ChoosePage` is a handler that commits or posts (MA:127-165, 313-334) and
`ReplacePage` the message that executes the change, which does not ask whether a dialog
has come up meanwhile; `Finish` is the call of `finish`, after which the page goes on
reacting until `Destroy`. Only a pop is executed by the handler itself (`PopPage`).
What a finger is on is in `pressed`, `WayOut` standing for everything that leads away,
the Back key included; one that is down when the dialog opens still acts unless
`LoseFocus` comes first. So a query can be clicked after the page was left or the
activity finished, and a page be replaced, parked, popped or destroyed under its
dialog. A page popped back under its own dialog makes a new one in `onCreateView`
(EF:83); the old one is then `orphaned`.

`Deliver` is a listener with the ways it ends: rows, empty data or, for the balance,
no object (both return before `hidepDialog`, EF:138-141, 161, 244), something that does
not parse, an error. `ToastAndHide` throws without a context, as the toast for no object
does; `Hides` throws on a leaked dialog; `NoObject` is the cast, or the call on no
object, that nobody catches (EF:168, 227, 250). `exposed` is a history: since
requests have been in flight, a query was not `Alone` when it was clicked (another finger
was down, a change of page under way, the activity finishing) or the activity was
recreated. The texts are left out.

### SessionFlow

`screen` is the task and its activities' objects: created, started, spinner
visible. `Stop` is separate from what covers or finishes an activity, because
Android stops it later, and until then its buttons and listeners run: `Clicks`
and the listeners of `Answer` range over started activities, not only over the
top. A listener bound to an activity is dropped at `onStop` (`Unbound`).
`Paused` is `SplashScreen.onPause`, `Resumed` what `onResume` does, or
`onCreate` after the process died. The reset page opens and closes; the answer to its request changes
nothing that another page reads.

### MjpegPlayback

`pc[t]` is where a render thread is in `run` (MV:115-188): at the loop, waiting
for the canvas, for the monitor, about to read `mIn`, in the read, drawing.
`Stop` and `SurfaceDestroyed` are the handler up to `join`, `JoinEnds` the rest;
the join ends whenever it likes, because 500 ms bound nothing of the threads.
`mIn` is not volatile: `sees[t]` holds the values thread `t` may read, that is
the one of the moment it found `mRun` (which is volatile) set, and every one
written since. `late` and `overlapped` are histories: a join ran out of time, a
source was set while a thread was alive.

### MjpegNativePlayback

`nPc[t]` is where a thread is in MjpegViewNative's `run` and in the C code it
calls. `NativeStop` is `_stopPlayback` up to `join` and `NativeJoinEnds` the rest,
which needs the thread dead: the join has no limit. `mRun` and `surfaceDone` are
not volatile and the loop without a surface calls nothing, so that a compiler
may read them once: *spinning*. `Decode`, `Fill`, `Check`, `Copy` are the steps of
`processimage` and `pixeltobmp` between which `FreeCameraMemory` may run. The first
picture of the process brings the size of `rgb` (`IMG`); a later one of another
size is *misfitting*, one whose data end early is *endless* (the source manager
suspends, IP:40, and the loop at IP:232 does not look at what it gets). What C
does outside its memory is undefined: it goes on, or the process ends.
`AnotherView` is a view that finds `rgb` as the last one left it, its surface and its
threads being gone: **two native views alive at once are excluded**. `rgb`, `IMG_WIDTH`
and `IMG_HEIGHT` are shared by all views of the process without a lock
(IP:219-223), so that two would fill, copy and size one picture side by side. No layout
of the repository has two; everything said of the native view is said of one at a time.

### MjpegSurface

The attribute `type` of the layout decides which view does the work; the module
joins the two under it and states the fairness of each.

### JpegDctKernels, JpegDct

A butterfly is linear up to its last rounding, so that a kernel is kept multiplied
out: a row of weights for each sample, as the source's constants give them.
`InversePass` and `ForwardPass` are the loops with their fraction bits and
rounding shifts; each `jpeg_idct_NxM` is its two kernels and the limits. A
behaviour is a block read with a quantization table, transformed to samples at
one of 32 sizes, transformed back and quantized (`DctNext`). `range_limit` is the
table of jdmaster.c with its mask, so that wrapping is what the code does.
The `Columns` are the second passes of jfdctint.c, whose constants carry the
scale that a size needs.

### JpegScan, HuffmanTables, HuffmanCoding, ArithmeticCoding, EntropyCoding

`HuffmanTables` is what jchuff.c and jdhuff.c derive from a table: `CodesByLength`
is the loop that counts codes up, the coder's table has a code for each symbol, the
decoder's the last code of each length and, for all that eight bits can be, the code
they begin with. It has no RECURSIVE operator, so that it can be proved about. A coder and a decoder are records with the code's registers; a handler is an
operator from record to record. `EntropyCoding` is the pipeline: passes over the
script's scans (`EncodeMcu`, `FinishGathering`, `FinishWriting`), the bytes
(`Arrive`, `Lose`), `DecodeMcu` and `FinishScan`. With Huffman coding the
bytes arrive in any portions, and an MCU that runs out of them is tried again from
where it began, with what it wrote undone as the code undoes it. Real
quantities are kept: 64 coefficients, 16 bit codes, the standard tables, the 113
states of `jpeg_aritab`, the 16 and 32 bit registers.

### JpegDecompress

One step is one call of the application, to its end or to its suspension; the
data arrive between calls (`Arrive`). The controllers are records with the counters
of their files. A block is known by the scans its coefficients came from and the
place each took them from, a shown block also by the version of the quantization
table: from that a property can say whether a line is in its place, complete
and made with the right table. What is bounded or left out: blocks of two
rows and columns in place of eight (the counters are what matters); two
components; one slot of each kind of table; calls in an order that the code
refuses, and damaged data; a new colour map between passes; scaled output; a call of
`jpeg_consume_input` that changes nothing. After a suspended
`jpeg_start_output` the application repeats it with the same scan, and a raw
reader passes the same array, as libjpeg.txt asks. `jpeg_abort` and a next
picture with the same object are part of the model.
A loop of the code is a function of the number of its turns (`read_markers`,
`McusDecoded`, `Consume`, `DummyPass`), each turn of which leaves what is at its end
as it is, and is applied to a number of turns that is enough. So the module has no
RECURSIVE operator. Its two ASSUMEs are what the library's own checks let through:
sampling factors of 1 to 4, scans of distinct components (initial_setup, get_sos),
and factors that the upsampler can make up for (jinit_upsampler).

## 3. Runs

| Run | Question | Bounds | Distinct states |
| --- | --- | --- | --- |
| `panel` | Can the shared dialog and flag ask the wrong thing, lose a flip, swallow a tap? No. | 2 toggles, 2 fingers, 1 instance parked | 36,634 |
| `channel` | Own answers, last command wins, and what can leave a worker waiting | 2 commands, 2 toggles, 2 ports, no copies | 79,776 |
| `home` | Does the screen tell the truth about a settled switch, and does the whole implement SwitchBoard? Yes. | 1 toggle, 2 commands, 1 parked | 2,073,062 |
| `navigation` | Tags name kinds, no blank container, nothing twice, the chosen item shown | bottom {0,3}, drawer {0,3,4}, 5 fragments, 3 messages | 1,890,563 |
| `energy` | When can an answer throw, when can the dialog stay? | 3 instances, 2 fingers, 2 requests, 1 change of page under way | 269,010 |
| `session` | One main page, no way back to it, no stranded progress bar on signup | 3 activities, 1 request, 2 timers | 822,437 |
| `logout` | Does "Logged Out!" last? **No.** | 3 activities, 1 request, 1 timer | violation |
| `mjpeg` | Default view: who may still read what after a stop, and does every thread end? Native view: does one thread render, is the picture there, what can a stop wait for? | default: 3 threads, 2 streams; native: 2 threads, 2 sizes | 280,076 |
| `dct` | Do the transforms undo each other, at every size, within range and equally bright? | 32 sizes, 2 methods, blocks of two frequencies out of 9 and 3 levels | 69,499 |
| `entropy` | Does what was sent arrive, whatever the coding, the portions and the losses? | 14 jobs of 2 to 4 MCUs, losses in up to 2 restart intervals | 7,336 |
| `jpeg` | Is every line in its place, complete, with its own table, and no call suspended without need? | 5 pictures of up to 7 lines, 11 ways to decode them, blocks of 2 x 2 | 551,313 |
| `jpeg_ahead` | Is a component without a table one without coefficients? **No.** | 1 picture of two scans, asked for ahead | violation |

Why the bounds are enough to see the interesting cases. Two toggles and two
fingers are what it takes to rebind an open dialog; a third adds a symmetric
copy, and the theorems cover every number. One parked instance gives the return
to a view whose toggles are restored. Two commands give every overlap of two; the
properties speak of a latest command and an earlier one, and each is proved for
any number. One port forces reuse, two let sockets be open side by side. The
two items of the bottom bar and the one of the drawer alone are the three ways to
load; five fragments allow two back stack entries under a shown one with a load
pending. Three instances of the energy page are one that asks, one it is
replaced by and the one that comes after a recreation; two fingers and one change
of page under way are what it takes to ask on a page that is already being left. Three activities are a
leaving one, the one it opened and the one an answer opens. Three threads allow
one that a stop gave up on, one that was overtaken and a current one; of the
native view's no two are ever alive, so that two show what a third would. Two
sizes are equal or different.

The blocks of `dct` are sparse because the transforms are linear but for rounding
and limits: each frequency with each size is what tells the kernels apart, and
levels of 60 are what reaches the limits. The jobs of `entropy` have the
coefficients that matter to a coder: the largest difference, a run of more
than fifteen zeros, empty blocks in a row, a last coefficient of one,
coefficients that grow in every refinement. Two limits are constants, so that
small pictures meet them: `EOBRUN_LIMIT` (0x7FFF in the code) and `CORR_LIMIT` (937).
A loss touches two neighbouring intervals, so that one of them can be lost
altogether; `jpeg_resync_to_restart` cannot tell longer losses from shorter ones
modulo eight, and does not claim to. The pictures of `jpeg` are those in which
the buffers meet their corners: a last iMCU row that is half empty, chroma of half
and of a third of the size, components in scans of their own with a table
redefined between them, progressive pictures with a DC and an AC scan, and with a DC
scan after it. A block
side of two is the smallest for which a row of blocks has more than one line; the
controllers count in multiples of it. Where
constants are states of reused things (instances, activities, threads,
streams, fragments), a gone one is used again, so that behaviours are not
bounded in length, only in what is alive at a time; `MaxCommands` alone bounds
a behaviour.

### Violations: what the code does against its own words

1. `logout` (MA:418). Sign in, skip while the request is in flight, log out:
   the answer of the old request signs the user in, and the next login page goes
   straight to the main page.
2. `jpeg_ahead` (jddctmgr.c:262-271). A pass leaves the multiplier table of a
   component empty if no scan of it has been read, as "we'll be reading zeroes
   from the coefficient controller's buffer anyway". In buffered-image mode an
   application may ask for a scan that has not begun; `decompress_data`
   (jdcoefct.c:331) reads it while the pass is under way, and the component is
   shown with the empty table, that is as a plane of grey. libjpeg.txt:1972-1973
   says that such a pass is the same as `jpeg_start_decompress` in the end. The
   library, compiled, shows grey in such a pass and the colours in the next.

### What holds, and on which condition

The conditions in the properties are the code's, found by TLC and kept as small
as they go.

* `AnswerMeansObeyed`: unless the worker's port had datagrams of a closed
  socket under way when it was opened.
* `LatestPrevails`, `DisplayTrue`: unless the toggle was commanded while an older
  command for it, or a copy, was under way. `DisplayTrue` also leaves out
  toggles under an open or an abandoned question.
* `ModalProtects`: for a query clicked alone, that is with no other finger on
  the screen, no change of page under way and the activity not finishing, in an
  activity that is not recreated before the answer. What the user does after the click
  comes too late to take the page away. Each condition is needed: a second finger
  makes two requests, of which the first answer hides the dialog, or leaves the page
  in the window before the dialog has the focus; a page that was left, or an activity
  that was finished, before the click is gone when the answer comes. In each case
  the toast or `dismiss` throws and the process ends (EF:205, 367).
* `WaitIsExplained`: unless an answer was without data, whatever became of the page.
* `QueryConcludes`: unless an answer was without data, or the page was popped back
  under its dialog, which nobody can dismiss any more.
* `NeverBlank`: unless the activity was recreated under a posted load.
* `OneMain`: unless an activity that was leaving still reacted, or a splash
  timer went off elsewhere than on its splash screen.
* `StoppedMeansStopped`, `NullOnlyAfterGivingUp`: unless a join ran out of time
  or a source was set over a live thread.
* `PictureThere`: unless `freeCameraMemory` gave the picture back. With it the
  frame that is being decoded writes to, or copies from, memory that is gone.
* `Reproduced`: unless the coefficient is one of two that jfdctint.c scales
  wrongly (section 5), and only while no sample reaches a limit.
* `LinesComplete`: if the application does not ask for a scan whose start has not
  been read (`ahead`); `jpeg_ahead` shows why.
* `SuspendedForWant`: where an AC scan is smoothed and a DC scan follows, the last row
  may wait for the marker between them (`WantsRowBelow`, section 5).

### Liveness and fairness

* `ExchangeConcludes` under `FairSpec`: every live thread is scheduled and the
  looper serves its queue (weak fairness of the worker steps and of the posted
  Runnable); a datagram is not held for ever and the board answers what it gets
  (weak fairness of `Obey`; losing a datagram takes it away and satisfies it).
  An exception is a way for a step to be done. Nothing says that a
  datagram arrives, so a worker may be stranded, and the property says that this
  is the only way.
* `QueryConcludes` under `FairQuerySpec`: Volley's default policy retries once
  and then delivers an error, so that every request is answered.
* `RenderingEnds` under `FairSurfaceSpec`: threads run, a join ends. Nothing is
  assumed of the camera, except that reading a closed stream fails; the fairness
  is of `ReadFails` and not of `FrameRead`.
* `StopReturns` under `FairSurfaceSpec`: threads run, and a join whose thread has
  ended returns. A stop of the native view that never returns waits for a silent
  camera, a frame without an end or a loop that does not look any more: each of
  the three is possible, since the stream is closed only after the join.

The decoders state no fairness. "Everything comes to its end" is said as safety:
`NeverStarved` and `SuspendedForWant` say that what waits lacks data that have not
come, from which progress follows for any source that delivers.

## 4. Proofs

All of them hold for every value of the constants under the modules' ASSUMEs
(numbers are naturals, `0` is not a port, a thread or a stream, instances and
slots are finite), and were model-checked before.

* **HomeAutomationProofs, the panel.** `PanelTypeCorrect`, `QuestionTrue`, `Backed`,
  `TapsAsk` from `PanelInv`. The properties are not inductive: that a tap opens
  the question needs `FlagDown` (between handlers the flag is down in the shown
  and in every parked instance, because every raise is followed by the flip
  that lowers it); that declining restores what was confirmed needs
  `UntappedBacked` and `DeclineBacked`, which tell a dialog opened by a tap from
  one that a restored view opened.
* **The channel.** `ChannelTypeCorrect`, `AnswersAreOwn`, `LastWins`
  from `ChannelInv`: workers not started are untouched (`Fresh`), a port is
  held by one open socket (`PortsHeld`), the looper holds posted workers
  (`Posted`), a datagram in flight comes from a started worker and an answer
  from one that was obeyed (`InFlight`), at a port that is not stale
  the datagrams are the holder's own (`CleanPorts`), and for a toggle that did
  not race all commands under way are the latest (`UnderWayIsLatest`), the heart
  of `LastWins`.
* **The whole.** Steps of the composition are steps of panel and
  channel, which gives `HomeInv` and `ScreenTrue`. `Refinement` maps opening a
  dialog and closing it to `Ask`, "Toggle" to `Confirm`, the board's
  obeying to `Move` and all else to a stutter, with `HomeInv` for the fact that a
  datagram carries a command that was confirmed.
* **EnergyQueryProofs.** `QueryTypeCorrect`, `WaitExplained`, `DialogProtects`
  from `QueryInv`, which adds `Guarded`: a request that is not exposed is the only one,
  its owner is on the screen with its dialog up, and nothing is left that could take it
  away: no finger, no change under way, no end of the activity. `Guarded` is what a
  click alone establishes, and every step that could break it needs a screen without a
  dialog, a finger, a change under way or a finishing activity (`NothingLost`).
* **MjpegSurfaceProofs.** For the default view `PlayTypeCorrect`, `NullExplained`,
  `StopStops` from `PlayInv`: canvas and monitor are held by the thread whose `pc`
  says so (`Holding`, part of the type invariant), a thread that may run in an orderly
  history sees no null (`RunningHasStream`), and only the thread of the field
  `thread` is alive (`OneThread`). For the native view `NativeTypeCorrect`,
  `OneThreadRenders`, `PictureExplained` from `NativeInv`. `OneRenders` needs `Halted`
  (a view that is to be resumed, or that waits in a join, does not run): resuming makes
  a new thread without looking at the old one, which is right only because `suspending`
  is set by a stop alone. `PictureThere` needs `HasBitmap` (beyond the loop a thread has
  a bitmap, so the comparison of the sizes fails before the first picture) and
  `PictureKept` (once there was a size, there is a picture or it was given back).
  Each is proved of the view alone; `ViewsAsAlone` says that the surface implements
  both, because a step of one leaves the variables of the other alone, and `SurfaceSafe`
  carries the six properties over to the specification the run checks.
* **MainNavigationProofs.** `NavTypeCorrect`, `TagsTrue`, `NoPopTwice`,
  `ContainerNeverBlank`, `ChosenIsShown` from `NavInv`. None of the five is inductive.
  That no pop adds what is there needs `AllNew`: a fragment in the queue is nowhere
  else, and `NewFragment` makes one with a number nobody has (`NewFragmentIsNew`).
  That the container is not blank needs `Rooted`, which says what every number of
  pops would leave: an entry that removed nothing has above it a fragment that
  stays. It is kept by a replace and by a pop, while a container that is not rooted
  (at the start, after a recreation) has a load posted or queued (`Expected`).
  That the drawer's choice is shown needs `FieldsAgree`, since the load reads the two
  static fields when it runs, and `ChosenComes`, which follows the choice from the
  looper to the end of the queue to the container.
  `AllExecuted` is a fold over the queue, so its lemmas are inductions on the queue's
  length. `LeastNat` and `NatInduct` derive them from the well-foundedness of `<`,
  with a set of numbers where the library's theorem takes a predicate; `FoldIsIter`
  connects the fold with its iterates and `AllExecutedKeeps` is the induction.
* **SessionFlowProofs.** `FlowTypeCorrect`, `OneMainPage`, `SpinsForAnswer` and the
  action property `NoReturnToMain` from `FlowInv`. `ScreenOK` adds to the type that
  nothing is left of an activity that is gone: otherwise a fresh activity could be
  born with a progress bar or be finished by an old listener. `MainLast` (while
  nothing raced a main page is on top only) is the inductive form of `OneMain`: a
  count of one would not tell that the page that leaves is that one. `Heard` (a bound
  listener belongs to an activity that has not stopped) and `Spins` (a started signup
  page that spins has such a listener) give `SignupSpinsForAnswer`: `onStop` breaks
  neither because it takes the activity out of `started`, and coming back hides the
  bar. For `NoWayBackToMain` each step from a login page either leaves it on top,
  leaves the foreground or puts an activity on top that was gone. `WithoutFacts` says
  what taking an activity out of the task leaves, in which order; it is written by
  positions for that reason.
* **HuffmanTablesProofs.** Theorems about operators, for every `LegalTable`, that is
  every table that is not JERR_BAD_HUFF_TABLE. `CodesAreRead` says that the loop of
  jpeg_huff_decode, which compares what it has read with the last code of that length
  and nothing else, takes no beginning of a code for a code. The reason is
  `ShorterIsNoCode`: each length begins at twice where the one before it ended, so
  that what is left of a code after dropping bits lies above all codes of that length;
  an induction over the bits dropped. `Unambiguous` follows. `LookaheadAgrees` says
  that the table of eight bits gives what the loop would: a beginning that is no code
  lies where longer codes begin (`BeyondShorter`), so that the first comparison that
  succeeds finds a code of that length, not a number below them.
  `CodesAreLookedUp` puts the two together for HUFF_DECODE. Numbers and bits are
  connected by `PrefixValue` and `ValueFacts`, inductions over the bits, and powers of
  two, which the solver does not know for a variable exponent, by counting subsets
  (`Powers`). The recursive functions exist by `ReadingExists` and `CodingExists`.
* **JpegInputProofs, JpegDecompressProofs.** `JpegTypeCorrect`, `NothingIsSkipped`,
  `LinesAreInPlace`, `LinesAreComplete` and `NeighboursAreThere`, for every picture,
  with any sampling factors, components and scans, in every mode and for every way its
  data arrive. `LinesAreComplete` has one hypothesis, `NeverAhead`: no mode lets the
  application ask for a scan whose start has not been read. The modes of the run `jpeg`
  satisfy it, and `jpeg_ahead` is the counterexample without it.
  None of the five is inductive; the invariant is `ObjectInv`, which says where the
  object is between two calls, and `LinesRight`, the three properties of lines. The
  object is in one of three places. Before the first scan (`InHeaders`) input is among
  markers that may come there. Between passes (`Waiting`) it is `Loaded`: input is
  `Reading`, and the memory is as large as the picture (`Memory`) with each
  coefficient at the place that the coder took it from.
  `Reading` is the heart of the input side: either the next unit of the data, or the
  one just read, is a marker that may follow the scans that have been read
  (`AmongMarkers`), or input is in the data of a scan whose parameters are in force
  and the next unit is the MCU that the three counters name (`InScan`), or it is at
  the end. It is kept because of what follows what in the data (`Follows`, `Chained`:
  lemmas on the concatenation of scans), because the counters of one iMCU row end
  where those of the next begin, also in a scan of a single component, whose last row
  is shorter (the lemmas on sizes), and because no unit is counted before it
  has come. `Reading` also says what has been kept of the data: the image has, of every
  block of the picture, what the scans read before say, the iMCU rows read of the scan at
  hand, and the MCUs read of its row (`ImageHolds`); and the table of a component is
  that of its first scan, once that was begun (`Latched`).
  During a pass (`Outputting`) there is also `OutputInv`. In one pass, output is
  where input is, and the main buffer shows the MCUs that have been read
  (`InStep`, `McusShown`). The main buffer, while it is full, shows the iMCU row before
  `output_iMCU_row`, and the number of lines given out is that of its row groups
  that are done and of the rows of the color buffer that are out (`MainInv`,
  `Filled`, `ColorsShow`): this is what makes a call that ends anywhere in a row
  group go on with the right line. The strips of two-pass quantization show the
  lines that the dummy pass has come to (`StripInv`, `StripsShow`), all of them when
  the second pass begins. What each of these buffers shows of a block is `Right`: its
  place, what every scan asked for says of it, the table and the rows around it. An
  aborted pass leaves all this behind, and the passes that are prepared do not look
  at it.
  That a row is complete when it is shown is a matter of the loops that consume input
  first. The model gives them `InputTurns` turns, and they come to their end in fewer:
  each turn that is not suspended makes `Remaining` less, a measure of the markers and
  iMCU rows to come (`DataConsumed`, `LoopConsumed`). So what they wait for is there
  (`RowThere`), with the row ahead that smoothing needs, and it stays complete while
  later scans add to it. The scan asked for changes under a pass only at the end of the
  data, where it falls to the last one, which asks the same of every block
  (`SameAsked`). The transforms have the tables of the scans asked for since the pass
  was prepared (`Prepared`), and this is where `NeverAhead` is needed: a component
  whose first scan begins later is shown with an empty table.
  A call may run input and output through any number of turns, so that each loop has a
  lemma by induction on its turns (`NatInduct`). TLC has checked
  `ObjectInv` and `LinesRight` on 878,462 states, with modes and pictures beyond those
  of `jpeg`: a first component of three block rows in one pass, a scan asked for ahead.

The type invariants `PanelTypeOK`, `ChannelTypeOK`, `QueryTypeOK`, `PlayTypeOK` and
`NativeTypeOK` are proved and no run repeats them. `channel` has no copies of
datagrams: its safety properties are proved with any number.

Only model-checked: the four liveness properties, which need fairness; the transforms
and the entropy coding beyond its Huffman tables, whose content is arithmetic over
whole blocks or recursion over bytes (`JpegScan`, `HuffmanCoding` and
`ArithmeticCoding` have RECURSIVE operators, which the provers cannot use); of the
decompressor `SuspendedForWant`, whose proof would need what `Reading` does not say:
what exactly a suspended call waits for, and the order of all the units of the data
(section 7).
That `jpeg_gen_optimal_table` makes
legal tables, which the theorems about tables assume, is only checked as well:
`CodesComplete`.

## 5. Seen in the code, without a run of its own

* "Are you sure you want to toggle this switch?" can be dismissed with Back, which
  runs no listener: the toggle stays flipped and no command is sent (AF:62).
  `PositionsBacked` has this as its one exception.
* A load replaces the shown fragment outside the back stack; popping an older
  entry adds what that entry removed, next to the fragment that was loaded
  (MA:321).
* A toggle tapped after a page was chosen opens its dialog over the page that comes;
  "Toggle" on it throws if the fragment was not kept: `getActivity()` is null
  (AF:107). `leftover` has these dialogs.
* An empty `data` array of the energy service returns before `hidepDialog`, and the
  dialog cannot be cancelled (EF:161, 245; EF:85).
* An energy query clicked after a page was chosen, or after `finish()`, has its
  fragment destroyed while it waits; an answer that brings a toast then throws
  (EF:205), and one that finds the dialog of a destroyed activity throws in `dismiss`
  (EF:367). A page popped back from the back stack under its own dialog makes another
  (EF:83), and nobody dismisses the first.
* jfdctint.c:1467-1469, and the same in the 12x6 function: coefficient 2 of a row of
  twelve adds `tmp14 - tmp15` without the `CONST_BITS` that the other term has, so
  that the shift drops it. jfdctint.c:1873-1876, and the same in 14x7: coefficient 1
  of a row of fourteen does so with `tmp6`. Coders that scale by 12/8 or 14/8 lose
  that part of the picture; `Impaired` names the two.
* Two components that share a quantization table but not a DCT size share the
  divisors of the one that came last (jcdctmgr.c:357).
* `my_jpeg_load_dht` puts its own Huffman tables over those that the header brought
  (IP:210); a picture with optimal tables is decoded with the wrong ones.
* The native loop over the rows ignores what `jpeg_read_scanlines` returns (IP:234)
  and sizes `rgb` by the first picture of the process (IP:219): a picture cut
  short does not end, one with more rows goes beyond it. In the model these are
  `endless` and `misfitting`.
* `_setSource` on a running native view starts a thread object a second time, which
  throws (MN:217); a render thread that got -1 leaves `mRun` set (MN:136), with the
  same effect.
* The second pass of two-pass quantization limits what it gives out to
  `output_height - starting_row`, measured from the start of the strip and not from
  the next row of it (jdpostct.c:224). With a vertical sampling factor of 3 or 4, an
  application that asks for fewer lines than are left of the last strip is then given
  lines from below the picture, and `output_scanline` passes `output_height`; the
  library, compiled, does so. `JpegTypeOK` has the strips as its limit in that pass.
* Smoothing waits for the next marker before it shows the last row of a DC scan
  (jdcoefct.c:487-495): at the bottom there is no row to be ahead of. The last row of
  an AC scan waits for it as well if a DC scan follows and its marker has been cut
  behind `Ss`: the code asks `cinfo->Ss`, which `get_sos` has assigned by then, while
  `input_scan_number` still names the AC scan (jdmarker.c:354-369). The comment,
  "if input scan is DC, we want it to keep one row ahead" (jdcoefct.c:489-490), is
  about the Ss of the scan that input is in.

* Pages of the bottom bar do not set `navItemIndex`; Back from them does not load
  the home fragment, although the comment at MA:377-378 says so.
* A drawer item whose tag is only on the back stack is not loaded: title and
  check mark change, the page does not (MA:301-303).
* The notifications menu is inflated for index 3, which is the profile item
  (MA:402-403).
* `LoginActivity` has no `onResume`: a sign-in answered while it was stopped
  leaves its progress bar turning (LG:128); `SignupActivity` has one, which is
  what `SignupSpinsForAnswer` is about.
* A new AutomationFragment shows every toggle off, whatever the switches are.
* "Toggled ON" and "Message Sent" are shown before the worker has a socket
  (AF:107, 456).
* Answers of the energy page overwrite the same text in the order they arrive
  (EF:280); a row without a field leaves the figure of the rows before it, under
  an error toast (EF:269).
* A frame is read with the canvas and the holder's monitor held, so that
  `setSurfaceSize` waits on the main thread for the camera (MV:93, 141).
* No marker within `FRAME_MAX_LENGTH` makes `headerLen` -1 and the array of that
  size throws what the loop does not catch (MI:72-74); in the model this is
  `BadFrame`.

## 6. Not modelled, and why

* Two native camera views alive at the same time, which would share `rgb` without a
  lock (IP:219-223; section 2, MjpegNativePlayback), and an AutomationFragment that
  returns from the back stack under its own old dialog (section 2, AutomationPanel).
* Constant pages, drawing, layouts, strings, endpoints and the unused PrefManager
  keep no state that another part reads. The background painter is never started
  by a page of the app.
* The multipart parser (MI, MjpegInputStreamNative) is a sequential search whose
  result the views see as a frame, an exception or silence. It matches bytes one by
  one and does not reconsider the one that broke a match (MI:48-50), so FF FF D8
  is not seen as a start.
* Of libjpeg: the floating point transforms, which nothing here chooses; colour
  conversion, the quantizers' arithmetic, the compressor's sampling and
  preparation, the memory manager: arithmetic and bookkeeping without an order of
  events. The coder's suspension: nothing here writes a picture.
* Context rows are never asked for by this version's upsampler, and merged
  upsampling needs three components in YCbCr and `do_fancy_upsampling` off. cjpeg,
  djpeg, transupp and their kin are not compiled by Android.mk.

## 7. Plan

Done, in this order: Toggles, AutomationPanel, CommandChannel, SwitchBoard and
HomeAutomation with their proofs, the automation screen being the app's purpose;
MainNavigation; EnergyQuery and SessionFlow; MjpegPlayback; the proofs of
EnergyQuery and MjpegPlayback; MjpegNativePlayback with its proofs, MjpegSurface;
the transforms, the entropy coding and the decompressor of libjpeg; the proofs of
MainNavigation and SessionFlow; the safety of both camera views under their
surface; the Huffman tables; JpegDecompress with its loops written as functions, and
the theorems about where its input is, and that its lines are in place and complete.

Next:

1. `SuspendedForWant` as a theorem: the units of the data ordered by scan, kind and
   number (`Follows`, by induction along the data), `Reading` with what input lacks
   when it is suspended, and for each loop that a suspended call waits for a unit
   before the one that `Needed` names.
2. A composition of navigation and energy page, to replace the latter's free
   `ReplacePage` and `PopPage` by what MainNavigation can do.
3. The lemmas of JpegScan that need no induction: the zigzag orders are injective
   and stay in their square, and `BitLength` of JpegScan bounds the number that
   `LowBits` of HuffmanTables keeps.
