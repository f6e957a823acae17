# ok-rn in TLA+

ok-rn is a React Native app that holds, drives and shares an OnlyKey. The key is
either a plugged-in one or the *soft key*: the OnlyKey firmware compiled into the
app and run on a thread of its own, with plugins of this repository staged into
it. Computers reach the key over Bluetooth. The part with the most state and the
strongest promises is the **Edge** plugin: a hash chain kept by the key, on which
a person opens *budgets* that let an agent sign or decrypt with no press, each
such use owing a receipt before the next one.

This directory specifies the system's own logic, checks it with TLC on small
instances, and proves the main results with TLAPS for every instance.

## 1. The system

| Component | State | Operations | Hard behaviour |
|---|---|---|---|
| Edge plugin, key side (`android/okemu/plugins/edge/src/okplugin_edge.cpp`) | the record (head, seq, latest link, debt, salt) in RAM and on flash; budgets, TX start, waiting request, staged labels, links for pickup in RAM | OKEDGE requests, press decisions, the no-press run, backup, restore, wipe | a request is checked when asked and acts when pressed; a handler saves several times; crash at any save; a 32-bit clock; restore over a live key |
| Edge record (same file, over `okemu_flash.cpp`) | two flash sectors, gen in RAM | save, load, wipe | power loss in a write or between two erases |
| Press queue (`okemu_press.cpp`) | ring of presses | queue, take, clear | the app queues while the firmware thread takes; full ring; a restart |
| Soft-key HAL (`ok_hal.cpp`, `okemu_usb.cpp`, `okemu_jni.cpp`) | report queues per interface, write ticket, running flag | write, read, flush, start, stop | firmware thread against app threads, time-outs, stop while blocked |
| Bluetooth gate (`src/btTransit.ts`) | pairings (sealed store), sessions by address, pairing window | pairing messages, hello, sealed traffic, revoke, switch off | every `await` lets other handlers in; renewals in two phases |
| BLE framing (`CtapBleFramer.kt`) | partial message | fragment, push | lost or reordered fragments |
| Native GATT server (`NativeFidoGattModule.kt`) | connections, subscriptions, notification queue | connect, write, notify | callback threads, dropped notifications |
| Bridges (`src/fidoBridge.ts`, `src/vendorBridge.ts`) | owner of the conversation, release timer | relay, release | timers against answers that come late |
| Edge host (`src/edgeStore.ts`, `edgeAgents.ts`, `edgeSoftKey.ts`, ...) | the host's copy of each chain; the ask on the sheet, nonces taken | pickup, verify, offers; ask, answer, press | background rounds against the screen; a sheet that outlives its message; nonces saved late |
| Press sheet (`pressAsk.ts`, `usePressQueue.ts`, `useKeyWaiting.ts`) | what is asked, polls | ask, answer, time out | stale polls |
| USB transport (`com/okrn/usb`, `UsbPipe.ts`) | open interfaces, reader threads | open, write, read, detach | detach while reading |
| Key session (`useOkEmu.ts`, `useHardKey.ts`, `useKey.ts`) | active key, believed lock state | attach, unlock, lock | key changes under a running operation |
| Bluetooth keyboard (`btkbd`) | HID registration, armed flag | arm, type | profile callbacks |

The hosts (an agent's CLI, the app itself) send OKEDGE messages to the plugin,
which reaches the core firmware through hooks (`plugin.js`): when a request is
primed, when it is decided (press, deny, time-out, or at once when a budget
pays), and at backup, restore and wipe. The core firmware is not in this
repository; it is modelled by how those hooks are called.

What makes each component correct:

* **Edge plugin** - one debt at a time; nothing starts while a receipt is owed; a
  use is on flash before its result leaves; a use runs only as announced and only
  against a live, unheld budget with room; a budget opens only on the head the
  host verified; settling ends everything; a device id has one history.
* **Edge record** - a save is atomic and durable.
* **Press queue** - presses reach the firmware once, in order, none overwritten.
* **HAL** - a writer is answered or times out, none waits for ever; no report of
  one run reaches the next.
* **Gate** - a session exists only for a pairing that stands and is on.
* **Framing** - what is reassembled is what was sent, or nothing.
* **Vendor bridge** - a computer's write goes in while it holds the key's lane, the
  app's answers go to the app, and each gets its turn.
* **Edge host** - the host's copy is a prefix of the key's chain or a shown fork; a
  person is asked once, and the sheet says what the agent was told.

## 2. Modules

### The chain

`EdgeChain` - heads and links. A head is the sequence of links it pins: SHA-256
is taken to be injective, so two heads are equal exactly when their histories
are. It also holds the readings of a chain every other module shares: which uses
are unpaid, which grants are open or on hold.

`EdgeLedger` - the abstract specification: which link may follow which history.
It knows nothing of RAM, presses, clocks, flash or TX starts.

`EdgeKey` - `okplugin_edge.cpp`. One action per OKEDGE request, one per decision,
one per hook. Its variables are the file's static data:

| variable | code |
|---|---|
| `st`, `disk` | `struct edge_state st`, and what `state_load` would read |
| `budgets` | `struct budget budgets[MAX_LIVE]`; id 0 is a free slot |
| `tx` | `started`, `tx_token`, `tx_intent` |
| `pend` | `pend`: the sign or decrypt the core waits to decide |
| `press`, `wait` | `press`, and whose request the core is waiting on |
| `staged`, `held`, `refused` | `staged`, `held[]`, `refused_tx` |
| `ident` | `ident`, the key pair and id in RAM |
| `busy` | which handler is between two saves |
| `now`, `backup`, `salts` | the clock, the last backup section, the salts drawn |

The firmware is a single thread, so a handler is one action - except where it
saves more than once (`complete_fulfilled`, `settle_pressed`, `ensure_identity`)
or runs the operation after the save: there each save is a step and `busy` holds
the place, because `Restart` may come between. `Restart` is a lock, a reboot, a
crash or a kill: all lose RAM and run `state_load`.

A request is primed with the mode the core itself has for it (`asks`). One that a
budget pays, or that is to be refused, runs with no press. Any other keeps the core's mode
(okplugin_edge.cpp:1065): with a press asked for it waits for the person, with none it
runs at once, unpaid and with no link, as it would with no plugin there. So
`FreeRunIsRecorded` speaks of operations a budget is to pay for.

`pend.start` records the TX start a request was checked against when primed. The
code compares once, at priming, and keeps only the outcome; the field makes the
outcome's meaning available to `UseWasAnnounced`.

`EdgeRecord` - the record on flash, at the level of sectors; `DurableCell` is
what it promises. `EdgeKey` takes a save as one step on the strength of this
module. It also takes the wipe as one step, which is more than the code gives
(finding 2).

### The presses

`PressFifo` - the abstract queue of presses. `PressQueue` - `okemu_press.cpp`: the
ring, its indices, and a caller's run stored slot by slot under the mutex (`run`
is what is left of it; while it is not empty the firmware thread cannot take).

`TouchSense` - extends `PressQueue` with the other way a press reaches the
firmware, and with the loop both ends meet in:

| variable | code |
|---|---|
| `ticks` | the HAL's counters (`g.ticks`, ok_hal.cpp) |
| `seen`, `stage` | how far the firmware thread is in a round of `touch_sense_loop`; away from it ("busy"); unwound ("ended") |
| `selected`, `key_on`, `key_off`, `loop` | that function's statics; `loop` is `key_press` with its button |
| `phase`, `since` | where `holdTicks` and `settleRelease` (OkEmu.ts) are, rounds since |
| `late` | the loop was away during this hold |
| `running` | `g_running` of the JNI layer |
| `asked`, `handed`, `sensed`, `dequeued` | history: holds armed, presses handed over, presses `payload()` was given from the pads and from the queue |
| `crossed` | history: in which ways a press may have run into another |

A round is two steps - the pads before the last are read, then the last one is
read, the counters age and the press is judged - because the app may arm a hold
in between. The firmware's statics are external: what they do is taken from the
HAL's comments (ok_hal.cpp:607-629), `FINDING-counted-presses-merge-without-an-idle-gap.md`
and `scripts/stage.js`, which injects the line that takes a press. Held buttons
with no count (`okemu_set_button`) are left out.

Deadlines are not clocks. A round takes no time worth counting, so the ten seconds of
a hold can be over only when the loop was away in it - in `payload()`, in a host's
request, or for good: from then on (`late`) the app may give up at any moment.
`holdTicks` that gives up throws with samples still owed; its caller swallows that and
the next hold is armed on top of them (usePressQueue.ts:57-66), so `HoldFails` goes
back to "idle" as a hold that succeeded does. `settleRelease` that gives up returns.
`Unwinds` is the end of the firmware thread: by `CPU_RESTART` in what it serves
(okemu_restart.cpp:157-165), or after a stop, which unmaps the flash
(ok_hal.cpp:359), in a round or in what it serves. No other thread is started in the
process.

Holds, queued runs and requests come in any order. `crossed` names the three ways the
code lets two presses run into each other: "owed", a hold failed with samples owed;
"early", `settleRelease` gave up before the press was served; "queued", a run
was queued in mid-hold, or a hold armed while a queued press had still to be served.
`HoldsStayApart` and `HandedIsServed` are promised until one of them happened.

### The Bluetooth gate

`BtGate` - `btTransit.ts`. Handlers run one at a time, but each that saves is two
actions: what it does before `await save()`, and what it does after (`Paired`,
`HelloAnswered`, `Revoked`, `Finished`); `jobs` holds the saves begun, each with
the snapshot `JSON.stringify(state)` took when `save()` was called and with what
follows it. Sealing and storing answer in call order, so saves end in order; any
of them may fail, and a restart loses them all.

| variable | code |
|---|---|
| `mem`, `disk` | `state.records`, and the records under `okt.btpair.v1` |
| `sessions` | `sessions`, by address |
| `pair` | `pair`: the window, the pairing under way, the pairing to confirm |
| `made`, `day` | secrets made; the clock, in units of the renewal period |
| `acked`, `dropped`, `told`, `raced`, `best` | history, for the properties |

The library `node-onlykey-lib/btpair` is not in the repository. Its answers to a
hello (session, alarm, revoke, expired) are modelled from what `onHello` does with
each and from the comments there: a record proves its secret and, two-phase, the
renewed one; one proved becomes the secret and the former an old one.

### The vendor bridge

`VendorBridge` - `vendorBridge.ts` with the pipe both transports offer it. The
app's own conversations and those of the computers take turns in the key's *lane*
(a class of `node-onlykey-lib`, external: one runs, the rest wait in order, an
urgent one in front).

| variable | code |
|---|---|
| `owner`, `boundTo`, `ours` | the variables of the same names of `startVendorBridge` |
| `held`, `holding`, `timer`, `asks` | the hold on the lane, its promise, its timer; callbacks of that timer that await `isKeyWaiting()` |
| `waits` | `forward()` calls that await the hold |
| `lane`, `app`, `conv` | the lane of each key; how far the app's conversation there is, and which of them it is |
| `inq`, `unechoed`, `press`, `ev` | the pipe: reports the key has, writes whose echo is not out, the key waits for a press, events on their way |
| `mistaken`, `strayed`, `moved`, `leaks` | history |

A computer may write for ever: `Room` bounds how much of it is under way at once
(`MaxReports`), not how much there is.

What the module asks at one time and uses at another is two steps: the timer fires
and asks, the answer comes and decides; a report waits for the hold and is written
when the lane turns to the bridge, by then with no second look at the door, the
target or the active key. `HoldAgrees` ties the bridge's variables to the lane's,
`WritesInsideTheHold` says a write is made in the hold of its own key unless the
key changed meanwhile, and `LeaksHaveAReason` that an answer of the app goes to a
computer only in the ways finding 5 names.

### The pipe to the soft key

`HalPipe` - `ok_hal.cpp` under the executor of `NativeOkEmuModule.kt`, with
`pressesDrained` of `OkEmu.ts`.

| variable | code |
|---|---|
| `calls`, `waits` | the executor's queue; what each caller awaits |
| `hid_in`, `vendor_pushed`, `vendor_taken`, `ticket` | the HAL's report queue, its two counters, the running write's ticket |
| `digits` | the press queue, with whose presses they are |
| `g_running`, `fwAlive` | the JNI flag; the firmware thread before a CPU restart unwinds it |
| `inTime`, `overtaken`, `toldWrong` | history |

A write that ran out of its second is not counted as in time: `ReportsComeFirst`
speaks of the others. Reports a flush drops are lost and their writes told they
were taken, as a report lost on a real key's wire would be. A stopped key reports
no pending presses, so a waiting `pressQueue` resolves although presses remain
(a stop does not clear the queue, see the limits of the press paths); `DrainedIsTaken` speaks of a key that runs. After a CPU restart
`g_running` stays true, and writes queue up until they give up.

### The phone's copy of the chain

`EdgeStore` - `edgeStore.ts`. As in `EdgeChain`, a head stands for the history it
pins; here a history is a sequence of four kinds of link: the key's first history,
one linked after its flash was put back, a record edited in place, and a record
that never was a link.

| variable | code |
|---|---|
| `log`, `oldest`, `era` | the key: its links, the first it still holds for pickup, which history it adds to |
| `stored`, `inMemory`, `storedText` | the text in AsyncStorage, the copy in memory, the text last read or written |
| `verifiedNow`, `answer` | what this session verified; the chain state's last answer |
| `asked`, `at`, `job` | the queue of jobs, where the running sync and an offer's check stand, their locals |
| `edits`, `unread`, `crossed`, `firstHead`, `lastHead`, `signed`, `alarm`, `slipped` | history |

Every read of the key and every load and save is a step of its own; between them
the key links, loses its ring, is put back to an earlier state, the stored text is
edited, a computer offers links, the person presses Sync, the app restarts. The
library's `assess` is external and modelled by what it compares: the records that
genesis or the head reaches, `lastSeen` and the checkpoint. The code compares the
records a session verified by object identity; `tag` says whose object a record is.

Three things to know of the code that its comments do not say, none a finding:
the quick check of new links starts at the copy's last link, so `lastSeen` is
compared in full checks only (`LastSeenHolds` says what that leaves); an offer's check runs
beside the queue of jobs; and an edit of the stored text is written over unread
when the memory was forgotten while a job ran, or when it comes between the look of
a save and its write. `EditsAreSeen` shows that a copy read across a save (finding
7) is the only other way: `base` is the copy a job began with, and a save that
passes its look finds that copy stored.

### The agents' asks

`EdgeAgents` - `edgeAgents.ts`: what the bridge keeps of a computer's messages for the
app to answer. Messages are handled one at a time; a second ask is refused as busy.

| variable | code |
|---|---|
| `messages`, `inFlight` | the promise chain `queue`; `inFlight` |
| `doing`, `result` | where `handle()` is (gates, prepares, asks, verifies, presses, keeps, finally), and what it will return |
| `seenKept`, `seenNow` | the nonces in AsyncStorage; the running handler's set |
| `sheet` | `current`, with the ask it belongs to |
| `told` | what each computer was told |
| `shown`, `forgotten`, `askedAgain`, `spoiled` | history |

Any await may throw; what throws goes through `finally`, where `saveSeen` may throw
too, to the catch of `handleEdgeMessage`. The library's `approveRequest` is external
(nonce, person, copy, key, in that order, as edgeSoftKey.ts:669-681 has it). A sync
message is one step: it is answered or it throws. Notes are not modelled: they wait
for nothing and change none of this.

`spoiled` names what the catch does to sheets that are not the failing message's:
a later sync that throws turns "Budget 5 is open" into "the phone failed", and a
sheet that timed out into one that did not, so that the next ask is shown although
nobody has come (edgeAgents.ts:84-86 says that a time-out stays open until someone
closes it). `SheetTellsTheAnswer` shows that this is the only way the sheet and the
answer come apart. A blocked ask that nobody answers is told `copy_unverified`, so
it does not keep new ones away either.


## 3. What is checked

A property that a run checks is broken by a mutant: a change of one definition
such as a bug in that code would make. The mutants stand in the modules beside
the definition they change, named `Mutant...`, and are used by no run.

| run | shows | bounds |
|---|---|---|
| `EdgeKeyBudgets` | starts, runs a budget pays for, fulfilled budgets, announced uses, verified heads, lifetimes, budgets in RAM agree with the chain, a settle ends all, and the refinement of `EdgeLedger` | one of three (`Cases` in `MCEdgeBudgets`): a budget of two uses, six links, three ticks; the same with two requests that differ in their message and a core that may ask for no press, four links; two slots, budgets of one scope and of two, four links |
| `EdgeKeyRestore` | debt through restores, one history per device id, pickup has no gap and a link stays in it until the ring is filled with newer ones, no wide budget opens | two salts, a backup at length 2, ring of two; derived and plain codes, a label, grants of which some must be refused, loss reports; three links, two ticks |
| `EdgeKeyWrap` | violated: finding 1 | the clock wraps at 3 |
| `EdgeRecordWipe` | violated: finding 2 | six saves, crash anywhere |
| `TouchRecord` | holds stay apart and handed presses are served once and in order, until presses cross; a queued press is served in the end; a save is atomic; reports come before the presses that answer them, a drained run is taken, every call ends; a nonce is asked once unless the phone lost it, the sheet says what the agent was told, every ask ends | of two holds of four or five samples on the first and last pad, threshold 2, and three queued presses over two slots any four; `payload()` and requests take any time; a stop and the thread's end anywhere. Six saves, so each sector is rewritten three times, crash anywhere. Two callers, three calls, three press slots, a stop and a CPU restart anywhere. Three messages of two nonces, of which one is kept, or two and a restart of the app |
| `TouchMerge` | violated: finding 3 | two holds, nothing queued |
| `Phone` | what is acked is stored, what is revoked stays gone, a session's secret is stored first and no older one serves again, only a late hello outlives its pairing; the copy: what passes is the key's, its last seen head holds and edits are seen, but for a copy read across a save, no false alarm, ok means signed, no foreign link is taken | one user, two secrets (paired twice, or renewed once), three days, two saves in flight (under the bounds below), Keystore that opens or not. Ring of two, batches of two, a key of no link or four: three of two syncs, one more link and an event; a key of no link or one: two syncs, two events |
| `GateLate` | violated: finding 4 | one user, no renewal |
| `BridgeQueue` | the bridge's books agree with the lane's, writes stay inside the hold, leaks have a reason, the app gets the key; the ring is a first-in first-out queue | one computer, a plugged-in key and the soft key, any three of two writes, a conversation of the app and a change of door, target, key or a stop; or a computer that writes for ever, one report at a time, the soft key active first, a conversation and a turn. Three slots, runs that overfill them, junk in a run |
| `BridgeLeak` | violated: finding 5 | one plugged-in key, two writes |
| `EdgeStoreCrossing` | violated: finding 7 | a key of one link that adds none, two syncs, two events |
| `EdgeStoreRollback` | violated: finding 6 | a key of one link that adds one, two syncs |

Why the bounds are enough. The rules of the chain relate a link to at most three
earlier ones (a grant, its hold or use, the receipt), so six links hold every
pattern twice. Two ticks separate "in the window" from "expired" with a window of
0 (the clock of `EdgeKeyBudgets` goes to 3, so a budget that lives one tick also expires). The real sizes (4 budgets, 4 scopes, 1024 uses, a ring of 8) are CONSTANTS,
and the theorems hold for all of them. `MaxLinks`, `MaxNow`, `MaxSalts`,
`BackupAt`, `MaxGen` are bounds of the checking alone, in the guards that name
them; in `EdgeKey` a chain that is full stops growing and only a restart, wipe or
restore goes on, so its runs keep deadlock checking on. The bounded presses of
`TouchSense`, pairings of `BtGate`, syncs of `EdgeStore`,
calls of `HalPipe` and messages of `EdgeAgents` do come to rest, and so does the bridge
when no computer writes: their runs say `CHECK_DEADLOCK FALSE`.

Holds, runs and requests of `TouchSense` meet in any order, and none is begun once four holds and presses are
(`MaxBegun` in `MCTouchSense`). What was begun before a crossing goes on after it, but
nothing new is begun then (`Begun`): `HoldsStayApart` and `HandedIsServed` promise nothing
any more, and the presses under way go on to the end for `QueueIsServed`.

Some runs hold several components that share nothing (`MCTouchRecord`, `MCPhone`,
`MCBridgeQueue`): their variable `part` is chosen at the start and says which of
them moves, so that the run is the union of the components' runs. Each property
there speaks of one component and is checked in every behaviour of that one.

For the newer components: the bridge has a plugged-in key, whose writes may fail,
and the soft key, which is the only one `isKeyWaiting` sees; two writes are the
least that take the echo of one for the echo of another, and every content asks
for a press, so an expired timer always has a reason to be armed again. The
phone's copy begins at a key with four links and a ring of two, or at a fresh key:
a read in batches of two over such a ring leaves a gap with an island behind it,
which is the one case where a check does not reach every record. Two syncs and
one event put each event inside one sync, between two, and before both; of these
and one new link any three happen (`MaxMoves`), and all of two syncs and two
events on a key of one link or none that adds no more (`CopyBound` in `MCPhone`). The pipe
has three calls of two callers over three press slots: two runs of presses do not
fit, so a run is refused in part. Three messages of two nonces, one of them kept, are
the least that ask, fail or push a nonce out, and ask again; with a restart of the
app between them it is two (`MaxHappened`). The gate moves under one of three bounds
(`Bound` in `MCPhone`): saves overlap while the pairing window opens and closes, on
one day; days pass, and the window may fail or time out, with one save at a time;
saves overlap over three days while one pairing is renewed. The bridge moves under
one of two bounds: any three of two writes, a conversation of the app and a turn
(`MaxWrites` and `MaxDone` in `MCBridgeQueue`); or writes that never end, which is what
`AppGetsTheKey` is about - one report under way at a time (`OneAtATime`) already puts
the timer off for ever.

### Findings

1. *An expired budget comes back* (`EdgeKeyWrap`). `alive()` compares
   `(uint32_t)(millis() - opened)` with the life, and nothing clears a budget
   that expired. After 2^32 ms (49.7 days) without a restart the difference is
   small again and the budget pays. The comment above it says an expired budget
   is "simply gone: it pays for nothing".
2. *A wipe may leave the older record* (`EdgeRecordWipe`). The wipe erases sector
   A, then B. When the newest record is in A and the process dies in between, the
   next start loads the superseded one from B.
3. *A hold merges with the next* (`TouchMerge`). `settleRelease` returns at its deadline, and
   its comment (OkEmu.ts:398-406) says that nothing is lost by that, as the
   press that follows cannot merge into this one. It has a long `payload()` in mind, whose
   press has ended. But the loop may be away for a host's request between a hold's
   last sample and its third idle round, for what is left of the hold's ten seconds: then the press has not ended, the next hold is
   armed, and the two become one press of their summed length.
4. *A late session* (`GateLate`). `onHello` makes the session after its save, with
   no second look: a pairing switched off or revoked meanwhile has one all the
   same. `OnlyALateHelloOutlives` shows that it is the only way.
5. *The app's answer goes to a computer* (`BridgeLeak`). A write to a plugged-in key
   emits its echo when the awaited native write has resolved, and the key's reports
   are events of their own. An answer that overtakes the echo of the app's request
   finds the computer that spoke before still the owner of the conversation. A
   failed write of a computer is a second way: its content stays in the list of
   echoes to come, and the app's next equal request passes for it.
6. *A rollback past a second try* (`EdgeStoreRollback`). When a link lands between
   the first read of the head and the signed one, `liveView` verifies the copy against
   the newer head; `syncNow` then saves the older head it read first as `lastSeen`.
   A key put back to that head passes the next sync.
7. *A load across a save* (`EdgeStoreCrossing`). `loadMirror` has callers outside the
   sync queue, and the Sync button may forget the memory in the middle of a save. A
   load that read the stored text before the save wrote it, and sets the memory after
   the save did, leaves the older copy in memory and the newer text in `storedText`:
   the next sync checks the key against the older `lastSeen`, and its save writes
   over the newer copy unseen. The model has it as a load between the look and the
   write of a save; `crossed` remembers it.

Limits of the press paths. Two more crossings go against no comment, so they are no findings. A
press handed over while a hold is sensed is cleared by the next touched round, and a hold
armed while the loop holds a queued press clears that one. And a hold whose poll fails
leaves its samples owed, and the next is armed on top of them. `HandedIsServed`
and `HoldsStayApart` say that these, and finding 3, are the only ways. A hold
may also be one sample short, when it is armed after its pad was read in the round that
ages it; `HoldsStayApart` allows for that. Nor does a stop clear the queue:
`okemu_press_clear` has no caller, though its header says that it is used on stop
(okemu_press.h:91), and the firmware thread that a stop leaves running takes what is there.


## 4. What is proved

`EdgeKeyProofs`, for all values of the constants that satisfy the named
assumptions of `EdgeKey`:

* `TypeCorrect` - `Spec => []TypeOK`.
* `DebtIsExact` - the debt in RAM, on flash and in a backup is the one unpaid use
  of the chain it came with.
* `NothingStartsUnpaid` - between a use and the next use, budget opening or resume
  stands its receipt.

The last two are one argument. Neither is inductive alone: after a crash RAM is
the flash, and after a restore it is the backup, so all three copies must satisfy
both. `DebtInv` says so: `disk = st`, and `DebtIs` and `StartsPaid` of the record
and of the backup. The step that matters is the weld: lemmas say what appending
each kind of link does to the set of unpaid uses, and that a start appended when
that set is empty keeps `StartsPaid`. All other actions leave the record alone or
copy one of the three.

The chain part of `EdgeKeyProofs` rests on one lemma, `StepLinks`: every step leaves the record,
adds one link on the same device, draws a salt no chain had, or leaves the device
with no salt. From it and `DebtInv` (a restart loads what RAM held) follow
`OneHistory` (`NoSecondHistory`) and `OpeningIsVerified` (`OpensOnVerifiedHead`).
`RunIsRecorded` (`FreeRunIsRecorded`) is inductive with `DebtInv`: the step to "running" with a
budget named passes `SpendBudget`, whose link is then the last of both copies, and
owed. It says nothing of an operation no budget pays, which has nothing to link.

`EdgeRecordProofs`, for any number of saves and any values: `RecordIsWellFormed`
(`SectorsAgree`, which is inductive with the types) and, from it,
`RecordIsDurable`: the refinement of `DurableCell`, one step per action.

`UsesAreAnnounced` (`UseWasAnnounced`) rests on `AnnounceInv`: while a request waits,
the firmware waits for its sign, no settle is under way, and a budget that is to pay
for it stands on the head of the TX start, with only holds and ends since. That no
settle is under way is the part the property does not show: a settle links a receipt,
and a use after it would stand on a head nobody announced. `PickupIsGapless`
(`PickupHasNoGap`) rests on `RingInv`: the ring holds exactly the links from some `lo`
on, and a chain that was restored or loaded and not yet continued may hold none; the
lemma `StepKeepsHeld` adds that a link leaves the ring only when the one `Held` after it
comes, so all of the last `Held` since boot can be picked up.

`EdgeKeyLedgerProofs`: the budgets in RAM, and the refinement of `EdgeLedger`.

* `BudgetsAreTheChains` (`BudgetsMatchChain`) and `LedgerIsKept` (`LedgerKept`) are
  one argument, `LedgerInv`: besides the match, every link names a grant at its own
  place or before it (so that a new grant is of no earlier link), in the backup too; a press
  that waits for a grant counts its uses as the scopes do; a settle has a debt.
  The step that matters is again the weld: what each kind of link does to the set of
  a grant's uses, to its being open and on hold. The uses of a budget are the
  sum over its scopes; `SumCaps` and its like are recursive functions, and what is needed
  of them (a longer sequence adds its last, no term is above the sum) is proved by
  the least length at which it would fail.
* `BudgetsAreNarrow` (`OnlyNarrowBudgetsOpen`), with `NarrowInv`: the log, the backup
  and the scopes of the press that waits are narrow.
* `FulfilledBudgetsDoEnd`, `SettleDoesEndThem` and `LifetimesAreKept`
  (`FulfilledBudgetsEnd`, `SettleEndsEveryBudget`, `LifetimeIsKept`) assume `NoWrap`:
  the clock of one boot stays below `Wrap`. The code does not assure it - it is
  2^32 ms, 49.7 days without a restart - and without it they are false, since a budget
  that died is alive again (finding 1). The invariant `LifeInv` says that
  every budget was opened in the past of this boot, that with nothing owed a fulfilled one is
  alive only while `complete_fulfilled` ends it, and that every budget alive opened after the last settle.

`EdgeAgentsProofs`, for any messages, restarts and number of nonces kept:
`NoncesAreAskedOnce` (`NonceAskedOnce`) and `SheetSaysWhatWasTold`
(`SheetTellsTheAnswer`). `NonceInv` follows a nonce through the phone: one that was
shown is in the store, in the running handler's set, or among those the history names
as forgotten; `SheetInv` says at each place of `handle()` which message's sheet may
be there, and in which stage. `Queued`: the messages are the ones sent, each once.

`BtGateProofs`, for any users, addresses, secrets, days and saves under way:
`SessionsOutliveOnlyByALateHello` (`OnlyALateHelloOutlives`), `SessionsAreStored`
(`SessionSecretIsStored`), `AcksArePaired` (`AckMeansPaired`) and `RevokesHold`
(`RevokedStaysGone`) are one argument: what a session, an ack and a report rely on is
a condition on the records, `Fits`, and it holds of memory, of the store and of every
snapshot still to be stored - else a save that was begun earlier would undo it
(`Kept`). Before it was followed up the handler that waits has it from its own save
on (`WaitingKept`); saves end in order (`InOrder`), so when it is followed up none from before is left.
Each action that changes memory either lets a record grow (`GrownClaims`: a hello, a
renewal, switching on) or replaces it (`ReplacedClaims`: drop, revoke, CONFIRM,
switching off), and then whoever relied on the old one raced or was taken back. `Owned`
is needed for a restart and a revoke: a pairing belongs to one user, wherever it is stored.


`NoOlderSecretServes` (`NoOlderSecretAgain`) follows the secrets of each pairing
instead (`SecretsInv`). Every record that may come back - in memory, in the store, in a
snapshot still to be stored - of a pairing that did not race has reached the newest
secret a session was made with (`RipeInv`); records stand in the order the saves
were begun in, and so do the hellos that wait (`QueueInv`), so a session made later never has an
older secret; what a session offers as renewal is newer than all its pairing has
(`OfferInv`). Secrets only grow, which is why a snapshot begun later holds the newer one.

`SoftKeyProofs`: the three ways to the soft key.

* `RingAlwaysOK` (`RingOK`, inductive as it stands) and `RingIsFifo`: for every capacity
  and every run, junk included, the ring refines `PressFifo`, one step per action.
* `HoldsDoStayApart` (`HoldsStayApart`) and `HandedAreServed` (`HandedIsServed`), for
  holds, runs, requests, failures, a stop and the thread's end in any order. The assumptions on the constants are
  `HoldsAssumption` (a hold exceeds the threshold by two: one short, and read late by
  one sample, it would be no press; the app's shortest is a tap of ten) and
  `RoundsAssumption` (three rounds of release or more). The invariant `TouchInv` says
  that while nothing crossed the world is either `Free` - every hold was served and what the loop
  has is from the queue - or `InProgress`: the app waits for one hold, nothing is queued
  beside it, and the hold is `Held` (its samples are owed or
  counted, and none is lost but the one of the round it was armed in) or `Ending` (all
  counted; fewer than three idle rounds, and no more than that counted by
  `settleRelease`, which therefore still waits). Each of the three crossings leaves these
  cases, and nothing else does. `IdleClock` is needed in `Arm`: no round counted for one hold is
  counted for the next.
* `ReportsDoComeFirst` (`ReportsComeFirst`) and `DrainedAreTaken` (`DrainedIsTaken`).
  `PipeInv`: calls and reports are numbered, each number in at most one place but the
  write that waits with its report (`WrittenOnce`); the two counters tell how many
  vendor reports wait (`Counted`: pushed is taken and waiting), so a ticket is passed
  only when its own report is gone, although FIDO reports jump the queue.

`EdgeStoreProofs`: the phone's copy, for any ring and batch size, any length the key
may have at first (`BoundsAssumption`; `NilAssumption` only says that `Nil` is no
value of the model) and any bounds. Six invariants, each inductive with those before it.

* Types (`ESType`): a copy reaches no further than the key's links, and two per event.
* `MemoryInv` (`LastSeenDoesHold`, `EditsWereSeen`): unless the stored copy was once
  read across a save, memory is the stored text but while a save is written, a job that
  was not made to forget began with that text, and `lastSeen` is the head of
  the last sync that passed, wherever it stands - memory, store, job.
* `CheckInv` (`PassedWasTheKeys`, `OnlyTheKeysGetIn`): what this session verified is
  the head's, by verdict - all of it, or all but what lies between gaps - so the short
  paths, which compare only what is new, pass what the full check would. An offer's
  links are in the copy it was checked with, so links taken from it are the key's.
* `HeadInv` (`OkWasSigned`): every head a job holds is the log's past, or of the
  key's first history; so two heads that agree at one link agree before it (`SamePast`),
  which is why the checkpoint of a second try vouches for the saved head of the first. A
  signature reaches a verdict along the short paths (`CleanSigned`).
* `TagInv` and `GrowInv` (`AlarmsAreTrue`). While nothing is edited and the
  key only grows every copy, head and checkpoint is the log's or a shorter one's, and the
  head a check compares with is never older than the copy it read - so `evaluateWith`
  cannot end `tampered` (`FitsNotTampered`). The one copy that may not fit is an offer's; it does end
  `tampered` and is remembered so, and a sync could answer with that verdict by
  `Skips`. Only the identity of its records prevents it, which is what `TagInv` follows:
  records an offer brought are nobody else's until it is taken.

`VendorBridgeProofs`, for any computers, keys, requests, conversations, turns and
timers' callbacks (`NamesAssumption` only keeps the names apart):

* `BooksAgree` (`HoldAgrees`) and `WritesStayInside` (`WritesInsideTheHold`). `HoldInv`
  adds to the first that reports wait exactly while a hold is wanted (so
  a turn of the lane never forwards nothing), and that the app has its turn only
  in a lane that runs it. `InsideInv` says what the second needs of every turn between: while
  the active key stays, the hold, the bridge's place in a lane, the listeners and every
  report that waits are that key's.
* `LeaksAreExplained` (`LeaksHaveAReason`), with `AskInv` (the app has at most one place
  in a lane, while it asks for it) and `PipeInv`, which follows a request of the app
  through the pipe: its echo is still to come, or it is `Settled` - nothing that
  happens later lets its answer go to a computer without one of the reasons - and an answer that did
  not overtake its echo has it before it on the way to the app (`Behind`). That being settled
  lasts is the heart of it (`SettledStays`): only a computer's write makes a computer
  the owner, and while the app has the lane such a write strays (`OwnerMoves`), or
  the conversation is another by then (`Past`: conversations are numbered).
  What one write hands to the keys is recursive (`SentTo`); that it hands over nothing
  but its own reports is proved by the least counterexample.

Four corrections of the models came from these proofs. `VendorBridge` took every
request of the app for one of its latest conversation; with two conversations on two keys
an answer would have counted as late that is not, and a late one as in time. `conv`
says which conversation each key's is. `EdgeStore` promised that
`lastSeen` holds, and the first attempt at `MemoryInv` failed at `mergeOffered`: with
the memory forgotten a load may run across a save, and the memory then holds the older
copy as if it were the stored one (finding 7). `crossed` marks those behaviours, and
the two properties except them. `BtGate`'s history took a
pairing back only at its own ack; a CONFIRM that is repeated, with
another pairing or a revoke between, made the first ack look like a promise
broken (three saves at a time show it). Now `Superseded` marks the handlers that
wait (`holds`), and a renewal a late session makes for the user's next pairing counts
as raced. And `EdgeLedger` promised that a loss is reported over a range of the chain;
it was checked when asked for, and a restore before the press may put a shorter chain there
(okplugin_edge.cpp:1385-1396 checks, 995-1000 links).

## 5. What is only model-checked, what is not modelled

Only checked: liveness and ENABLED, which are out of the provers' reach (`QueueIsServed`,
`AppGetsTheKey`, `CallsEnd`, `AsksEnd`). Every invariant and every action property of a
run that passes, and every refinement, is a theorem. What a recursive function computes is
proved only where an argument by the least counterexample does it (the sums of
`EdgeKeyLedgerProofs`, `SentTo`), by well-foundedness of the naturals; the induction
theorems of the library take an operator and no prover here can use them.

Liveness. `QueueIsServed`, under `TSFair`: every press that waits is taken and the loop
comes clear, or the firmware thread ends. While it lives, its scheduler
is a loop that comes to the sense task between reports
(strong fairness of the round's two steps: a report can disable them again and
again, and the queue's mutex is held by callers for short runs only); a thread that has
ended takes no step, and the fairness asks none of it. `payload()`
and the serving of a report end, in the loop or in a CPU restart (weak fairness of
`BackToLoop \/ Unwinds`), and a caller's run is stored to its end (weak fairness of
`QueueStep`). No fairness is given to the app. A press still queued when the thread ends
stays there.

`AppGetsTheKey` (`UrgentGetsTheKey` and `QuietlyGetsTheKey`), under `VBFair`. The release timer is fair only
where it is left alone: a write or a report arms it again, so either that happens for ever or
the timer fires (`Rearms`). Its awaited question is answered, the lane turns, a write
is echoed and answered, events arrive, a waiting press ends at the firmware's
time-out (weak fairness of each, by key). Nothing makes a computer write, or stop. A
person's Hold or Revoke is urgent and gets its turn however a computer
writes, because its next request lets it in - unless the active key changes under the hold. An
ordinary conversation of the app has no such right: a computer that never pauses for as
long as the release takes keeps the key from it for ever, so `QuietlyGetsTheKey` is
promised once computers are `Quiet`.

`CallsEnd`, under `HPFair`: the executor makes its calls and its waits have
deadlines, and each caller's poll goes on. Nothing is owed by the firmware thread,
which may be dead.

`AsksEnd`, under `EAFair`: awaits end, by an answer, a failure or a time-out of their
own (the transport's, the library's 30 s), and JavaScript timers fire. Nothing is owed by
the person.

The Edge plugin
promises none: it acts only when a host or a person does, and neither owes it a
next step. The gate answers hellos only; a computer that hears nothing asks again,
and that computer is not in this repository. A sync of `EdgeStore` ends when the key
answers or its read fails, which is the transport's promise.

Not modelled in the Edge plugin: the bytes of a message and a link, the
signatures over statements, reveals, and the wipe of a debug build. The components
listed `not_modelled` in `PROJECT.json` each carry their reason.

## 6. Plan

1. Done: chain, ledger, key, record; press queue, counted holds, the pipe to the soft
   key; Bluetooth gate; vendor bridge; the phone's copy of the chain; the agents' asks.
   All their safety properties are proved.
2. Proofs: none is left of what the passing runs check but liveness.
3. Models still to write: `handleSync` with its staged parts over `EdgeStore`, the
   press sheet over the key's press record (a record may arrive after the wait it
   belongs to has ended: a press confirms only what was shown), the FIDO bridge (`fidoBridge.ts`), GATT
   notifications, framing, the key session, USB, the soft key's start.
