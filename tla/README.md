# Verification of the basic_kernel_modules drivers

The repository holds small Linux drivers, most of them character devices.
This directory holds TLA+ models of them, TLC runs over small instances, and
TLAPS proofs for every instance.

## 1. The system

Each directory of `src/` is a loadable module of its own. The modules do not
call each other; what is concurrent in each one is the tasks that have its
device open, the interrupts and timers of the kernel, and `insmod`/`rmmod`.

| part | source | state | operations | what is hard |
|---|---|---|---|---|
| poll device | `rw_poll_module_1/poll.c` | ring `rbuf` with `ir`, `iw`; `use_count`; semaphore, spinlock, two wait queues | open, release, read, write, poll, init, exit | sleeping and waking without a lock around the tests; torn loads; signals; index wrap; promises of poll |
| hello timer | `timer_wq_ioctl_module_2/helloplus.c` | `secs2hello`, `my_timer` | handler, GET_DELAY, SET_DELAY, open, release, init, cleanup | handler against SET_DELAY, two SET_DELAYs, unload |
| blinking LEDs | `timer_wq_ioctl_module_2/blinkplus.c` | `selected_led`, `kbledstatus`, `cur_expire_jiffies`, `my_timer` | handler, SETLED, SETINV, GETINV, open, init, cleanup | two-step SETLED against the handler, overflow, unload |
| mmap device | `mmap_module_3/mmap_kmalloc.c` | two buffers, the reserved marks of their pages, `virt_addr`, the mmap operation, `read_flag` | open, release, mmap, proc read, init, cleanup | state shared by all open files; order of init and cleanup |
| simple device | `simple_driver_module_0/simple.c` | `kbuffer`, `use_count` | open, release, read, write, ioctl, init, exit | unlocked count, failures of init |
| rtl8139 | `pci-rtl_8139/Phase-II/*` | `cur_tx`, `dirty_tx`, `cur_rx`, the queue's state | start_xmit, interrupt, open, stop | ring of four with one test for full and empty; receive wrap |
| rtl8139 probe | `pci-rtl_8139/Phase-I/pci_template.c` | resources of the PCI device | probe, remove | the error ladder |
| rtl8150 | `realtek_8150_usb/Phase-I/usb_template.c`, `Phase-II/*` | netdev, urbs and their skbs | probe, disconnect, open, close, start_xmit, urb callbacks, reset | ownership of skbs over callbacks; probe's result; reset time-out; failing submits |

What should make each correct, and what does not hold of the code:

* poll device: a first-in first-out queue of bytes that loses, repeats and
  overwrites nothing; no lost wakeup; what poll promises holds for the only
  reader or writer; the ring is reset only while nobody uses it. A full ring is
  not always seen (`poll_full`), and the count of users can be wrong when one
  comes early (`poll_early`).
* hello timer, LEDs: the timer is never misused nor lost; a setting comes into
  force; nothing is left after unloading. The first needs users that take turns
  (`hello_race`), the last an unloading that meets no handler (`blink_unload`).
* mmap device: the buffer outlives its users; pages stay reserved while they are
  mapped; a file maps the area of its minor number; a failed load leaves nothing
  behind. Pages do lose their mark when two loops meet or another file is
  released, and a load that fails for want of memory leaves a device behind.
* simple device: the buffer outlives its users; a failed load returns what it
  had, but for the buffer; the count is wrong by no more than the updates that
  were overtaken.
* rtl8139: a descriptor is reused only when its packet is out; the queue does
  not stall; the receive index follows the hardware's. This holds on one
  processor (`nic_smp`), for a ring opened in step, up to a packet that ends
  exactly at the end of the receive ring.
* rtl8150: the one urb is never in flight twice and no skb is freed twice; a
  stopped queue is enabled again. A packet that failed is never freed, the
  carrier stops following the link after a failed submit (`usb_link`), and a
  device that goes away does not return its net device (`usb_disconnect`).

Modelled whole are the poll device, both timer modules, the simple device and
the mmap device. Modelled in part are rtl8139 and rtl8150, whose files are
exercises with blanks in them. Section 5 says what is not modelled.

## 2. Modules

| module | what it is |
|---|---|
| `ByteQueue` | abstract specification of the poll device: a bounded queue of bytes |
| `PollDevice` | `poll.c`, with the scheduler, signals, semaphore and poll core around it |
| `PollProperties` | its properties, the refinement mapping to `ByteQueue`, its fairness |
| `PollDeviceInv` | its inductive invariant `IndInv` |
| `PollDeviceProofs` | its types, exclusion, count and wakeups, proved |
| `PollPromiseProofs` | what one reader or one writer is promised, and the refinement of `ByteQueue`, proved |
| `MCPollDevice` | symmetry for TLC |
| `KernelTimer` | the kernel's `timer_list` as the two timer modules use it (external) |
| `HelloTimer`, `HelloProperties`, `HelloProofs` | `helloplus.c` |
| `BlinkConstants`, `BlinkTimer`, `BlinkProperties`, `BlinkProofs` | `blinkplus.c`; its numbers and LEDs apart, for `MCDrivers` |
| `SimpleDevice`, `SimpleProperties`, `SimpleProofs` | `simple.c` |
| `MmapDevice`, `MmapProperties`, `MmapProofs` | `mmap_kmalloc.c` |
| `TransmitQueue` | abstract specification of a transmit ring with its card: packets in order, and flow control |
| `Rtl8139`, `NicProperties`, `NicProofs` | `pci-rtl_8139/Phase-II` and the card; the refinement mapping to `TransmitQueue` |
| `Rtl8150`, `UsbProperties` | `realtek_8150_usb`, both phases |
| `MCDrivers` | all drivers but the poll device in one run |
| `DriverProofs` | proofs about `Rtl8150` and about that run |

Definitions whose comment begins with "Mutated" are plausible bugs: a property
is worth stating if it catches one.

### PollDevice

`rbuf`, `ir`, `iw`, `use_count`, `lock` and `sema` are the variables of the C
file (`lock` holds its holder's name). `waitq` are the members of `qin` and
`qout`, `state` a task's scheduler state, `sig` its `signal_pending`. `pc` says
where a task is in its call; `op`, `len`, `i`, `ih` are the call and its locals.

A step is what another processor can see:

* A test of the buffer is two loads of `ir` and `iw`, in either order, by
  `LoadFirst` and by the action of the test. No lock covers them (`device_poll`
  takes `lock`, which read and write do not take), so other tasks move between
  the two. This is the data race of the code, and the model takes every outcome.
* `TryNonblock`, `CheckLoop`, `PrepareToSleep`, `Recheck`, `Schedule` are the
  statements of the wait loop. `schedule()` comes back when the task was woken
  or a signal is pending.
* `Down`, `DownInterrupted`, `ReadByte`, `WriteByte`, `WrapIndex`, `Up`,
  `WakeOther` are the copy under the semaphore. An index is `N` for a moment
  before `WrapIndex`. `down_interruptible` takes a free semaphore even when a
  signal is pending.
* `PollWait`, `PollLock`, `PollIn`, `PollOut` are `device_poll`; `PollDecide`,
  `PollWoken`, `PollTimeout` the poll core that calls it in a loop.
* `Insmod`, `InitUseCount`, `Rmmod`, `DeviceOpen`, `DeviceRelease` are the rest.
  Under the spinlock open's `ir=iw=0` is one step; nothing else runs on the ring
  while no file is open.

Local statements are joined to the step before them (the comparison and
`add_wait_queue`; leaving the loop and `remove_wait_queue`; `ih` with `down`).
A `put_user` or `get_user` that faults still moves the index, because the result
is not looked at; only the byte differs, and bytes are chosen freely anyway.
Each task has one file; signals are sent to tasks in calls. `last` is a history
variable, the byte read last.

### KernelTimer, HelloTimer, BlinkTimer

A timer is initialised or not, pending or not, and its handler is idle or at a
step; a timer never runs twice at once, which the kernel guarantees. `del_timer`
does not wait for a running handler, `del_timer_sync` does. Time is left out: a
pending timer may expire at any moment, and `expires` holds the delay it was
computed from. `oops` stops the model where the kernel would stop on a BUG
(`add_timer` of a pending timer) or on a timer never initialised.

In `HelloTimer` a step of SET_DELAY or of the handler is a statement that reads
or writes what another one uses. A `copy_from_user` that fails may have zeroed
`secs2hello`. In `BlinkTimer` a value of `selected_led` is the set of its bits,
with one element, "high", for all bits above the LEDs: KDSETLED looks at no more
than that. SETLED is the two stores of the source or, as a compiler may have it,
one. SETINV converts to an int of the width `IntMax` gives.

`KernelTimer` declares what both timer modules take (`Users`, `HotUnload`).
Constants that are conditions on the surroundings:

* `EarlyOpen`: is the device opened before its init function has ended? The
  kernel permits it once `cdev_add` has run, through a node that an earlier load
  left, or that udev makes while init still runs (`helloplus.c:171`).
* `TakeTurns`: do users keep their SET_DELAYs apart? The module does not.
* `HotUnload`: may `del_timer` of the cleanup meet a running handler? On one
  processor it cannot, on several it can.

### SimpleDevice

`simple` is the place in `simple_init` or `simple_exit`; `owns` is the set of
what the module has allocated or registered. `Buffer`, `Region`, `Cdev` and
`Class` are the four steps of init, each with its failure; `FreeBuffer`,
`Unregister` and `Destroy` are exit, which frees the buffer before it takes the
device away. `LoadCount` and `StoreCount` are the load and the store of
`use_count++` and `use_count--`, which take no lock. A store that comes between
another update's load and store makes that update wrong by one; `overtaken` is a
history variable that counts such stores, and `MaxDrift` bounds it: beyond it
updates overlap no more. What the count means is left open by the code: line 170
prints it as the number of opens since loading, line 180 takes releases off.
`Copy` begins and ends a read, a write or an ioctl: what matters of it is that
the buffer is used in between. The length, which lines 189 and 194 do not check
against the 100 bytes of the buffer, is taken to fit.

### MmapDevice

`stage` is the place in init or cleanup, `kept` what the kernel holds for the
module, `area` the kmalloc buffer; `CreateProc` and `SetFlag` are two steps, as a
reader may come between lines 270 and 271. The loops of open and release are
`LoopTest`, `LoopPage`, `LoopLoad` and `LoopStore`. They share the global
`virt_addr`, whose `+= PAGE_SIZE` is a load and a store with no lock: `seen` is
what a file has loaded, and its store undoes what other loops stored since.
`reserved` are the pages they marked, whichever pages those are; `MaxAddr`
bounds `virt_addr`, because stale stores let two loops drive each other past the
area with no limit. `OpenEarly` is an open before
the buffer is allocated: the process is killed, and its file keeps the module in.
`Mmap` and `Munmap` are the user's mapping, `ReadProc` to `GiveUp` a reader of
the proc file with the shared `read_flag`. `overlapped` (two loops ran at once)
and `cut` (another file was released meanwhile) are history variables: the code
does lose marks then, and the properties say what holds otherwise. A single
minor number is registered, so the branches of the second one are never reached.

### Rtl8139

`cur_tx`, `dirty_tx`, `cur_rx` and `stopped` are the driver's; `tsd` are the
descriptors' status registers, `intr_status` the interrupt status register, `rxq` and
`cbr` the receive ring as the card has filled it. `start_xmit` is `CopyPacket`,
`Lock`, `WriteTsd`, `AdvanceCur`, `CheckFull`, `StopFull`; the handler is
`Interrupt`, the loop `TxTest`, `TxPending`, `TxStatus`, `TxWake`, then
`RxPacket`, `RxGarbage`, `RxDone`. The card is `Sent` and `Received`. `Cpus = 1`
keeps the handler out of the spinlock's section and everything else out of the
handler; with two they interleave freely, because the handler takes no lock.
`owed` (slots handed over and not taken back), `skew` (`cur_tx` at the last
open) and `lost` are history variables. `rtl8139_open` resets `dirty_tx` and not
`cur_tx`, and the model keeps that: a ring may be opened out of step.

The receive ring is measured in double words, the unit packets are aligned to.
Line 126 wraps only an address past the end; after a packet that ends exactly at
the end the driver looks for a header where there is none, and `RxGarbage` stops
the account of the ring until the next open.

Where a file says CODE HERE the model takes what the comment there says, if
other lines depend on it (writing the descriptor, enabling the queue), and
nothing otherwise. In `rtl8139_start_xmit` the comment opened at line 34 is
closed only at line 40, so that the write of the descriptor (lines 35 and 36)
stands inside it; `WriteTsd` takes it to be executed, which the rest of the
function assumes.

### Rtl8150

Two sides that share no state in this tree, because probe does not register the
net device. The USB side: `UsbInit`, `ProbeAlloc`, `ProbeRegisters`, `Unplug`,
`UsbExit`. The read of the registers has an `answer`: an error, no byte, or the
number of bytes read. Line 262 refuses every answer but "no byte", so that only
a device of which nothing was read is bound. Disconnect calls `kfree` on a
pointer into the net device: the net device is then "lost", or the kernel's
memory is "corrupt" and this side of the model stops (`Sound`). The
net side: `OpenUrbs`, `ReadLink`, `SetCarrier` (open and hardware_start),
`CloseQueue`, `Unlink`; `XmitStop` and `XmitSubmit`; `Written`, `FreeSkb`,
`Reenable` (write_bulk_callback); `IntrReport`, `IntrError`, `IntrResubmit`
(intr_callback), against a cable that changes when it likes. Submitting an urb
may fail: start_xmit looks at the result, intr_callback does not, and its urb is
then "lost" until the next open. An skb whose callback had an error is never
freed (`tx_skb = "left"`), as in the code. `rtl8150_close` has a blank below
"Unlink all urbs"; `Unlink` takes it to be `usb_kill_urb`, which waits for the
callbacks. An unlinking that does not wait is not modelled.

## 3. Runs

| run | instance | shows |
|---|---|---|
| `poll_pair` | a reader and a writer that both poll, N=3, lengths 0 and 2, blocking and O_NONBLOCK, signals to the writer; 1.3M states | `TypeOK`; with one reader a blocking read never returns empty-handed (`ReadDelivers`); what poll answered still holds at the call it was asked for (`PollInHolds`, `PollOutHolds`) |
| `poll_crowd` | two readers, with signals, and a writer, N=3; 356k states | `CopyExclusive`, `UseCountExact`, `NoLostWakeup` |
| `poll_queue` | a reader and a writer, N=4, two byte values, lengths 1 and 3; 631k states | `ImplementsByteQueue`: the ring refines the queue |
| `poll_live` | a reader that polls and a writer, N=3; 82k states | `ReadReturns`, `WriteReturns`, `PollReturns` |
| `drivers` | one of the simple device (3 tasks, `MaxDrift` 1), the mmap device (2 files with `MaxAddr` 3, or 2 readers), rtl8139 (4 descriptors, a receive ring of 5, packets of 2, one processor), rtl8150, the hello timer (2 users that take turns, 2 delays) and the LEDs (2 users, 2 LEDs, masks with and without high bits, an interval that overflows), no unloading under a running handler; 490k states | 27 properties of the six drivers, below |
| `poll_full` | writer and reader, N=3 | violation of `WriteDelivers` |
| `poll_early` | `EarlyOpen` | violation of `UseCountExact` |
| `hello_race` | `TakeTurns` false | violation of `NoOops` |
| `blink_unload` | `HotUnload` | violation of `BlinksUntilUnloaded` |
| `usb_link` | rtl8150 with its fairness; 12k states | violation of `CarrierFollows` |
| `usb_disconnect` | rtl8150 | violation of `DisconnectFrees` |
| `nic_smp` | rtl8139 with the handler on another processor, 4 descriptors, nothing received | violation of `SlotAvailable` |

Deadlock is checked in every passing run but `drivers`: users may always close
or call again. In `drivers` a driver whose loading fails, or that writes to
address 0, stops, and so does one that has damaged the kernel's memory.

The six drivers of `drivers` share no state, so the first state picks the one
that runs; the others stay in their initial state, where none of their fair
actions is enabled. The files and the proc readers of the mmap device meet only
in its loading and are run apart in the same way. The LEDs' module, whose names
are those of the hello timer, is an INSTANCE over variables of its own. What the
run shows:

* `BenchTypeOK`, `BlinkTypeOK`: the types of all six.
* Simple: `CopiesLiveBuffer`, although the buffer is freed before the device is
  taken away; `DriftBounded`, how wrong lost updates can make the count;
  `Unwound`, what each failure of init returns.
* Mmap: `BufferThere`; `StaysReserved`, `FreedUnmarked`, that the marks are right
  for files whose loops met no other and, while they are open, no other file's
  release; `OutIsClean`;
  `LoneReaderEnds`, that a reader left alone reaches its end-of-file.
* Rtl8139: `SlotAvailable`, `TakenBackOnce`, `WokenWhenFree`, `QueueWakes` for
  the transmit ring, where equal indices mean both empty and full;
  `NotForgotten`, that something is still to come for a stopped queue;
  `ImplementsTransmitQueue`, that driver, handler and card are together a queue
  under flow control; `LostOnlyAtEnd` for the receive ring.
* Rtl8150: `OneInFlight`, `QueueEnabled`, and `AnswerDue`, the reason for it.
* Hello timer: `NoOops`, `DelayInForce`, `TimerAlive`, `UnloadedQuiet`, under the
  conditions of the instance.
* LEDs: `BlinksUntilUnloaded`, `SteadyBlink` (of a selection left alone: the mask
  between the two stores of SETLED may be seen for a period before it) and
  `IntervalComes`.

**Bounds.** A ring of three slots is empty, partly full, full without being
noticed (`ir = 0`) and full and noticed, and both indices wrap; four slots let a
transfer of three bytes cross the wrap. Two readers are enough to take each
other's bytes and to wait for each other's semaphore; the properties that
mention more tasks are proved for all of them. Integers are bounded by the
ring and by the request lengths; `use_count` by the number of tasks. The timer
models have no counters. Three tasks let two updates of the simple device's
count meet while a third has it open, and one overtaking is enough to make it
wrong; `DriftBounded` is proved for any number of both. Two files let the loops
of the mmap device meet, and with `MaxAddr` 3 they run past the area; what is
said of the marks is proved without the bound. The code has four descriptors,
and so has the run. In a receive ring of five, packets of two end before, at and
behind its end; the proof is for all sizes. An interval of 2 seconds at 5 ticks
is above the largest int, 7, and wraps to a negative one. `Rtl8150` has no constants:
its run is complete.

**Disagreements found.** `buffer_full` does not see a full ring while `ir` is 0
(`poll.c:39`), so a blocking write returns 0; a write that does find room, and
the queue's order, are not affected. `use_count` is initialised after the device
is live (`poll.c:258`). SET_DELAY does not exclude itself (`helloplus.c:81`).
Both timer modules unload with `del_timer` (`blinkplus.c:179`,
`helloplus.c:194`). The handler of rtl8139 takes no lock, so on two processors
it can wake the queue of a full ring (`rtl8139_interrupt:90`), and start_xmit
overwrites a descriptor the card still has; and it can take packets back between
the advance of `cur_tx` and the test for a full ring, so that start_xmit stops
the queue of an empty ring that nothing will wake. intr_callback does not look
whether its urb could be submitted again (`rtl8150_callback-routines:151`), and
after one failure the carrier is not updated. rtl8150_disconnect frees a pointer
into the net device (`usb_template.c:300`) where line 294 has the net device
freed. The findings of `PROJECT.json` quote what the code says.

Disagreements that no run shows: `simple.c:170` prints `use_count` as "Number of
times open is called since driver loaded", but line 180 takes one off at each
release, and an overtaken update is lost, so the number printed is neither that
nor, in general, the number of open files. `usb_template.c:242` says that a
successful `usb_control_msg` returns the number of bytes, and line 262 takes that
for an error: every device whose registers are read is refused.
`mmap_kmalloc.c:156` reserves the pages "to make them remapable"; when another
file is released, or two loops meet, pages of an open file are not reserved, and
in the second case pages past the area may be.

Two more flaws of rtl8139 are in the model, and its properties say what holds
beside them: the receive address is not wrapped exactly at the end of the ring
(`rtl8139_interrupt:126`; `LostOnlyAtEnd` says the driver misses a header only
there), and `cur_tx` survives a stop and an open (`rtl8139_open:54`), after
which the queue may stall for good (`QueueWakes` claims only rings opened in
step; `SlotAvailable` claims both).

That two readers compete, and that one of two may come back empty-handed, is
admitted by `Assignment1` and is no finding: `ReadDelivers` and the poll
promises speak of one reader or one writer.

**Fairness.** `FairSpec` of the poll device: weak fairness of a task's kernel
steps and of its return, which is a scheduler that runs runnable tasks; strong
fairness of `Down`, because the waiters of a semaphore are served in order, and
of `PollLock`, because spinlocks are passed on. User code owes nothing: it may
never call again, so a read of an empty buffer may wait for ever, and the
properties say "returns, or the buffer is empty". `FairSpec` of the LEDs: the
kernel serves expired timers and runs their handlers to the end. No SETLED need
ever end; `SteadyBlink` is about selections that are left alone.
`MmapFairness`: a reader of the proc file that has begun goes on. `NicFairness`:
start_xmit and the handler run to their end, an interrupt that is pending is
served, and the card sends, or gives up, what it was given; nothing need arrive.
A handler that is kept in its receive loop for ever is excluded by the premise
of `QueueWakes`, not by fairness. `UsbFairness`: calls return, the USB core
answers every urb, and the interrupt urb comes back without an error infinitely
often if it is submitted infinitely often (strong fairness of `IntrReport`). That
a submit succeeds is not assumed, and `usb_link` shows what follows.

## 4. Proofs

`PollDeviceProofs`, for every `N > 1`, all finite sets of tasks, all lengths,
modes and data (`NAssumption`, `TaskAssumption`, `InputAssumption`):

* `TypeCorrect` and `CopiesExclude`. `TypeOK` alone is not inductive: that an
  index does not pass `N` needs that only the one task at a wrap leaves it at
  `N`, which is part of `CopyExclusive`, which needs that a task in a call has
  its file open (an open could reset an index otherwise). `BaseInv` is the three
  together.
* `UseCountCorrect`, if not `EarlyOpen`: opens and releases change the count and
  the set of open files alike.
* `WakeupsAreKept`, if not `EarlyOpen`. `IndInv` says of every task that has
  announced its sleep and was not woken (`WaitInv`): the value it loaded first
  cannot mislead it at the second load, and the test it has finished did not,
  unless a task that moved an index still has its wakeup before it. The other
  parts tie control points to calls (`OpInv`), loads to tests (`LoadInv`), a
  writer's limit to `ir` (`CopyInv`), and tasks to the queue that will wake them
  (`QueueInv`).

`IndInvariance` states that `IndInv` holds. TLC has checked that invariant on
the instance of `poll_crowd`; no run keeps it, because the theorem covers it.

`HelloProofs`, for any users and delays. Each theorem assumes only those of the
three conditions that it needs: TLC refutes it when one of them is dropped, and
`hello_race`, `poll_early` and `blink_unload` are such runs.

| theorem | condition |
|---|---|
| `HelloTypeCorrect`, `TimerLives` | none |
| `DelaySticks` | not `EarlyOpen`, `TakeTurns` |
| `UnloadLeavesNothing` | not `HotUnload` |
| `TimerNeverMisused`, `HelloInvariance` | not `EarlyOpen`, `TakeTurns`, not `HotUnload` |

That the timer is never lost rests on who is between a deletion and the next
`add_timer`. `TimerNeverMisused` needs more, `OwnerInv`: the handler or a
SET_DELAY that is about to arm the timer has it for itself.

`BlinkProofs`, for any users and masks: `UnloadStopsBlinking` and
`BlinkNeverMisused` (no `add_timer` of a pending timer), if unloading meets no
handler; `BlinkTimerLives` without a condition, the safety behind `SteadyBlink`;
and `BlinkTypeCorrect`, that the product of SETINV is always brought back to an
int.

`PollPromiseProofs`, if not `EarlyOpen` (TLC refutes each without it): `ReadsDeliver`,
`PollInKept`, `PollOutKept`, for one reader among any writers, or one writer among any readers.
The invariant says that the only reader's view of `ir` is exact, since nobody
else moves it, that a value of `iw` it has loaded stays different from `ir`
because writers stop one slot short, and so that a test that found a byte, or an
answer of poll, still holds at the copy; and the same of a writer. `CallerInv`
adds that a writer about to wrap `iw` cannot find `ir` at 0, which is why the
blind spot of `buffer_full` never lets a byte be overwritten.

`WritesNothingOnlyAtZero` bounds what the blind spot does: with one writer, a
write that has passed its test copies nothing only if the ring is full with `ir`
at 0.

The same module, if not `EarlyOpen`: `QueueImplemented`, that the device
refines `ByteQueue`. `Shape` says what the bytes between the indices are, for an
index at `N` too. A copy step is then `Take` or `Put`, an open, a release and a
load are the queue's own, and every other step, the wrap of an index included,
leaves the sequence alone.

`SimpleProofs`, for any finite set of tasks: `BufferOutlivesCalls` and
`InitUnwinds` from what the module owns at each place of init and exit, and
`DriftIsBounded` from `CountInv`: not only the count, but also what each update
under way has loaded of it, is wrong by at most `overtaken`. A store changes the
number of files by one under every other update, and each of those is then
overtaken once more.

`MmapProofs`, for any finite set of files and any readers: `BufferOutlivesFiles`
and `NothingLeft` from `StageInv`, what is registered at each stage; `MarksLast`
and `MarksGoFirst` from `LoopInv`, which pages a loop that runs alone has done, its loaded address
included.

`NicProofs`: `NicTypeCorrect` for any constants. On one processor, for any number
of descriptors, `DescriptorAvailable`, `NothingTakenTwice`, `WokenOnlyWhenFree`
from `RingInv`: in a ring opened in step what is owed lies between the indices,
and when they are equal the queue, stopped or awake, tells a full ring from an
empty one; in a ring opened out of step the handler never gets past slot 0, and
start_xmit stops at the end of the ring (`SkewedInv`). `nic_smp` shows that the
condition is needed.

`CardInv` adds the card: a busy descriptor is owed, an owed one has been written,
and one that is sent and next to be taken back has an interrupt pending unless
the handler is in its loop. From it `StoppedNotForgotten`, the safety behind
`QueueWakes`. A ring opened out of step is the opposite: `SkewedNeverWakes` proves
that once its queue has stopped it stays stopped until the interface goes down.

`TransmitQueueImplemented`, on one processor: rings of every size, opened in step,
refine `TransmitQueue`. The mapping reads the sequence of outstanding slots from
`dirty_tx` on; `WriteTsd` is `Send`, though `cur_tx` moves later, `TxStatus` is
`TakeBack`, `StopFull` and `TxWake` are `Hold` and `Release`, `Sent` is
`Transmit`. `QueueShape` gives the length of the sequence, with equal
indices for a full or an empty ring, and all other steps leave the queue alone.
With two processors TLC refutes `NotForgotten` and the refinement.

`LosesOnlyAtEnd`, for any number of processors, receive
ring and packets, from `RxInv`: packet follows packet around the ring, from where
the driver is to where the card is.

`DriverProofs`: for `Rtl8150`, `OneUrbInFlight` and
`StoppedIsAnswered` from `NetInv`: the transmit urb is out only behind a stopped
queue, between an open and the end of a close. `StoppedIsAnswered` is the safety
behind `QueueEnabled`: a stopped queue has a call or an urb under way that enables
it. For the run of the six drivers, `BenchRunsDrivers`: every step of `BenchSpec`
is a step or a stutter of each driver, so `BenchSpec` implies each driver's own
specification, and the theorems about the drivers hold of the run; with it
`BenchTypeCorrect`. Of the LEDs `BenchSpec` implies the instance of their
specification, `Blink!FairSpec`; what `BlinkProofs` proves is proved of that
specification over its own variables. The converse, that the run leaves nothing
of a driver out, is not a theorem: it runs the files and the proc readers of the
mmap device apart.

Only model-checked: liveness (`ReadReturns`, `WriteReturns`, `PollReturns`,
`SteadyBlink`, `IntervalComes`, `LoneReaderEnds`, `QueueWakes`, `QueueEnabled`),
which needs ENABLED and is beyond the prover. Every invariant and every action
property of the passing runs is stated by a theorem, those of the hello and LED
timers, the poll promises and the transmit ring under the conditions above.

## 5. Not modelled

* Failures before `cdev_add` in the poll and timer modules: they leave the module
  as it was before `insmod`. Formatting and printing. GET_DELAY and GETINV, which
  change nothing; bad user pointers in `blinkplus.c`; what happens after a kernel
  BUG.
* What is in the buffers of the simple and mmap devices, and the length of a
  mapping. The vmalloc area and its mmap operation in `mmap_kmalloc.c`: one minor
  number is registered, so no file ever reaches them.
* `mmap_vmalloc.c` does not compile as it stands, and `kprobe_mmap_kmalloc.c`
  only prints.
* `pci_template.c`: every statement of probe and remove is a blank for the
  reader; only declarations and comments are there.
* `8139regs.c` prints registers.
* Of rtl8139: DMA buffers, statistics, the stack's calls on an skb, the registers
  that hardware_start sets and nothing reads again.
* Of rtl8150: receiving, whose callback only submits its urb again; the reset
  poll, which reads the chip and changes nothing of the driver's; statistics.
* The user test programs: straight-line, and their calls are among those the
  models allow.

## 6. What would come next

The PCI probe, once its blanks are filled in: the order in which it acquires and
returns its resources is what would be modelled first. The receive path of
rtl8150, likewise. Progress proofs of the poll device, if the prover comes to
reason about ENABLED.
