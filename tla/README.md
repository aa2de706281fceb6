# A TLA+ model of the Nexmon CSI extractor

This directory holds a formal model of the channel state information (CSI)
extractor in `src/`: TLA+ modules translated from its C code, its microcode
patches and the Linux driver it ships, configurations that model-check them
with TLC, and proofs checked with TLAPS. File and line numbers below are those
of the repository.

## The system

The extractor is a set of patches to the firmware of a Broadcom Wi-Fi chip, a
patched Linux driver, and a few tools. A chip has two processors that matter
here:

* the **D11 core**, a small processor that runs *microcode* and controls the
  radio in real time, and
* the **ARM core**, which runs the firmware proper: it drains the D11 core's
  receive FIFO, talks to the host over a bus, and handles ioctls.

```
  makecsiparams --base64--> nexutil --netlink or ioctl-->
            brcmfmac: cfg80211.c, fweh.c   interfaces and events
                      core.c, bcdc.c       ioctls, frames, flow control
                      sdio.c               one worker, control slots, window
                          |   ^
                     SDIO |   | answers, events, frames with UDP 5500
                          v   |
        ARM core: wlc_ioctl_hook    process_frame_hook --> wlc_recv
                     |                      ^
                     | words, FORCEDEAF,    | receive FIFO: frames and
                     v CLEANDEAF            | chunks of CSI
                 shared memory              |
                     ^ polls, filter, masks |
        D11 core: microcode ----------------+
                     ^
                   radio: frames, channel estimate
  csireader.m, unpack_float.c  <-- capture of the UDP frames
```

### Inventory

| Part | Source | State | Operations | Hard behaviour |
|---|---|---|---|---|
| Frame hook | `src/csi_extractor.c` | `p_csi`, `missing_csi_frames`, `inserted_csi_values`, `last_rssi`, `phystatus`, packet buffers | `process_frame_hook`, `create_new_csi_frame` | chunks lost; allocation failure; who frees which buffer; writes without a bounds check; stale globals |
| Microcode | `src/csi.ucode.*.patch` (four chips) | configuration words, `DUMP_CSI`, address cache, loop counters, carrier search, the PHY's table | poll the deaf requests, filter a header, extract chunk by chunk | runs beside the ARM core that writes the words it reads; a reception may be given up; the estimate is only valid while the radio is deaf |
| Ioctl handler | `src/ioctl.c` | the same words, channel, scan and power settings, `no_phase_jumps` | ioctls 500, 501, 502, 503, 526, `NEX_READ_OBJMEM` | word-by-word writes; partial failure; the interface goes down and up |
| Driver: bus | `brcmfmac_5.10.y-nexmon/sdio.c`, `bcdc.c`, `fwil.c`, part of `core.c` | control slots, transmit queue, window, interrupt status, `dpc_triggered`, flow control | ioctls, transmission, the worker, the interrupt | a worker, senders and ioctls with few common locks; timeouts and late answers; failing transfers; suspend |
| Driver: interfaces | `cfg80211.c`, `fweh.c`, part of `core.c` | interface table, vifs, `vif_event`, event queue, `ndev_global` | add and delete an interface, handle an event, the netlink handler | callers hold rtnl while they wait for a worker that needs it; lost and late events; use after free |
| Parameter tool | `utils/makecsiparams` | the parameter structure | option parsing, defaults, base64 | options that share a byte or an array; values narrowed after the checks |
| Number formats | the hook, `utils/matlab/unpack_float.c`, `csireader.m` | the words of a UDP frame | sign extension, unpacking of floats | widths and shifts |
| Calibration hooks | `src/no_phase_jumps.c` | none of their own | skip a step while the flag is set | none |
| Regulatory hooks | `src/regulations.c` | tables | accept more channels | none |
| Rest of the driver | P2P, scan, connect, keys, fwsignal, PCIe, USB; two older versions | much | | see *Not modelled* |
| Glue, reader scripts, build | `src/patch.c`, `version.c`, `console.c`, `local_wrapper.c`, `utils/matlab/*.m`, `Makefile`s | none | none | none |

What makes each part correct:

* **Hook**: whatever the order of packets, no buffer is leaked or freed twice,
  nothing is written outside the allocated frame, and a transmitted UDP frame
  has each tone at its place.
* **Microcode**: what it extracts belongs to the frame its filter selected;
  the chunks it pushes have the shape the hook relies on; the radio is never
  left deaf.
* **Ioctl handler**: an acknowledged configuration is completely in force, a
  refused one has no effect.
* **Together**: one UDP packet per selected core and stream for each frame
  matching the filter (README.md:47), with the contents README.md:51 lists.
* **Bus**: an ioctl gets its own answer or fails, and returns; a request given
  up is not sent; the chip's window is kept; nothing that can be sent is
  forgotten; flow control ends.
* **Interfaces**: nothing freed is used; the driver's table agrees with the
  firmware's; calls and events come to an end.
* **Parameter tool**: what the ioctl handler reads is what was asked for, in
  whatever order and however often the options are given; or nothing is written.
* **Formats**: a tone is read as it was measured.

## The modules

| Module | Models |
|---|---|
| `CsiFirmware` | `src/csi_extractor.c`: the hook, the buffer pool, the bus below it |
| `CsiUcode` | the microcode patches, the radio and the receive FIFO |
| `CsiIoctl` | `src/ioctl.c`: the ioctl handler, one word at a time |
| `CsiExtractor` | the three together: shared memory, FIFO, two cores |
| `CsiService` | what the extractor promises (README.md:47, 51), abstractly |
| `CsiRefinement` | `CsiExtractor` with the history variables that map it to `CsiService` |
| `SdioBus` | the worker of `sdio.c`, the senders, the interrupt and the chip's end of the bus |
| `BcdcControl` | `SdioBus` with the ioctls of `bcdc.c` and `fwil.c` on top of it |
| `BrcmfVif` | interfaces, events and the netlink handler of the driver |
| `MakeCsiParams` | `utils/makecsiparams/makecsiparams.c`: the option loop and the encoding |
| `CsiFormats` | a tone from the PHY's word to the user's numbers |
| `MC...` | small instances for TLC |

Eight modules hold proofs: `CsiFirmwareProofs`, `CsiIoctlProofs`,
`CsiExtractorProofs`, `CsiRefinementProofs`, `BcdcAnswersProofs`,
`BcdcSenderProofs`, `BrcmfVifProofs` and `CsiParamsProofs`.

### CsiFirmware

The globals of the C file are variables of the same name. A packet buffer is
a member of `Buf`; `owner` says whether it is in the pool, with the firmware,
with the bus or with the network stack, so that `pkt_buf_get_skb`,
`pkt_buf_free_skb`, `xmit` and `wlc_recv` are changes of owner. `rx` is the
hook's argument. The hook is one action, `process_frame_hook`, with one
disjunct per path through the function (`NewChunk`, `NewChunkNoBuffer`,
`StrayChunk`, `MismatchedChunk`, `NextChunk`, `RegularFrame`); `Insert` is the
common end of the two paths that write tones. It is atomic because the
firmware does not preempt it. `set_chanspec` stands for a change of channel
between two calls.

Tones are not modelled one by one: a UDP frame keeps the sequence of chunks
that were written into it (`blocks`), the number of words written, and the
number allocated. The rssi, the PHY status and an address are identified with
the frame they come from, so that mixing up two frames is visible.

### CsiUcode

`pc` goes round the main loop (`force`, `clean`, `event`), with detours for a
header being received (`header`, then `macs`, `macloop` and `macslot` for the
slots of the filter, one by one) and for an extraction (`select` for the stream,
`mask` for the core, `push`, `finish`, `csi_end`). Every word of the
configuration is read in the step in which the microcode reads it. `Chip` selects what differs between the four
patches: cores, chunk counts, the layout of a chunk's header, whether CCK
frames are sorted out, and where the branch for unselected frames leads. `air`
is the reception in progress, which may be given up (`AirAbort`); `lastrx` is
the frame in the header buffer and the PHY's table, overwritten by the next
preamble; `deaf` is true while carrier search is off (what the patches call
`enable_carrier_search` sets it). A preamble can be detected while nothing is on
the air and the microcode is in its main loop: one that follows a frame so
closely that the microcode is still on its way to `enable_carrier_search` is left
out (`Detect` says why). History fields of a chunk (`id`, `core`,
`nss`, `chan`, `pos`) say where its tones come from.

### CsiIoctl

Each ioctl is one action, except that ioctl 500 is split into `SetCsi` (scan,
power and channel, then the check), one `WriteShm` per word in the order of the
code, and `SetCsiDone`. `wlc_down` and `wlc_up` stand for the firmware's own
ioctls; coming up reloads the microcode, which resets the words.

### CsiExtractor, CsiService, CsiRefinement

Instances of the three modules share `shm`, `FORCEDEAF`, `CLEANDEAF`, `fifo`
and `chanspec`. The ARM core does one thing at a time (an ioctl or a packet);
the D11 core interleaves with it at every step. A change of channel waits for
the microcode to be suspended (`MacSuspended`), as the firmware's
`set_chanspec` does. `ackrx`, `completed` and `sent` are history variables.

The abstract specification has three variables: the number of the frame heard
last, the set of measurements owed, and the sequence delivered. `Hear` adds a
batch. `Deliver` takes a measurement from the set and gives up those that are
earlier in the order of measurement (`Earlier`: by frame, core and stream); if
nothing may be lost (`~Lossy`), there must be none, and weak fairness says that
every measurement is delivered. The refinement reads `delivered` off the UDP frames exactly the
way README.md:51 tells a receiver to; a frame that cannot be read that way
becomes `Corrupt`, which the service never delivers.

### SdioBus and BcdcControl

`bus` is `struct brcmf_sdio` as far as it matters, `dpc` the worker with its
local variables, `net` the interfaces with their senders, `dongle` the chip
(external), `proto` and `caller` the ioctls. What runs with the host claimed
(`sdio_claim_host`) or under one spinlock is one step, because everything else
that touches the same fields claims the same thing. `ctrl_frame_stat`,
`dpc_triggered`, `txoff` and the stopped queues are read and written without
it, and are read and written in steps of their own: the worker's two looks at
`ctrl_frame_stat` are `DpcCtrl` and `CtrlSent` or `CtrlGone`; a sender that
finds the queue full goes through `TxData`, `TxBlock` and `TxTrigger`. Flow
control is one step per interface, in both directions (`txflowblock_if`): the
driver takes the lock of one interface after the other.

`txctl` is split at its wait (`TxCtl`, `TriggerDpc`, `TxDone` or `TxTimeout`,
`TxClaim`, `TxResult`), `rxctl` likewise (`RxCtl`, `RxTake`, `RxTimeout`). A
transfer can fail, a card be removed and the bus be suspended at any moment,
as often as `budget` allows. The chip takes, answers and credits frames in any
order, and may leave an ioctl unanswered. Left out:

* the chip's own flow control (`fcstate`, `flowcontrol`; sdio.c:2336, 2633,
  2709, 2732): it is taken never to hold a frame back, so `StoppedIsReleased`
  says nothing about a chip that does not release the bus;
* register accesses that fail outside a transfer (sdio.c:2623, 2635), which send
  the worker on with an error as a failed transfer does;
* the retries of a control frame: they are one step with it (`CtrlFails`), and a
  transfer that failed is taken not to have reached the chip;
* all but one of the queue's precedences, so that nothing is evicted; superframes
  of received frames; the clock and sleep states; the DEBUG console;
  `fwsignal.c`, which the default `fcmode` leaves dormant but for its call of
  `brcmf_txflowblock_if`; the attach, when no ioctl can be under way.

### BrcmfVif

`ifp` and `vif` are allocations, so that a freed one stays recognisable;
`drvr` is the interface table, the event queue and `ndev_global`. A call of
cfg80211 (`user`) holds rtnl from start to end, waits included; the event
worker (`work`) goes through `brcmf_fweh_event_worker`, `brcmf_add_if`,
`brcmf_del_if` and the handlers step by step, and needs rtnl where it
unregisters a device; where it looks in the table before that, it has no lock
(`InTable`, `Unregister`). The firmware (`chip`, external) answers a request with an
event, may remove an interface by itself, and events may be lost for want of
memory. A monitor interface is added the way an access point's is
(`brcmf_mon_add_vif` of the patch). Left out: P2P interfaces, CHANGE events, and
the detach of the driver.

### MakeCsiParams

One action per `case` of the option loop, one for the missing arguments, and
two for the end (`RefuseIncomplete`, `Write`). `p` is the structure, `v` the
local variables of `main`, `pc` how the program ended, `out` the bytes or
characters written, and `given` the history of the options. `strtol`,
`ether_aton` and `wf_chspec_aton` are their results, which `OptionAssumption`
gives their ranges; the structure is laid out
byte by byte and encoded as in the code, three bytes making a number of 24 bits
and that number four sextets. The receiving side is modelled
separately: base64 decoding as `nexutil -b` does it (`Unbase64`, external), and
the structure as `ioctl.c` declares it (`Params`). `ReadmeExample` in `MCParams`
checks the encoding against the string in README.md:34.

### CsiFormats

A 32-bit word is the set of its bits that are one, so that shifts, masks and
sign extension are what they are in C, with their width. `Hook` is the
conversion loop of `process_frame_hook`, `Typecast` is `csireader.m` on the chips
of the 14-bit format, `Unpack` and `Scale` are the two loops of
`unpack_float_acphy`. Which word the PHY writes for a pair of numbers is
external: sign, mantissa, sign, mantissa, exponent. The widths are those of the calls in
`mexFunction`, where nine and twelve bits include the sign; README.md:51 and the
comment at `csi_extractor.c:244` can be read as if the sign came on top, but the
words in `utils/matlab/example.pcap` have bits 0 to 22 and no others. A shift by 32 or more is undefined
in C; `Shifted` has the two outcomes compilers produce.

## The runs

| Run | Instance | What it shows |
|---|---|---|
| `firmware` | bcm43455c0, 3 buffers, 1 frame, all chunks of a 20 and a 40 MHz measurement in any order, failing allocator | `ConstructionOK`, `BuffersOwnedOnce`, `WritesInBounds`, `BlocksInPlace` of the hook alone |
| `configure` | bcm43455c0, 2 frames of 2 stations, 2 ioctls 500 with a station and a stream each, FIFO of 1, failing allocator (2.5 million states) | what the hook relies on holds of the microcode (`HookAssumptionsMet`); measurements are mixed only after a burst of losses (`SpliceNeedsBurst`); the header of a UDP frame is right (`CsiConfReadable`, `FrameControlOfFrame`); an acknowledged configuration is in force (`AcknowledgedConfigHolds`) |
| `refinement` | bcm4358 (2 cores), 1 of 4 streams, 2 frames of 3 kinds, FIFO large enough | `CsiExtractor` implements `CsiService`; the extraction is of the completed frame (`ExtractsCompletedFrame`) |
| `deaf` | bcm4366c0, 2 requests of 502 and 503, two streams | `HearsAgain`, `CleanDeafTakesEffect` |
| `ioctl` | the handler alone, bcm4366c0, 3 ioctls of all kinds | `AcknowledgedIsInstalled`, `ErrorLeavesMicrocodeAlone` |
| `sdio` | one caller, two interfaces, five loads (below) (660 000 states) | `AnswersOwnRequest`, `UnsentNeverSent`, `DropsOnlyBehindStale`, `WindowKept`, `NothingForgotten`, `PendCoversFlight`, `StopIsKnown`; `CallsReturn`, `StoppedIsReleased` |
| `vif` | three places in the table, two loads (below) (110 000 states) | `TableIsLive`, `RegisteredHasVif`, `HandlerFindsVif`, `NoneFreedTwice`, `AgreesWithChip`; `CallsReturn`, `EventsHandled` |
| `params` | up to 4 options out of 22, good and bad | `WrittenAsAsked`, `RefusedIfWrong` |
| `formats` | two tones of each of the three formats | `IntegersAsMeasured`, `FloatsAsMeasured` |

Each of the other runs finds a disagreement between the code and what the
repository says of it:

| Run | Disagreement |
|---|---|
| `splice` | The hook compares only the count of missing chunks, so after a loss one UDP frame can hold the head of one frame's measurement and the tail of another's, although README.md:51 speaks of the frame that triggered the collection. `SpliceNeedsBurst` says how much has to be lost for that. |
| `clean_lost` | On all chips but the bcm4366c0 a clean-deaf request is lost when it arrives between its poll and the end of a reception, although the ioctl reported success. |
| `netlink` | After the interface attached last has been deleted, the netlink handler sends its ioctls through freed memory: `ndev_global` is never reset, and the test at `core.c:126` for the case that there is none is never true. |

More, seen while the models were made, that no run is kept for. Ioctl 500
switches collection on before it writes the filter, so that a frame can be
reported that no configuration asks for; the chanspec in a UDP frame is the
one at the time the first chunk is processed, not that of the reception; and on
the bcm4339 and bcm4358 the microcode never writes the word the frame control
byte is taken from. Two races of the driver that its documents say nothing of:

* When flow control ends, `brcmf_fws_bus_blocked` (fwsignal.c:2500) releases one
  interface after the other. The first one released can fill the queue to `TXHI`
  again before the last one is released; the last one then runs while `txoff` is
  set, and a later end of flow control can be overtaken in the same way so that
  an interface stays stopped with `txoff` reset. It takes two interfaces and, with
  the constants of the run, nine frames. The properties hold up to the first such
  moment (`net.overtaken`).
* The worker looks in the interface table (core.c:1056, 1012) before it waits for
  rtnl (core.c:781). If the firmware removed an interface by itself while the call
  that adds it is about to register the device, and the registration fails, the
  call frees the device and the worker frees it again. `NoneFreedTwice` says that
  without a refused device it cannot happen, although the worker and a call may
  well be about to remove the same interface.

### Bounds and why they are enough

* `MaxFrames` is 1 or 2. Mixing up frames, stale caches and stale masks need a
  frame and its successor; a third frame repeats the situation of the second.
* `FifoDepth` is 1 where chunks are to be lost: every chunk can then be lost or
  kept, since the ARM core may drain the FIFO between any two pushes. It is at
  least the number of chunks where nothing is to be lost.
* Two streams of one core, or two cores and one stream, are the smallest
  loops that have a next round in either dimension.
* `Buf` has three members in `firmware`: one for the argument, one for the UDP
  frame, one for the bus, so that the pool does run out. The results about the
  hook are proved for every `Buf`.
* 20 MHz measurements have 5 chunks (4 on the bcm4366c0), 40 MHz ones 10; the
  `firmware` run mixes both.
* `MaxIoctls` is 2 or 3: two configurations, so that there is an old and a new
  one, or a request to go deaf and one to hear again.
* In `sdio`, `SDPCM_SEQ_WRAP` is 8 instead of 256 and the chip has room for 2
  frames, so that numbers wrap around within a run; `TXQLEN`, `TXHI` and
  `TXLOW` are 3, 3 and 1, so that five frames of two interfaces fill the queue and
  start and end flow control; `IdMod` is 2, so that the ids of an earlier and a
  later request meet. The loads are two requests and a fault (a late or lost
  answer, a failed transfer, a removed card, a suspend), five frames, three frames
  and a fault, two frames of which one is 802.1X and a fault, and a request beside
  a frame: each hazard needs one fault or none. `Load` bounds the 802.1X frames
  on their own, since only `pend_8021x_cnt` tells them from others. A release
  that is overtaken needs at least six frames, and is not reached. `TXQLEN`
  equals `TXHI` so that a full queue is reached, too. Types,
  answers, window, wake-up, counting and `StopIsKnown` are proved for any number
  of callers, interfaces, requests and faults.
* In `vif`, three places are the primary interface, one that is there and one
  that comes or has gone. Three calls with a fault and a link event, or two
  calls with two faults, suffice to add, lose and add again under the same
  index.
* `MaxArgs` is 4 in `params`: channel, cores and streams, which collection
  needs, and one more, or one of them again; with `-e 0`, two `-m` that overflow
  the four addresses.
* In `formats`, tones are independent of each other except for their place, so
  two of them do; mantissas and exponents are the extreme ones and those around
  the last that an int32 can hold.

### Fairness

`Fairness` of `CsiExtractor` is weak fairness of the microcode, of the ARM
core's handling of packets and of the rest of an ioctl under way, of buffers
coming back, and of the end of a frame on the air. Each is a processor that
runs, or a transmission that ends. Nothing forces the host to issue an ioctl,
a frame to arrive, or a reception to be given up.

In `BcdcControl` the worker, the senders and the callers are threads that the
kernel schedules, and waits end by their timeouts: weak fairness. `Lock` is
strongly fair, since a mutex goes to whoever waits for it. Of the chip it is
only assumed that it takes frames, returns credits and reports the end of a
refusal; it need never answer an ioctl, and `CallsReturn` holds all the same. In
`BrcmfVif` the calls and the worker are weakly fair, and the two steps of the
worker that need rtnl strongly.

## What is proved

**The hook.** `CsiFirmwareProofs` proves, for every chip, buffer pool, set of
frames, channels and packets, the five invariants of the `firmware` run as
theorems of `FwSpec`. `PacketAssumption` says what the microcode may push: the
hook checks neither the length in a chunk's header nor its count, so the
theorems need that a chunk counts at least 1 down, holds at most
`TonesPerChunk` words, is full unless it is the last one, and that a first chunk
announces enough words for the PHY status. The invariants are proved together,
as `FwIInv`, since none is inductive alone: that nothing is written out of
bounds needs that the words written and the words still to come add up to the
length allocated (`ConstructionOK`); that the buffer handed to the bus is the
firmware's to give needs the ownership of `p_csi` and of the argument to be
separate (`BuffersOwnedOnce`). `InsertKeeps` is the heart of it.

**The ioctl handler.** `CsiIoctlProofs` proves the two properties of the `ioctl`
run for every set of requests and channels. `AcknowledgedIsInstalled` says
nothing while ioctl 500 is under way; `WrittenSoFar` adds that the words before
the next one to be written have their new values already.

**The extractor.** `CsiExtractorProofs` is about the two cores together, for all
four chips and any FIFO, frames, requests and buffers:

1. `ExInv` says what the microcode knows at each `pc` (`Reception` and its
   neighbours), and that only packets of the form `HookPacket` are in the FIFO.
   `ExtractsCompleted` and `PacketsMeetAssumptions` follow.
2. `RunsHook`: the extractor implements `CsiFirmware` for those packets. The
   assumption of the hook's theorems is now a theorem, and `HookHolds` has their
   conclusions for the hook and the microcode together.
3. `OrderInv`: chunks keep, in the FIFO, in the hook and in the UDP frame under
   construction, the order in which they were pushed, and a chunk of a later
   measurement follows at its distance (`Past`, `Before`, `Chained`). `SentOK` is
   the same of the frame sent; `SplicesTakeBursts`, `ConfReadable` (not on the
   bcm4366c0, see below) and `FrameControlMatches` (bcm43455c0) follow.
4. `AckInv`: from an acknowledgement on, a frame heard since is let through
   each stage only if it matches; with the ioctl handler's own invariant, reused
   through an instance of `CsiIoctlProofs`, this gives `ConfigHolds`. It is about
   UDP frames of one measurement: a spliced frame can bring the stream of an
   earlier configuration with it.

The assumptions are named in `CsiExtractor`: `Chip` is one of the four, bounds
are numbers, the shared memory has the words of the patches (and a number in the
one that counts the addresses), and `Null` is no frame, packet or ioctl.

**The service.** `CsiRefinementProofs` proves the safety part of the refinement,
for every channel, filter, set of frames, masks and buffer pool.
`RefinesService`: `RSpec` and `[]Undisturbed` imply `ImplementsService`. Its
hypotheses:

* `Undisturbed`: no ioctl has been issued, and the FIFO has room for one more
  packet. Both are needed. The service is about one configuration, and when
  chunks are lost in the FIFO measurements may be mixed (run `splice`).
* `Lossy = TRUE`: the service may lose measurements. The hook drops a
  measurement when it gets no buffer, and whether that happens depends on the
  network stack. `Service!Spec` then has no fairness; what is delivered is
  still complete, of one measurement that was owed, and in order.
* `Chip` is not the bcm4366c0, where core and stream are not where a receiver
  looks for them, and there is one initial configuration.

The invariant `RInv` follows a measurement along the line of packets in the FIFO
and in the hook's hand (`Item`). That a UDP frame is of one measurement comes
from `Continued`: since nothing is lost in the FIFO, the chunk behind one with k
to go is the one of the same measurement with k - 1 to go, and the hook waits for
exactly the first in line; the NEW flag is only on a chunk with the full count
(`Proper`), so that no measurement starts in the middle of another. That its
rssi and PHY status, which are globals of the hook, are of the same frame comes
from `Follows`. That it is still owed comes from `Ordered` and `Behind`: a
delivery gives up only what is earlier, and all that is in line, or still to be
extracted (`StillOwed`), is later. That it matches the filter comes from
`Filtered`. `ConstructionOK`, the hook's own invariant, gives the number of words.

`NoneLeftOut` is the other half: under `~Lossy`, every step is still one of the
service, which now must not pass over a measurement, and every measurement owed
is under way (`NoneMissing`). Two more hypotheses are needed:

* `BufferLeft`: the allocation does not fail, and the pool, with the UDP frame
  under construction given back, has a buffer. Without it the hook drops the
  measurement (`NewChunkNoBuffer`).
* `WellFormed`: at most four addresses, and 0 or 1 in `use_pkt_filter`, as
  makecsiparams writes them. The microcode compares four slots and takes any
  value but 0 for 1, and would refuse frames that match otherwise.

`CompleteInv` goes the way of `RInv` in the other direction, from what is owed
to where it is: a frame that matches is not refused (`Admitted`), the loops pass
over pairs that are not selected only, the first chunk takes the place of the
pair, and the hook puts it into a UDP frame that it does not give up, because the
chunk it waits for is the next one (`ExpectedComes`). When the last chunk comes,
everything else that is owed is behind it, so that it is the first one
(`FirstOwed`). `SentBefore` says that it is not the same as the one before.

**The bus.** The two `Bcdc...Proofs` modules are about `BcdcControl`, for any
number of callers, any load, and any constants with
`4 * Credits <= SDPCM_SEQ_WRAP` and `2 * TXCTL_CREDITS <= SDPCM_SEQ_WRAP` (the
code's half-window test is wrong beyond them; the driver has 256 and 2), and no
more interfaces than there are frames from `TXLOW` to `TXHI` (16 and 256):

* `BcdcAnswersProofs`: `TypeOK`, with the types of all queues and records
  (`Types`); `AnswersOwnRequest` and `UnsentNeverSent`, from `Control`:
  what the chip has, what comes back and what is in the slot bears the id of a
  request that was made and not given up, and only who holds `proto_block` is
  between lock and unlock. `DropsOnlyBehindStale`, from `Line`: an answer that is
  neither the last request's nor an expired one's does not exist, and the last
  request's is at only one place, of which those at the chip come last. The proof
  corrected the property: ids are 16 bits, so an answer that is late by all the
  ids is taken for a request's own, whose true answer then fills the slot.
  `Stale` therefore compares ids, not requests.
* `BcdcSenderProofs`: `WindowKept`, from `WindowInv`: measured from `tx_seq`, the
  window of the driver, those on their way and the chip's own never decrease, so
  that arithmetic modulo the wrap is arithmetic. `NothingForgotten`, from `Awake`: behind the place where the
  worker looks for a kind of work, `dpc_triggered` is set if there is some.
  `PendCoversFlight`, from the number of 802.1X frames with senders, in the queue
  and in the transfer under way (`Covered`). `StopIsKnown`, from `Flow`: while the
  worker is between its look at the queue and the release of the first interface,
  the frames that can have come since are at most one per interface, because each
  of them is stopped, so that none of the senders finds the queue at `TXHI` again:
  this is what `FlowAssumption` is for. From the first release on the interfaces
  released may send as they like, until one of them reaches `TXHI` and so
  overtakes the release (`net.overtaken`).

**The interfaces.** `BrcmfVifProofs` is about `BrcmfVif`, for any number of
interfaces, vifs, calls, events and faults. The faults a history has had decide
how much holds, so the invariant has four layers, each with the one before:

1. `Always`, whatever happens: types, what each call and the event worker hold at
   each `pc`, and that the table refers to what is allocated. `TypeCorrect` and
   `TableLive` follow. `Alone` and `Held` are about the worker between its look in
   the table and rtnl: no call gets the event it waits for meanwhile, because the
   worker would have to hand it over, so no call takes the interface out of the
   table. With them `FreedOnce` follows for the worker, unless a device was
   refused.
2. `Timely`, until a wait times out or the firmware removes an interface unasked:
   an ADD or DEL is on its way only while its call waits for it, and devices and
   vifs refer to each other. `RegisteredKeepsVif` and the rest of `FreedOnce` (a
   call attaches no freed device) follow, and that the default handling of a DEL
   then has nothing left to remove (`DefaultRemovalIdle`).
3. `Orderly`, until besides a device is refused: every entry is in use, and the
   events of an interface are in the queue before its DEL. `HandlerSafe` follows.
4. `ChipTable`, until besides an event is lost: what the firmware has is in the
   table, but for the interface a call waits for. `TablesAgree` follows.

Its assumptions: `Null` is no index or allocation, the tables have an entry 0 and
`iflist` is no longer than `if2bss`, and the primary interface is allocated.

**The parameters.** `CsiParamsProofs` is about `MakeCsiParams`, for any set of
options whose values are in the ranges of `OptionAssumption` and command lines
of any length (`MaxArgs` bounds nothing there): `ParametersArrive`
(`WrittenAsAsked`) and `RefusalsJustified` (`RefusedIfWrong`). Both follow from
`Reading`: while options are read, the local variables and the structure are
what the options so far ask for (`Remembered`, `Stored`), none of them is wrong,
and nothing has been written. What options ask for is defined with the greatest
position of an option and with a recursive function over the addresses (`Macs`).
That these have values at all is induction over the list; the proof avoids it by
making it part of the invariant (`Readable`: there is exactly one function that
collects the addresses), which each option read extends. The output is then two
lemmas: `FieldsRead`, that every field of the structure is at the bytes where the
hook's declaration has it, and `RoundTrip`, that the 34 bytes come back from
their 48 characters. Both are about the code of the two ends as it is: the
little-endian stores, the halves of `core_nss_mask`, and the equals signs
at the end.

## What is only model-checked

Liveness, which is out of the prover's reach (`HearsAgain`,
`CleanDeafTakesEffect`, `CallsReturn`, `StoppedIsReleased`, `EventsHandled`);
of the refinement of `CsiService` (`ImplementsService`), that what is owed is
delivered in the end (run `refinement`); and `CsiFormats`, whose numbers are sums over
sets of bits: what such a fold yields is induction over data.

## What is not modelled, and why

* **The rest of the driver.** `src/brcmfmac_*` is the Linux driver in three
  versions, almost all of it as in the kernel and most of it without a part in
  the extraction of CSI: the model covers what every ioctl and frame passes
  through and what the patch adds. It follows 5.10.y; 4.19.y and 5.4.y differ
  little in these parts. That is why the model covers a small share of the lines
  in `src/`. Left out are PCIe, USB and msgbuf (other buses), P2P, connecting and
  keys (not used while CSI is extracted), the download of the firmware, and
  `fwsignal.c`. The scan of cfg80211.c would be next: `scan_request` is read and
  cleared without a lock by the event worker, the timeout work and the abort, the
  interface remembered in `escan_info` may be deleted meanwhile, and a scan the
  driver starts itself has no timer.
* Vendored code: `nexutil` and its base64, `bcmwifi_channels.c`.
* The delay between two chunks (`FIFODELAY`), and with it the bcm4366c0's wait for
  a clock to be equal to its end: the model has no time.
* The register sequences that turn carrier search on and off: one flag.
* The three words of a MAC address are one word, so a comparison with half an
  address is not seen; a mixture of two configurations, and of two slots, is. On
  the bcm4366c0 the register `SPR_BASE5` is also left out, into which the patch puts
  an old value of `SPARE6` when there are no addresses (line 93, 114).
* A preamble detected between the end of a frame and `enable_carrier_search`
  (`Detect`), and the chip's own flow control (`DpcData`): see the modules.
* The interface going down while a frame is processed: `CsiExtractor` keeps it
  up; `CsiIoctl` alone models it.
* Which of the overwritten words carry data: the PHY status is copied over
  words 28 to 30 of a 20 MHz measurement (`csi_extractor.c:268`), of which 28 is
  subcarrier +28. It carries data in 802.11n and ac by the list in
  README.md:192, although the comment at `csi_extractor.c:265` calls words 28 to
  36 unused; at 40 and 80 MHz word 2 is in the same position.
* That an extraction ends with `disable_carrier_search` even when the host had
  forced the radio deaf before: it is in `CsiUcode` (`Finish`), but no document
  says how long forced deafness lasts.
* Ioctl 500 changes the channel before it checks the length of its argument and
  whether the interface is up, and ignores a failure (`SetCsi`): no document
  promises otherwise.
* After a failed control frame the worker of the bus does not come back for
  queued data before the chip's next interrupt; after a bus comes up again all
  stopped queues are woken though flow control believes it holds them, and a
  sender that saw the bus down may stop one again. The code is modelled; the
  properties leave these states out by name (`dpc.err`, `net.woken`).
* Of `BrcmfVif`, what follows a timed-out wait, a failed registration or an
  interface the firmware removes by itself: the code does not repair it, and the
  properties name the fault (`hist`). An interface the default handling of a DEL
  has found freed is still read once (`ifp->drvr`, core.c:1056), and one that an
  ADD finds in the way is detached without a look whether a call was quicker
  (core.c:958): it takes a timed-out wait and an unasked removal to get there.
* The autoscale branch of `unpack_float_acphy`, which no call selects, and what it
  returns when a shifted mantissa leaves the int32. That happens from exponent -2
  (bcm4358) or -21 (bcm4366c0) on for the largest mantissas; in `example.pcap`
  the exponents are between -16 and -6.
* Of the parameter tool: numbers beyond what `strtol` returns, the text of the
  messages, and the exit status (`main` returns 0 on every path, `retval` is
  never used). The usage message says `-e on/off`, but only numbers are read; a
  value of `-e` other than 0 and 1 is stored modulo 256.
* On the bcm4366c0 the microcode puts core and stream number into the upper byte
  of its word (`sl SPARE1, 8`), and the hook passes the word on. It ends up in the
  second byte of the field on the wire, which is how the example `0x0019` of
  README.md:51 has to be read on this chip (it says core 0, its bits say core 1);
  `CsiConfReadable` is checked on the bcm43455c0 and, as part of the refinement,
  on the bcm4358.
* Calibration hooks, regulatory tables, glue, reader scripts and build files have
  no state to model.

## Plan

1. Done: the hook, the microcode, the ioctl handler, their composition and
   service, the parameter tool, the formats; the driver's bus with its ioctls,
   its interfaces and events; the runs and proofs above.
2. More of the system: the scan of cfg80211.c (above); the detach of the driver
   against calls and events; P2P interfaces in `BrcmfVif`; the interface going
   down in `CsiExtractor`; the precedences of the transmit queue.
3. Larger instances: two callers in `sdio`, and frames enough for a release that
   is overtaken; two channels in `configure`.
4. More proofs: that the hook drops nothing when there is a buffer for each packet
   and UDP frame under way, which gives the order of the lossless service; and
   that the FIFO has room if `FifoDepth` is as large as a frame's chunks and the
   ARM core has drained the last one's, in place of `Undisturbed`.
