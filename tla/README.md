# flasher: TLA+ verification

This directory holds TLA+ models of `flasher`, a Go toolkit that talks to
Espressif chips over a serial line and prepares what is written to them, the TLC
configurations that check them, and machine-checked proofs. Paths below are
relative to the repository.

## 1. The system

Everything `flasher` does with a chip is a sequence of *commands*, each a request
frame answered by a response frame, over a serial link that drops, delays and
damages bytes. Frames carry an opcode and no sequence number; only the payload of
data packets is covered by a (one-byte XOR) checksum. All the interesting
behaviour comes from there: one host thread, one chip, two queues between them,
and timeouts that let the host go on while an answer is still under way.

| Component | Source | State it keeps | Operations |
|---|---|---|---|
| Request/response exchange | `esp/loader.go:109`, `esp/protocol.go` | what is on the link | write a request; skip what answers another command; check the trailer; time out |
| SLIP framing | `esp/slip.go`, `esp/loader.go:49` | position in the byte stream | encode, find a frame, unescape |
| Reset and Connect | `esp/loader.go:134-188` | control lines; attempts | reset into the ROM loader, SYNC, drain echoes; HardReset |
| Stub upload | `esp/stub.go` | `Loader.stub` | upload two segments, jump, wait for "OHAI" |
| Baud rate | `esp/flash.go:50` | `Loader.curBaud`, the port | ask the chip, follow it, flush |
| Flash writing | `esp/flash.go:69-234` | image, block, attempt; the flash | begin (erase), data, digest, end; raw with retries or compressed without |
| Flash reading | `esp/ops.go:41` | bytes received | stream, acknowledge, compare digest |
| Erasing | `esp/ops.go:17-36` | none | one command, stub only |
| Identity, registry | `esp/loader.go:190-263`, `esp/macs.go`, `esp/chip.go` | `Loader.chip` (cached) | detect, read registers, derive MACs |
| Security information | `esp/security.go` | none | one command, decode |
| Front-end | `cmd/flasher/main.go` | none between commands | sequences of the above with an error policy |
| Flash plan | `partition/flasherargs.go` | list of images | load, sort by offset |
| Partition table | `partition/table.go` | none | parse |
| NVS generator | `nvs/nvs.go` | pages, namespace indexes | typed setters, render |
| Bundle | `bundle/bundle.go` | manifest, files by name | build, pack, open, list |
| Monitor | `esp/monitor.go` | a buffer | read, write to terminal and file, stop on a signal |
| Port detection, transport | `esp/detect.go`, `esp/transport.go` | none | I/O |

How they interact: the front-end calls `Loader` operations one after the other;
every operation goes through `command()`; `Loader.stub`, set by `RunStub` only,
decides for all of them how long a status trailer is, which block size and which
write path is used, and what is permitted; the port's baud rate and the chip's
must change together; the plan decides which sectors the chip erases.

What makes each correct, and what is hard about it, is listed line by line under
`hazards` in `PROJECT.json`. The themes:

* *late answers*: after a timeout the answer may still come, and looks like the
  answer to the next request with the same opcode;
* *beliefs about the other side*: stub or ROM, which baud rate, which position in
  the inflater's stream, how many bytes of a read;
* *half-done work*: an image verified, the next one failing; a chip abandoned in
  any state by the session before;
* *boundaries*: sectors against bytes, three attempts, the last image, a frame
  cut short;
* *build here, flash there*: names, offsets and contents that have to survive an
  archive; an archive that was cut short or damaged;
* *setters that fail half way*: what an NVS partition holds after an error;
* *termination*: nested retry loops over reads that time out, flow control in
  which each side can wait for the other.

## 2. Modules

| Module | Models | Runs |
|---|---|---|
| `VerifiedWrite` | what `flasher flash` promises, without link or packets | refined by `FlashWrite` |
| `FlashWrite` | image loop of `cmdFlash`, both forms of `WriteFlash`, `flashMD5`, `FlashFinish`, over `command()` | through `MCFlashWrite` |
| `MCFlashWrite` | two flash plans for TLC | `flash_write`, `shared_sector` |
| `LoaderSession` | `Connect`, `RunStub`, `ensureChip`, `ChangeBaud`, and the rest as single exchanges | through `MCLoaderSession` |
| `MCLoaderSession` | the commands of `cmd/flasher` as sequences of operations | `loader_session`, `stub_unnoticed`, `reconnect` |
| `ReadFlash` | `ReadFlash` | `read_flash` |
| `FrameChannel` | what framing promises to `command()` | refined by `Slip` |
| `Slip` | `slipEncode`, `readFrame`, byte by byte | through `MCSlip`: `slip` |
| `Identity` | `MACs`, `ensureChip`, `BaseMAC`, `DeriveMACs` | `identity` |
| `NvsLog` | what an NVS partition under construction promises | refined by `Nvs` |
| `Nvs` | `New`, the setters, `Bytes` | `nvs`, `namespace_wrap` |
| `FlashSize` | `FlashSizeBytes` | extended by `Bundle` |
| `Bundle` | `Load`, `FromBuildDir`, `Pack`, `Open`, `FlashFiles`, `cmdPack`, `loadFlashSource` | through `MCBundle`: `bundle` |
| `Monitor` | `Monitor`, `cmdMonitor` | `monitor` |
| `FlashWriteProofs`, `LoaderSessionProofs`, `ReadFlashProofs`, `SlipProofs`, `NvsProofs`, `BundleProofs`, `IdentityProofs`, `MonitorProofs` | theorems and proofs about the module of that name | checked by TLAPS |

How they compose. `Slip` is the layer below all the protocol models, and
`FrameChannel` the interface: `FlashWrite`, `LoaderSession`, `ReadFlash` and
`Identity` have queues of frames that may be lost or damaged, which is what
`FrameChannel` leaves of any disturbance of the line. `LoaderSession` is the whole
session with writing, reading and identifying as one exchange each; `FlashWrite`,
`ReadFlash` and `Identity` open these exchanges up. `Bundle` produces the plan that
`FlashWrite` takes as a constant, and carries the flash size to `FlashSizeBytes`.
They share the shape of the link, not their state.

Operators named `Bug...` are plausible mistakes. No behaviour uses them;
`PROJECT.json` pairs each with the definition it would replace and the property
that then fails, which shows that the property can fail.

### The link, in FlashWrite, LoaderSession and ReadFlash

`up` and `down` are FIFO queues of frames. A fault step loses the first frame,
damages it, or pulls the cable; `faults` logs what happened, bounds the number
(`MaxFaults`) and lets a property speak of, say, "one fault on a data packet".
A `Timeout` step ends a wait. It is free when nothing can arrive any more; when
something is still under way it is a fault, "late", and the frame stays in its
queue. A bad SLIP escape ends a wait in the same way. So a frame may arrive
arbitrarily late, and fault-free behaviours have no spurious timeouts. Without
this bound every exchange could time out at every step, and no property of
success could hold.

An error of the serial port itself when writing is not a separate step: the
request is lost and the wait ends, which has the same consequences.

### FlashWrite

The host is `file` (loop of `main.go:322`), `pc` (command to issue or awaited),
`await` (inside `command()`), `seq` and `attempt` (loops of `writeFlashRaw`, or of
`writeFlashCompressed` with one attempt). `Issue` writes a request. `Accept`,
`Reject`, `Timeout` are the three ways `command()` returns, each with all that the
caller then does, up to the next request: `CommandFails` has the flush between
attempts, the limit of three, and the best-effort `FlashFinish`. `Skip` is the
`continue` of `loader.go:122`.

The chip is the flash (`flash`, an array of cells), the image its last BEGIN
announced (`armed`) and the inflater's position (`stream`). A raw block is
programmed at its own index, so a repeat is harmless; a compressed chunk lands
wherever the stream has got to, so anything but the next one leaves junk.
Programming can only clear bits: over anything but erased flash or the same data
it leaves `Junk`. BEGIN erases whole sectors. MD5 is taken as injective.

One cell is what one data packet carries. That an image's last packet is padded
(raw) or short (compressed) does not show at this grain. `stub` is chosen once:
`RunStub` is behind us when writing starts.

### LoaderSession

`script` is the front-end, `op` the operation it is in, `todo` the commands the
operation has yet to complete. What the host believes (`stub`, `known`,
`portBaud`) stands beside what is so (`mode`, `chipBaud`). A frame sent at a
rate the receiver does not listen at is not heard. A response has the trailer of
the loader that sent it, and `StatusOK` is what `response.status` makes of it,
with the width the host believes: a ROM refusal read with the stub's width
is a success.

Firmware that boots in place of a loader may write to the port (`logging`, set and
cleared by `FirmwareLogs`). Each byte gives `readFrame` its whole timeout again, so
that while bytes come which end no frame (`Chattering`) no wait ends: `Timeout`,
the drain and the greeting loop have it in their guards. Log lines that do contain
0xC0 make frames that match nothing; they end earlier, and are not modelled.
`PortFails` is an error of `SetBaud` or `FlushInput` after the chip has changed its
rate.

Sessions start from whatever the one before has left: firmware running, the ROM
or the stub at the fast rate, a crashed chip. A reset may miss the download strap
and boot the firmware. The stub's greeting comes some time after MEM_END, within
or after the 200 ms of `memFinish`.

`claimed` and `executed` record the kinds of command that returned nil and those
that the chip carried out since the last reset.

### ReadFlash

The host counts bytes, as the code does, and so does the model: frames have a
size, and damage can make one shorter, or longer by a byte, or run two together.
The last block has a size of its own. The stub stays at most `MaxInFlight` frames
ahead of the acknowledgements and sends the digest when everything has been
acknowledged.

### Slip

The alphabet is the delimiter, the escape, the two escape codes, and "plain" for
every other byte: the code tells no others apart. The sender is `slipEncode` as a
position in the frames to send; `rx` is where `readFrame` is: not called, seeking a
start, in the body, after an escape. `Call`, `Seek`, `Body`, `Escape` are its loops
and returns. A `Drop`, `Alter` or `Insert` step does to one byte what a line can do;
a `Timeout` inside a frame is a fault as well, between frames it is not. `hit`
records during which frames something happened.

### Nvs

`cur` is the last page and its next free slot, `table` and `items` are what was
written, in order, with page, slot and span; `nss` is read off `table`. A setter is
one action with the outcomes the code has: the name of the namespace is too long
(after the counter was advanced, and a page perhaps appended), the item is (after
the namespace was registered and a page perhaps appended), the item exceeds a page
(after the namespace was registered), or all is written. The value is the number of
the call; what the types encode to is left out but for the number of slots. `args` is what the last setter was asked, and `wrapped` records
that the uint8 has run over, at the 256th name that was asked for and not registered.
`NvsLog` takes its setter's arguments from there: what it appends is the value its
caller named, under the one namespace its caller named. It promises nothing once
the counter has run over.

### Bundle

The build directory is a choice of keys and images, some of which cannot be read,
and a flash size. `FromBuildDir` keys contents by base name. `WriteEntry` puts one
tar entry into the file; `PackAborts` ends in between, with as much in the file as
the compressor let out; `Truncate` and `Damage` happen to the finished file, the
former also when closing it fails, which `cmdPack` ignores; `Open` reads entry by
entry and stops at the end of the tar, before the checksum of gzip. A digest stands
for its content.

### Identity

`MACs` as its commands: GET_SECURITY_INFO when the chip is not known, then two
READ_REGs, told apart from nothing but the opcode. An answer may come after the
host gave up. `stale` records that a call failed since the last `Connect`. A base
address is its first and last octet, the two that `DeriveMACs` changes.

### Monitor

Bytes are numbered. Each step of the loop is an action; `Write` goes through the
writers of the `MultiWriter` one by one; a read may fail with bytes in hand, a write
may fail half way. The goroutine of the signal is `Cancel`.

## 3. Runs

| Run | Expect | Bounds | Shows |
|---|---|---|---|
| `flash_write` | pass | 2 images (2 cells, 1 cell), 6 cells in 3 sectors, 3 faults | see below |
| `loader_session` | pass | 6 front-ends, 2 resets x 2 SYNCs, 2 echoes, 3 greetings, 1 block per segment, 2 faults | see below |
| `read_flash` | pass | 3 blocks of 4 bytes, window of 2, 3 faults | see below |
| `slip` | pass | 4 frames with every kind of escape, 2 faults | see below |
| `nvs` | pass | 4 calls, pages of 4 slots, a counter of 4 values, 3 names of which 1 too long, 2 lengths | see below |
| `bundle` | pass | 4 keys, 3 images, 2 contents, 2 flash sizes, 2 faults | see below |
| `identity` | pass | 3 calls, 3 faults | see below |
| `monitor` | pass | 4 bytes, buffer of 2, 2 faults | see below |
| `shared_sector` | violation | images sharing a sector, no fault | "done" does not mean written |
| `stub_unnoticed` | violation | `cmdFlash`, 1 fault | RunStub fails while the stub runs |
| `reconnect` | violation | one `Loader`, two Connects, no fault | a refused erase returns nil |
| `namespace_wrap` | violation | 3 namespaces, a counter of 3 values | a namespace with the index of the table |

`flash_write`. An image reported verified is in flash and stays there
(`VerifiedStays`), although a late answer can be taken for that of another block;
`LinkInv` says why (section 4). At any time only the sectors of the image the host
is at can change (`OthersUntouched`): nothing outside the plan's, which is the
README's promise for NVS, and none of a later image when an earlier one fails. Every
behaviour ends. A clean link succeeds and, on the ROM, one detectable fault on a data
packet is made good (`FaultMasked`). The whole implements `VerifiedWrite`, where images
are verified in order and only the one after the verified ones is ever disturbed. The
first plan has two
images so that the first can be disturbed by the second, one of two cells so that
there is a next block, one that covers half its sector, and a sector of nobody's.
Three faults are one more than there can be retries of a block; five were tried and
show nothing new.

`loader_session`. `StubMeansStub`: `Loader.stub` is never set without a running
stub. `TrailerAgrees`: no success is read with the wrong width. `NoFalseSuccess`:
each kind of command that returned nil was carried out since the last reset (the
blocks of an upload are not told apart). `BaudAgrees`:
whenever the next operation starts, both ends are at the same rate; if the answer
to CHANGE_BAUDRATE is lost the command ends. `ConnectMasks`: from any left-over
state, a session succeeds, also with one lost or late SYNC, or one missed strap.
`Terminates`: every front-end ends. Both suppose that firmware that booted by
mistake does not log for ever without a pause as long as a read waits
(`[]<>~Chattering`). Without that premise TLC finds a behaviour of one missed strap
in which Connect waits for the answer to a SYNC for ever.
Two attempts and two SYNCs stand for seven and five, and exercise every branch of
the loops; two echoes for seven, with the drain limit at the same number as the
echoes, as in the code.

`read_flash`. One fault of any kind never makes `ReadFlash` return wrong data
without an error (`OneFaultIsCaught`). Data is never taken for the digest nor the
digest for data (`FramesInStep`), as long as the damage cannot make up for the last
block. It always ends, and a clean link delivers verified data. Three blocks with a
window of two make the stub wait for acknowledgements.

`slip`. Whatever happened to the line, a frame arrives as it was sent if nothing
happened to it and to the one before (`Resync`); nothing is made up, repeated or
overtaken (`Refines`, of `FrameChannel`). The frames hold an escape at either end, one
that looks like an escape pair, and a single byte. Two faults can hit one frame, two neighbours, or the two
delimiters between them.

`nvs`. Entries lie within pages and share no slot (`Contained`); only the last page
can be empty (`NoEmptyPage`); namespaces have indexes of their own
until the counter has run over (`IndexesDistinct`) and come before their items
(`NamespaceFirst`); until then, a reader of the format finds what the setters that
returned nil were asked to store, under the namespace each was given, and nothing
else (`Refines`, of `NvsLog`). `Bytes` renders only what keeps a page in reserve, and
refuses only when every page before that one holds something (`BytesForCause`). Four
slots to a page and items of one, three and four slots make pages fill to the brim, be
left early, and be appended for nothing; four calls fill the partition and one page
more, and with four unregistered names, refused ones included, the counter of four
values runs over in the fourth call. Run `namespace_wrap` shows what becomes then of
the numbering that `nvs/FORMAT.md` gives.

`bundle`. A bundle that opens has the plan of the build directory, whatever became
of the file and of `pack`, provided the offsets in its manifest are as they were
(`SamePlan`): the digests cover the images, nothing covers the manifest. A bundle
that was packed and not damaged is refused only when two images of one base name
differ (`RefusedForCause`). The flash is set up with the size of the build, exact
when a uint32 holds it (`Exact`; wrapping, negative and unreadable sizes are outside
its premise). Plans are compared as the sets of orders the
unstable sort may give, so two keys of one offset are allowed for. The word of
`FlashSize` is scaled down to 4096 with 8 for 1024, which keeps a size in its upper
half; the theorem is for every word.

`identity`. Up to the first call that fails since a `Connect`, `MACs` returns the
addresses of the board (`RightAfterConnect`): the flush and the order of the two
reads suffice. The four addresses differ (`InterfacesDistinct`). A call ends
(`CallEnds`). The octets are chosen to wrap and to have either bit set.

`monitor`. Nothing the board sends is skipped, repeated or overtaken, on the
terminal or in the file, also when a read fails with bytes in hand (`Streamed`);
a signal ends the command although the board goes on sending (`Stops`).

Deadlock is not checked: in all the models the command ends, or its inputs run out,
and with it the behaviour. `Terminates`, `CallEnds` and `Stops` say that it
does not stop earlier.

### Fairness

Weak fairness on the host and on the chip, nothing on the link; in `LoaderSession`
strong fairness on the host. The host is a loop around reads with a timeout, so it
takes its next step. The timeout is one of each byte (`loader.go:53`), which matters
where something else than a loader may be at the other end: in `LoaderSession`, a
host that waits goes on only when the firmware pauses for as long as its read waits
(100 ms for a SYNC, 3 s for most commands). If there is such a pause again and again
it does go on, since each is one in which the read returns: that is the strong
fairness, and nothing obliges the firmware to pause. In `FlashWrite`, `ReadFlash` and
`Identity` a loader has answered before, and what follows a loss is silence. The chip
serves the requests it received. No fault has to happen, and none has to stop
happening (the bound stops them, and a pulled cable is final). `Slip` has no liveness
property. In `Identity` nobody has to call `MACs` or `Connect`. In `Monitor` the loop and the goroutine run;
the board may be silent and the user patient. Writers are assumed not to block for
ever, and a read of the port returns within its 200 ms.

### Findings

The four violation runs, in `PROJECT.json` with the lines they contradict:

1. `README.md:91` promises the images as listed; a plan whose images share a 4 KiB
   sector is not refused and loses part of the earlier image after it was verified.
2. `esp/stub.go:34` promises ROM mode after any failure; `memFinish` may swallow
   the greeting, and the fallback then talks ROM to a stub.
3. `Connect` does not reset `Loader.stub`; a library user who reconnects gets nil
   from an erase the ROM refused.
4. `nvs/FORMAT.md:156` numbers namespaces from 1. The counter is a uint8 that nothing
   checks: the 256th namespace has index 0, that of the namespace table itself, and
   those that follow repeat the earlier ones. A name that is refused as too long uses
   up an index as well: with `LongNames` not empty, `NumberedFromOne` fails after such
   a name and one that is accepted.

Limits of what the code guarantees, met while modelling, that appear as premises of
the properties that hold:

* `command()` compares opcodes only (`esp/loader.go:121`), where its comment says
  "matching". A late answer may be taken for that of the next block, which the digest
  makes harmless (`VerifiedStays`); for READ_REG it is not: `MACs`, called again after
  a timeout without a `Connect`, may return a wrong address without an error.
  `RightAfterConnect` has the premise `~stale` for that.
* `ReadFlash` compares the digest only if a 16-byte frame arrives (`esp/ops.go:70`).
  A damaged data frame and a digest that is late pass as verified: hence *one* fault
  in `OneFaultIsCaught`. If the last block is a single byte, one frame that grew by
  a byte is enough: hence `TailSize > 1`.
* `readFrame`'s timeout is one of each byte, and `command()` looks at its deadline only
  between frames: firmware that logs without end, and without 0xC0, holds a call, and
  with it `Connect`, whose context is looked at between resets only: `Terminates` and
  `ConnectMasks` need firmware that pauses.
* `pack` keys contents by base name: with two different images of one base name it
  reports success for a bundle that `Open` refuses, which is `Clash` in
  `RefusedForCause`.
* The namespace counter of `nvs` may run over (finding 4): `IndexesDistinct` and
  `Refines` say nothing from that call on.
* An NVS setter that fails on its key may have appended a page that counts in
  `Bytes` (`nvs/nvs.go:100`, `235`), so data that would fit can be refused: the
  empty last page of `NoEmptyPage`.
* `FlashSizeBytes` wraps at 4 GiB and takes an unreadable size for 4 MB: `Fits` in
  `Exact`.

A remark without a property: the usage text gives 460800 as the default rate of
`flash` (`main.go:62`), the flag and the README 921600 (`main.go:277`).

## 4. Proofs

Every invariant and every action property that a passing run checks, and all three
refinements, are theorems for every value of the constants. The hypotheses are the
named assumptions of the modules, which TLC evaluates in every run, and where a
theorem needs more, it says so in its statement: `SectorsDisjoint`, `CommandLines`.
What is left to TLC alone is liveness.

### The write protocol

`FlashWriteProofs` proves, for every plan, flash size, sector size and number of
faults (`PlanAssumption`: at least one image, none empty, all within the flash):

| Theorem | Statement |
|---|---|
| `TypeCorrect` | `Spec => []TypeOK` |
| `LinkCorrect` | `Spec => []LinkInv` |
| `OthersCorrect` | `Spec => OthersUntouched` |
| `VerifiedCorrect` | `SectorsDisjoint` implies `Spec => []VerifiedStays` |
| `DoneCorrect` | `SectorsDisjoint` implies `Spec => []DoneMeansWritten` |
| `Refinement` | `SectorsDisjoint` implies `Spec => Refines` |

`SectorsDisjoint` (no erase for one image reaches into another) is assumed where
it is needed and only there; run `shared_sector` shows that it cannot be dropped.

The argument. `VerifiedStays` is not inductive: when a digest is accepted, why is
it of the flash as it is *now*, and why can no straggler disturb the image later?
`LinkInv` says what may be on the link at each point of the exchange:

* `Lane`, `Requests`, `Responses`: only commands of the current image, and of the
  stage it has reached; every data packet on the link belongs to the image the chip
  is armed for.
* `LastDigest`: the digest request is the last request and is sent once per image,
  because an error of `flashMD5` is final; when its answer is on the link it is the
  last frame there, nothing is left that could change the flash, and it is the
  digest of the flash as it is, or damaged.
* `LinkQuiet`: so, the queue being FIFO, whoever accepts a digest has drained the
  link, surplus answers of retried blocks included; the next image starts on a
  quiet link. Digests are the fence that makes missing sequence numbers harmless.

That is why "md5 errors are not retried" matters: with a retry (mutant
`BugDigestRetried`) `LinkInv` fails, a stale digest may be accepted and frames of
one image live on into the next.

`LinkInv` needs, beside `TypeOK`, that the host awaits only commands (`Typed`);
`VerifiedStays` follows from both, from `SectorsDisjoint`, and from the lemma
`FlashStep`: a step changes a cell only within the sectors of the current image,
which is also `OthersCorrect`.
`Refinement` takes the images in flash for `present`, the images passed for
`verified`, and `pc` for `outcome`: accepting a digest is `Verify`, the end (or
its failure, best effort) `Finish`, every other error `Fail`, the rest `Disturb`
or a stutter.

### Framing

`SlipProofs` proves, for every sequence of non-empty frames over the five classes of
bytes and any number of faults (`SlipAssumption`): `TypeCorrect`, `ResyncCorrect`
(`Spec => []Resync`) and `Refinement` (`Spec => Refines`). `Resync` is not inductive:
`SyncInv` says where the decoder is while a frame to which nothing has happened is
being sent. Either it is in it, with exactly what was sent of it, and after the escape
if the sender is; or it is outside, and drops the frame to its end. If nothing happened
to the frame before either, its last delimiter left the decoder at a boundary, and it
is the first. Each fault puts its frame in `hit` and so makes the premise false. For
the refinement, the byte that completes an undamaged frame after an undamaged one is
`Deliver`, every other step a `Disturb` or a stutter.

### NVS

`NvsProofs` proves, for all names, lengths, page sizes and numbers of calls
(`NvsAssumption`: at least three pages, a counter of more than one value):
`TypeCorrect`, `ContainedCorrect`, `NamespaceFirstCorrect`, `NoEmptyPageCorrect`,
`BytesForCauseCorrect`, `IndexesDistinctCorrect` and `Refinement`, none of them with a
bound on the calls. `IInv` adds to `Contained` that everything written lies before the
next free slot, which makes the slots of a new item disjoint from all others. `NInv`
adds that, until the counter runs over, the indexes of the table are distinct and
between 1 and the counter (`Numbered`): the next is then new, and a reader finds exactly
one name for an index, the one the setter was given. `Ordered` puts an item after its
namespace. `Filled` adds to `NoEmptyPage` that the current page holds something once a
slot of it is taken: `fit()` leaves a page only for an item that fits an empty one, so
the page it leaves is not empty. `Said` keeps what `Bytes` answered in step with the
pages. A setter that succeeds is `Set` of `NvsLog`, one that fails is `Fail`, `Bytes` is
`Render`, and whatever happens once the counter has run over is `Exhaust`.

### Identity

`IdentityProofs` proves, for all octets, numbers of calls and faults: `TypeCorrect`,
`DistinctCorrect` (`Spec => []InterfacesDistinct`, by arithmetic on the octets) and
`RightCorrect` (`Spec => []RightAfterConnect`). The invariant says that while no call
has failed since `Connect` there is at most one frame on the link, the request the
host waits for or its answer, and that what was read so far is the board's.

### The session

`LoaderSessionProofs` proves, for any numbers of resets, SYNCs, echoes, greetings,
blocks and faults: `TypeCorrect`, whatever the front-end, and under `CommandLines`

| Theorem | Statement |
|---|---|
| `StubIsRunning` | `Spec => []StubMeansStub` |
| `SuccessIsReal` | `Spec => []NoFalseSuccess` |
| `RatesAgree` | `Spec => []BaudAgrees` |
| `TrailersAgree` | `Spec => TrailerAgrees` |

`CommandLines` says what the commands of `cmd/flasher` have in common: one Connect,
at the start; one RunStub at most; a reset only at the end; nothing that sends
GET_SECURITY_INFO once a RunStub whose failure is tolerated is behind. TLC evaluates
it for every front-end in `CLIAssumption`. Run `reconnect` has a front-end that
connects twice, and a false success; finding 2 is what becomes of a RunStub whose
failure is tolerated, and why nothing that could take a stub's answer for the ROM's
may follow it.

None of the four is inductive. Whether a response is genuine depends on frames
written long ago, so that the invariant is about the link:

* `Greeting`: an "OHAI" on the link was sent by a stub that runs, no MEM_END is left
  that could disturb it, and all that follows it has the stub's trailer. `RunStub`
  may thus go by the greeting alone.
* `OneJump`: at most one MEM_END is under way, and only to a chip that has not jumped.
* `Answered`: a response on the link that says success is of a command that the chip
  has executed since its last reset; and if it is that of CHANGE_BAUDRATE the chip is
  at the fast rate.
* `Untouched`: until MEM_END has been issued, the chip is as Connect leaves it, with
  nothing but ROM trailers on the link, or was never reached (`Dead`: Connect is still
  at it, and both queues are empty). `Switched`: once `Loader.stub` is set the stub
  runs, and nothing on the link is from the ROM. `Bauds`: both ends are at one rate,
  but for the time the answer to CHANGE_BAUDRATE is awaited.

The reset in Connect is what makes `Fresh` true whatever the session before has left:
the chip forgets what it was asked, and the host discards what it has received.

### Flash reading

`ReadFlashProofs` proves, for a region of any length, every block size and window, and
any number of faults: `TypeCorrect`, `InStep` (`Spec => []FramesInStep`) and
`FaultCaught` (`Spec => []OneFaultIsCaught`).

The host knows only a count of bytes; the invariant has to tie it to the frames.
`InOrder`: what arrives as the i-th frame of data was sent as the i-th or a later one.
`Weighs`: there is a bound on the count after each frame to come, such that a frame
takes at least `TailSize` of the bytes sent, a frame that is missing as well, and each
fault adds at most one byte. So with fewer faults than `TailSize` a full count means
that nothing is missing (`AllRead`): data and digest are told apart. `OneDamage` says
that a single fault is in one frame only, of data or the digest, and `Kept` that as long
as no frame was lost, the last acknowledgement reaches the stub and the digest the host:
so damaged data meets an undamaged digest that did arrive.

The bound is an existential over functions on the queue rather than a sum, which would
be recursive: each step of the link gives the function of the next state from that of
this one.

### The bundle

`BundleProofs` proves, for all builds with finitely many keys, all contents and sizes,
and any number of faults (`BundleAssumption`; `flash_files` is a JSON object, so its
keys are finitely many): `TypeCorrect`, `SamePlanCorrect`, `RefusedCorrect`,
`ExactCorrect`. The invariant says that the file is, entry by entry, a copy of what
`FromBuildDir` made of *some* order of the keys, in all that damage cannot change
without a digest telling (`Copied`), and that what `Open` has read is what it read
(`ReadSoFar`). That a bundle has the plan of the build directory takes that sorting an
order of the keys by offset, and sorting the result again, give the same plans: the
offsets of a sorted list are determined by those of the unsorted one (`SortedUnique`,
by the pigeonhole principle; no induction is needed), and the images follow by a
permutation.

`FlashSizeCorrect`: for every word, unit and size whose bytes fit the word,
`FlashSizeBytes` is the product. The conversion to uint32 comes before the
multiplication, so that it has to be shown to lose nothing.

### The monitor

`MonitorProofs` proves, for every buffer and any number of bytes and faults,
`TypeCorrect` and `StreamedCorrect` (`Spec => []Streamed`). As long as no write has
failed, what each writer has, what is in hand for it and what waits to be read make up
what the board has sent (`Joint`); a write that failed is the last and leaves a prefix
with each writer.

### Model-checked only

Liveness under fairness (`Terminates` of three modules, `FaultMasked`, `ConnectMasks`,
`CleanReads`, `CallEnds`, `Stops`), which is out of TLAPS's reach, with the
bounds of section 3. The four violation runs are counterexamples and need no proof.

## 5. Not modelled

* The arithmetic of the checksum (a damaged data packet is refused or slips through,
  both possible), header layout, CRCs and encoding of NVS entries, tar and gzip below
  their entries, collisions of digests.
* Empty images (`PlanAssumption`), images beyond the end of the flash, flash
  geometry, encrypted flash.
* Damage to what the checksum does not cover, other than as a loss: the offset and
  size words of BEGIN, the sequence word of a data packet, opcodes (`FlashWrite`,
  `LoseRequest`). A chip that acted on a damaged offset would write elsewhere, and
  `OthersUntouched` does not speak of it.
* Damage to a response in `LoaderSession` and `Identity`, other than its loss;
  `FlashWrite` and `ReadFlash` have it. Damage to acknowledgements of a read, other
  than loss.
* Real time: only the order of events. `command()`'s own deadline coincides with a
  timeout of its last read.
* More than one board for one `Loader`: `Loader.chip` is never cleared.
* `ParseTable` and `FindEntry`: a pass over bytes that keeps no state and that no
  command calls. Port detection: a pass over a list and a switch on two counts. For
  both, a definition of the right result would be the code again.
* `unpack`, `list`, flag parsing and printing, the names of chips, roles and
  key purposes, the fields of the security information.
* Transport and embedded stubs: external.

The chip side (ROM loader, stub, flash, cable) is not in the repository. It is
modelled from how the code uses it: one response per request, in order; SYNC
answered several times; trailers of 4 and 2 bytes; the stub greets with "OHAI";
digest after the last acknowledgement. `map` marks these definitions external.

## 6. Plan

Done: all modules above, and the proofs of all their safety properties. Next:

1. `Unpack` in `Bundle`, as a third way out of `Open`, with the proof that the
   directory it leaves has the plan of the bundle.
