# Formal models of PUP, the program uploader, and of its board libraries

The repository holds PUP, which uploads programs to a BCM2835 board over a serial
line, and a set of bare-metal libraries and experiments for that board. This
directory specifies the parts that carry its own logic in TLA+, model-checks them
with TLC on small instances and proves the most important properties with TLAPS for
every instance. `PROJECT.json` maps every definition to the lines it models.

## 1. Inventory

| component | state it keeps | operations | interacts with | what is hard, what makes it correct |
|---|---|---|---|---|
| PUP device side (`pup/fsm.c`, `fsm_download`) | receive state, identifier, chunk number, two timers, verdict | wait for POLL, ask for and take chunks, heartbeat, send BOOT, wait for its ACK | the line; image placement (`platform_*`) | lost and stale frames, timeouts racing answers; chunks in order, boots only after its verdict was told, never hangs |
| PUP host side (`fsm_upload`, `pup/host.c`) | loop it is in, retries, last chunk, timers | poll, serve chunks, watch heartbeats, acknowledge the verdict | the line; the file | restarts, retries; returns, and reports only verified successes |
| Wire framing (`fsm_recv`, `fsm_recv_ack`, `fcs.c`) | header/body buffer, TIMER_SYMBOL | find SOH or ACK, check FCS, time out between symbols | UART | resynchronisation after damage |
| Image placement (`pup/bcm2835.c`) | metadata, image range, relocation record, feed pointer | `platform_init_meta`, `platform_feed`, `platform_load_image`, `trampoline` | protocol, trampolines | the image may overlap the running boot loader |
| Flat trampoline (`trampolines/bin.bcm2835.S`) | registers | coarse copy, fine copy, jump | memory | it overwrites its caller; must not overwrite itself |
| ELF loader (`pup/elf_loader.c`) | memory map, operation list | claim, allocate, register, place trampoline | image placement | the file, the segments, the trampoline and the boot loader share memory |
| ELF trampoline (`trampolines/elf.bcm2835.S`) | registers | move the file, run operations, jump | memory | order of overlapping copies |
| XZ decoder (`pup/xz-embedded`, called by `platform_feed`) | container state and running sums, LZMA2 chunk state, circular dictionary, temporary input, BCJ buffer | `xz_dec_run`, `xz_dec_lzma2_run`, `xz_dec_bcj_run` | image placement | suspended at any byte of any field, with any room for output; the result must not depend on where |
| Host program (`pup/host.c`) | `opts`, the file and its offset, the metadata | parse arguments, find and reset the board, detect XZ and ELF, find the unpacked size, serve chunks, console | files, serial ports, host side of the protocol | metadata must describe the file whatever was read of it before; the port must be the one asked for |
| Host serial ports (`host_linux.c`, `host_macos.c`) | open descriptors and locks | enumerate, match, open, reset | operating system | a port held by another program, a string that is a path, a serial number or neither |
| DMA programs (`bcm2835/dma/emit.h`, `private.c`) | arena, table of monomorphised buffers, control blocks, initialisers, probes | emit, allocate, look a buffer up, initialise once | DMA engine | self-modifying control blocks; two operations must not get one buffer |
| DMA arithmetic (`arith_*.c`) | truth tables, emitted programs | add, subtract, negate, shift, bit operations, compare | DMA programs | every operand must give the right result |
| DMA channels (`dma.c`, `dmakit.c`) | channel reservations, debug registers | initialise, acquire, release, timed run | DMA engine, VideoCore | error bits left by an earlier run; who has which channel |
| Page allocator (`240-superopt/ppa.c`) | mask of whole supersections, lists of floating regions, bitmap per region | allocate and free at four sizes; float, commit | superoptimiser | long legal sequences of operations |
| Integrity checker (`240-integ/2-integ.c`) | list of regions with flags and hashes, the machine's memory | check coverage, prepare, run a payload, check, report | payload, reset | the payload may write anywhere, the stack the checker runs on included |
| System timer and mailbox (`systmr.c`, `ptags.c`) | device registers; a buffer in cached memory | read a 64-bit counter in halves, delay; ask VideoCore | everything | the counter runs on between two reads; stale cache lines |
| Serial driver, other drivers, CRC tables, runtime support, demonstrations | | | | single register accesses, tables or no lasting state: not modelled, see section 7 |

The host polls with the metadata of a file; the device plans where the image goes and
answers with an ACK and a request for chunk 0; every chunk is handed to the image
placement; after the last one the image is verified (heartbeats keep the host alive
meanwhile), the verdict is sent as BOOT, and when BOOT is acknowledged the device
enters the trampoline, which finishes placing the image and starts it.

## 2. Plan

1. `PupProtocol` with the abstract `ImageDownload` - the system's core: done.
2. `BootImage`, placement and flat trampoline: done.
3. `ElfLoader`, ELF loading and trampoline: done.
4. `PupFraming`, what `PupProtocol` assumes of its line, byte by byte: done.
5. The way of a compressed image, `XzStream`, `XzLzma2` and `XzBcj`: done.
6. `DmaArith`, `DmaChannels` and `DmaArena`: done but for multiplication, which the
   source does not finish.
7. `PupHost`, `PageAllocator`, `IntegrityCheck`, `SystemTimer`, `Mailbox`: done.
8. `DataPath`, which composes the framing and the decoder for every value of their
   constants: done.
9. Proofs: every safety invariant of `PupProtocol`, `BootImage`, `ElfLoader` and `Parts`,
   and of `DataPath` and `DmaArith` those that do not compare with a fold over data: done
   (section 6).
10. Left: `UmulWide`, once the source finishes it. `OutputIsReference`, `FeedFaithful` and
   `ResultRight` compare with a fold over data and stay with TLC, and `FramesWereSent` holds
   only for as few faults as its bound allows.

## 3. Modules

### PupProtocol (`pup/fsm.c`, with `host.c` and `bcm2835.c` where it calls them)

State: the frames on the line in each direction (`toDev`, `toHost`); for each party where
it is blocked (`hState`: the poll, chunk and heartbeat loops of `fsm_upload`; `dState`: the
POLL wait, the chunk loop, loading, the BOOT loop of `fsm_download`), its local variables
and its two timers as ages; `verified` and `told` record what the device found good and
what a user was told. Everything a party does between two receives is one action; what it
sends is part of the action. `Tick` lets time pass, `Damage` drops a frame, `HostStart` is
a user starting the program (also while one runs), `DevReboot` a power cycle.

Abstractions. A frame is one record and is lost as a whole (a damaged one fails its FCS,
one sent into a full receiver is overrun); bytes inside a body that look like an ACK are
left to `PupFraming`, which shows that what is delivered is
a subsequence of what was sent. Timers count ticks of one clock, capped at their period. The
image is a name, and some are compressed (`Packed`). The CRC of `platform_load_image` detects
any chunk sequence that is not the announced file (`Intact`), but it is taken of plain images
only: for XZ the device sets `crc_ok` and looks at the length of the output alone
(`bcm2835.c:350`, 394-397). Chunks of another file in a packed session may therefore be
refused by the decoder at once (`DevFeedFails`), refused at the end or found good
(`Verdicts`). Identifiers are 16-bit (`IdenMod`), and an image has fewer
chunks than there are identifiers (`IdenAssumption`: 4 GB against 512 MB of memory).

### ImageDownload

What the boot loader promises without frames, identifiers and timers: it takes the chunks
of one image in order, judges all of them (a plain image rightly; a packed one of which
another file came either way), and boots or starts over. `PupProtocol` is shown
to implement it under the mapping `Download` (`DownloadSpec`), by TLC and by TLAPS.

### BootImage (`pup/bcm2835.c`, `trampolines/bin.bcm2835.S`)

State: the metadata, the image range, the relocation record, the feed pointer, the number
of chunks fed, the verdict, the stub's registers and the whole memory, byte by byte. Byte
k of the announced image is the number k, so that a property can say which byte is where.
`InitMeta`/`NoRoomForMeta` are `platform_init_meta`; `FeedChunk`, `FeedAlien`,
`FeedInflated` and `FeedSwapped` are `platform_feed`, all through `FeedImpl` with its three parts; `LoadImage`
is `platform_load_image`; `Trampoline` is `trampoline`; `CopyCoarse`, `StartFine`, `CopyFine`
and `Jump` are the stub. `FeedAlien` is a chunk of another file: `PupProtocol` shows that a
host restarted at the wrong moment serves one. `feed_impl` compares nothing with `img_end`,
so such a chunk may run over the end of the image; where that reaches the running boot
loader or leaves memory (`Escapes`) the device is `"lost"`. The relocated part is copied by
32-bit register arithmetic (`WordMod`). As long as only the announced file is received, an
unpacked XZ stream is the announced image, in pieces of any length; that the decoder
delivers it whole, however it is fed, is the subject of `XzStream`. Once a chunk of another
file came (`swapped`), the decoder puts out bytes of its own choice (`Alien`), as many as it
likes, and nothing but their number is checked (`ReachedEnd`). Cache maintenance is not modelled.

### ElfLoader (`pup/elf_loader.c`, `trampolines/elf.bcm2835.S`)

State: the file (byte k is the number k), the memory map, the places allocated, the list
of operations, and memory. `Validate`, `ClaimSegment`, `AllocateElf`, `RegisterOps` and
`PlaceTrampoline` are `load_elf_image`; `MoveElf`, `RunOp` and `Start` the trampoline.
`allocate_space` keeps the unsigned subtraction. The checks of `validate_elf_header` are one
Boolean, and the one element `claim_space` moves past its array is not modelled. Of a file it
is assumed (`ElfAssumption`) that its segments are not empty, lie in the file and in memory,
and do not share memory, as a linker makes them; the code checks none of this. The loop of
`allocate_space` is the recursive function `Search`, one `SearchTurn` for each range.

### DmaArith (`bcm2835/dma/emit.h`, `arith*.c`, run by `dma.c`)

A DMA controller copies bytes and nothing else. An operation is a chain of control blocks
that overwrite the source addresses of later blocks with operand bytes, so that the byte
those copy comes from the right entry of a table. State: the control blocks with their
three variable address bytes, the block to be executed next, and the bytes of operands,
result and scratch buffer. The initialisers are the table operators (`AddEntry`, `GesEntry`,
`SetTruth`, ... collected in `Hyper`, `Truth` and `Fetch`), the emitters (`Inc`, `Add`, ...,
`Ges`) return the blocks the C functions emit, in the same order and with the same targets.
`Run` is `__dma_timed_run` with new operands in place; `Execute` is the controller taking one
block (external: 2D transfers with strides, fixed or advancing source, the next block).

Abstractions. A byte has `Bits` bits; the selectors of the tables keep their values, which
are larger than such a byte, so a carry in a result byte is never mistaken for data. An
address is a region and three bytes; the tables are aligned so that the code never carries
between those. The scratch buffer is fresh and zero, as one from `ARENA` (static memory,
never reused) is. Errors and speed of the controller, its cache and its channel are left
out, as is `UmulWide`, which the source does not finish. `Emittable` is what the emitters
assert: shifts have two bytes or more, and `Neg` of width 3 fails in `arena_alloc`. The history variables `executed`,
`lhs` and `rhs` record the current run. `SizesAssumption`: widths are 1 to 15, as the emitters
assert, and a byte has at least one bit.

### PupFraming (`pup/fsm.c`: `fsm_send`, `fsm_send_ack`, `fsm_recv`, `fsm_recv_ack`)

State: what the peer still has to send and has sent, the bytes on the line, the receiver's
place in its state machine with its header and body buffers, an expired session timer and
what was delivered. `Start` and `Put` write a frame byte by byte, `Chatter` is console
output between frames, `Lose` and `Damage` are the line; `ReadStart`, `ReadInside` and
`ReadLast` take a byte as the `switch` of the receiver does, `SymbolTimeout` is
TIMER_SYMBOL, `ReturnTimer` the return for TIMER_RESET or TIMER_RESEND. Nothing is escaped,
so the bytes of the instances look like SOH, STX and ACK. The check sequence is
ideal (tagged with what it covers), a header is two bytes and its check sequence.

### XzStream (`xz_dec_stream.c`, `platform_feed` of `bcm2835.c`)

State: how much of the file has been fed and consumed, `decompress_buffer`, the image
written, and `struct xz_dec` with its sequence state, temporary buffer, running sums of
Blocks and Index. `Feed` and `FeedLoop` are `platform_feed`, one action per state of
`dec_main`'s `switch` (`StreamHeader`, `BlockStart`, `DecBlockHeader`, `DecBlock`, ...) with
`Fill` for `fill_temp`. The filter chain is what its bytes decode to, and may keep some
output back (`Hold`); checksums are ideal; the hash of the Index is the list of its
records.

### XzLzma2 (`xz_dec_lzma2.c`)

State: `struct lzma2_dec`, the circular dictionary, `rep0` to `rep3`, the range decoder's
position and limits, `temp`. `Control`, `SizeByte`, `Properties`, `LzmaPrepare`, `Copy` are
the states of `xz_dec_lzma2_run`; `RunTemp`, `Symbol`, `PendingRepeat`, `TempDone`,
`RunDirect`, `DirectDone`, `SaveRest`, `Flush` are `lzma2_lzma` and `lzma_main`. A
compressed chunk is the list of symbols it decodes to with the bytes each takes; the
probabilities and the arithmetic of the range decoder are left out. `Ref` is the reference:
a decoder that sees the whole stream at once and keeps everything it has written.

### XzBcj (`xz_dec_bcj.c`)

State: `struct xz_dec_bcj` with its position, the bytes in `temp`, and what was written.
`Give` is more input, `Run` one call in its steps: flush, decode directly into the
caller's buffer, decode into `temp`. Only the ARM filter is built. A byte carries the
address it was converted with, so that a wrong or second conversion is visible.

### PupHost (`pup/host.c`, `host_linux.c`, `host_macos.c`)

State: the arguments parsed, `opts`, the ports held and reset, the offset of the input
file, the metadata, the ranges sent. `ParseArg` and `ParseDone` are `parse_opts` (a device is looked for
while its argument is parsed), `PickDevice` the automatic choice, `Reset` both
`reset_serial_device`s, `StatAndCrc` and `Inspect` the rest of `main`'s preparation,
`PlatformMarshal` and `UploadEnds` its upload, `Console` what follows. The content of a
file (XZ, ELF, unpacked size) is given with it; system calls are the state of a port.

### PageAllocator (`240-superopt/ppa.c`)

State: the mask of whole supersections, the lists of floating regions with their links,
the bitmaps and counters, and the regions handed out. `Alloc`, `AllocFails` and `Free` are
`ppa_alloc` and `ppa_free` with everything they call, bitmaps included as the code computes
them; `CommitLevel` and `FreeLevel` are one level of the recursions of `commit_region` and
`free_region_recursive`. `unfloat_region` stores the new head of the list behind the allocator
(`ppa.c:63`), so the list keeps its head and the program goes on with a supersection that is
on the list and free; the history `stray` collects those supersections. The counts of floating
regions are left out: nothing reads them.

### IntegrityCheck (`240-integ/2-integ.c`)

State: the list of regions, the header with flags and checksums, the content of every
region, the stack below `sp`, the verdict. `CheckCoverage` is `integ_check_coverage`,
`IntegRun` the preparation up to the call, `PayloadWrites` a payload that may write
anywhere, `PrecheckFails` and `IntegChk` what follows it, `ClearMarks` the next round of
`main`. The history `leftover` is what the payload itself left on the stack below `sp`, apart
from the registers the checker pushes there (694). Hashes are free of collisions. `main` leaves
IHF_ExpectStackCleanup off; the model has it both ways.

### SystemTimer (`systmr.c`, `dma/private.c`), Mailbox (`ptags.c`)

`SystemTimer` has one action per register read of `systmr_read_raw` with `Tick` in between,
`systmr_delay_us` on top of it, and the length of a DMA run put together from the
microsecond and the 32-bit cycle counter. `Mailbox` has memory and data cache for each line of
the buffer; `FillAndFlush`, `MboxWrite`, `MboxRead`, `ReadCode` and the copy of the
value are `mail` and its callers, `VcAnswer` is VideoCore (external), and a line may be
cached again at any time, because the buffer is on a stack in use.

### DmaChannels (`dma/dmakit.c`, `dma.c`), DmaArena (`dma/emit.h`, `private.c`)

`DmaChannels` has who holds which channel, the error bits of every channel and the run in
progress. That a bit of the debug register is cleared as the code writes it and that the
error flag of the status register follows it are assumptions on the controller. `DmaArena`
has the arena's pointer, the entries of each use of `MonomorphizeOn` and their number, the buffers
handed out and the word at address 0, which takes part because `_mono_set` and `_mono_get`
copy through null pointers.

### Compositions and proofs

`DataPath` puts `PupFraming` and the three decoder layers behind one specification,
`Parts` the seven others: each behaviour runs the part that `part` names, the others'
variables hold `None`. The parts of one composition share no state while the code runs
them, so nothing is lost by not interleaving them. The `MC*` modules give constants
values. `PupProofs`, `BootProofs`, `ElfProofs`, `PartsProofs`, `DmaArithProofs`,
`DataPathProofs` and `XzProofs` hold the proofs, `NumberFacts` what they share about numbers.

The assumptions of `DataPath`, and what in the code they come from:

* `LineAssumption`: what is sent are frames and acknowledgements, and noise and damaged bytes
  are bytes, never the right check sequence of something (the ideal FCS).
* `BcjAssumption`: `temp.buf` (16 bytes) holds at least one instruction (4).
* `Lzma2Assumption`: LZMA_IN_REQUIRED (21) is at least 2; sizes are numbers.
* `StreamAssumption`: the sizes of fields, chunks and buffers are numbers.
* `EncodedAssumption`: an LZMA2 stream is a sequence of numbers, its compressed chunks hold
  symbols that read no more than LZMA_IN_REQUIRED bytes each, as `xz_dec_lzma2.c` states of
  them; a file is a sequence of bytes, some of which decode to output. It is all that is
  assumed of the input: nothing says that it is well formed.

The assumptions of `Parts`, and what in the code they come from:

* `HostAssumption`: no argument, file or port is None (None stands for the null pointers
  and negative descriptors of `host.c`); no number given as an option is `~0ULL`, which `opts`
  uses for "not given"; a file, packed or not, has less than 2^32 bytes, the width of the
  sizes on the wire.
* `PageAssumption`: there is a supersection, a region has at least two children, and the index of no
  region is SIZE_MAX (0x2220 regions).
* `ClockAssumption`: the whole counter is two words of the same width; a behaviour is
  shorter than a turn of the 64-bit counter (584000 years), and behaviours that start at
  different times are told apart by the gap between them; a delay is a 64-bit number;
  `arm_freq` is a number of MHz. For the length of a DMA run, the reads lag by less than
  half a turn of the cycle counter, and cycles times 10^6 fit in 64 bits.
* `IntegAssumption`: the regions of `main`'s table carry no marks, and none is both
  purgable and a stack; addresses and sizes are numbers; the header is not empty.
* `DmaAssumption`: a client is neither VideoCore nor NULL.
* `ArenaAssumption`: the arena lies above every width, so that an entry of the table of
  buffers (an address) is never mistaken for a width; alignments are not 0.

## 4. Runs

| run | shows | bounds |
|---|---|---|
| `pup_protocol` | chunks are fed in order (`FedInOrder`), a reported success was verified (`OkMeansVerified`), nothing is booted before a verdict was told, and while the host was started once only the image it was told of (`BootedMeansTold`), the device implements `ImageDownload`, the host returns (`HostTerminates`), the device never hangs in a session (`DeviceReturns`) | three images of 2, 1 and 0 chunks, the first packed and of a format that does not load, the last refused, two host invocations, a power cycle, three frames per direction, unlimited loss, no assumption on speed |
| `pup_prompt` | a good image arrives if no more frames are lost than there are retries (`Succeeds`) | two losses, two retries, periods 1 and 7 |
| `pup_boot_unverified` | violated: the device boots an image that failed verification | one image |
| `pup_lost_ack` | violated: the host reports a booted device that is not booted | one loss |
| `boot_image` | the boot loader survives, verdicts are about the bytes that will be started, the stub survives its own copy, the image is complete when started, whole words always start | 80 bytes of memory, boot loader of 24, chunks of 15, decoder output in pieces of up to 17 |
| `boot_odd_size` | violated: the stub's copy does not stop at the end of the relocated part | images of 20 and 22 bytes |
| `elf_loader` | the map is sorted, file, segments and a low trampoline are apart, the program finds everything | 44 bytes, files of 5, 9 and 25 bytes, one or two segments |
| `elf_delivered` | violated: a trampoline above the boot loader destroys the file | as above |
| `dma_arith` | each finished operation but `Lts` computes what its name says in every run (`ResultRight`), each writes nothing else (`NothingElseWritten`), modifies only blocks still to come (`PatchesAhead`) and ends (`Halts`) | bytes of 3 bits, widths 2 and 3, result apart or over the left operand, two runs, 8 left operands by the same 8 and every shift count |
| `data_path` | fsm_recv delivers only frames that were sent and in order (`FramesWereSent`), and every undisturbed one that starts in step with it (`IntactFrameDelivered`); the decoder layers give the reference's result wherever they are cut (`OutputIsReference`, `FeedFaithful`, `FilteredOnce`), stay in their buffers (`StaysInBounds`) and reach a verdict (`Completes`); a receive call returns (`ReceiveReturns`) | scripts of two or three transmissions, two faults, two bytes in flight, noise; 15 LZMA2 streams, two bytes to start the range decoder, dictionary of 5, calls with up to 4 more bytes in and 3 out; 4 sound files and one for each of 19 damaged fields, frames of up to 5 bytes, output buffer of 2; two instructions of 3 bytes and a part of a third, `temp` of 4 |
| `parts` | the metadata and chunks describe the file (`MetaDescribesFile`, `ChunksCoverFile`), the port is the one asked for (`RightDevice`), times are right (`ClockSound`), a payload's changes are reported (`CorruptionReported`), accepted regions cover memory once (`CoverageSound`), results are of this request (`ResultsFresh`), nothing is handed out twice but supersections left on the list (`AllocationsApart`) | up to 4 arguments out of 21, 4 files, 5 ports, chunks of 3; 2 supersections of fan 2, 4 regions live; all lists of two and three regions over 5 bytes; halves of 16 shortly before the lower half and the whole counter overflow, runs of up to 70 cycles on a cycle counter of 16; both alignments of the mailbox buffer; 3 channels, one lite, 2 clients; arena of 24 bytes, 3 entries, 2 contexts, 1 probe |
| `ppa_overlap` | violated: a supersection is handed out whole and then in parts | 2 supersections of fan 2, 3 regions live |

Further configurations, for properties that the runs above leave out because the code
does not have them:

| configuration | module | violated |
|---|---|---|
| `DmaLts.cfg` | `MCDmaArith` | `TestedLts`: `2-arith-test.c:373` asserts of `Lts` that it computes `a >= b`; `arith.h:144` inverts `Ges` |
| `PackedCrc.cfg` | `MCParts` | `CrcOfImage`: `common.h:46` announces the "CRC32 of (uncompressed) image"; the host computes it over the packed file |
| `IntegCleanup.cfg` | `MCParts` | `UntouchedIsClean`: with IHF_ExpectStackCleanup the checker's own push (`2-integ.c:694`) makes a payload that changed nothing look as if it had |
| `ElfBootAlloc.cfg` | `MCElfLoader` | `BootLoaderKept`: `elf_loader.c:109`, an unsigned difference puts the trampoline into the boot loader |
| `DmaTimesFour.cfg` | `MCDmaArith` | `TruthTimesFour`: `arith_cmp.c:15`, `POLAR_TRUTH_X4` holds 1 instead of 4 for `Geu`; the test has the flag only with `Ltu` and `Neq`, which use the other tables |
| `PpaExhausts.cfg` | `PageAllocator` | `GivenFitsMemory`: `ppa_alloc` hands out more than there is, because `__builtin_clz` of a 16-bit bitmap is at least 16; `1-test-ppa.c` asserts the contrary |

`PupRetries.cfg` checks `HostTerminates` and `DeviceReturns` once more, with a retry and two
frames in flight; they hold.

Why the bounds are enough. Stale frames need a second session or invocation, which two
invocations, timeouts and a power cycle give; a chunk can be confused with another only if
there are two of them; with three frames in flight a reply, a repetition of it and a frame
of the next session are on the line together; a packed image and a plain one can each be
swapped for the other. In `boot_image` the images start before,
at, inside and behind the boot loader and end before, inside and behind it; chunks, like
the real 65535 bytes, are one byte short of a number of words, so that pieces straddle
every boundary; relocations have sizes with and without a coarse and a fine part; images
that do not fit are included. In `elf_loader` the segments cover every position relative to
boot loader, file and trampoline. In `dma_arith` width 3 has a first, a middle and a last
byte, operands carry or borrow through none, some and all of them, shift counts go up to
and beyond the whole width, and the first run leaves its addresses in every block.
In `data_path` two faults are enough to lose the start of a frame and to damage the length
of the next one; the LZMA2 streams wrap the dictionary inside a match, end a
call inside a match, inside every size field and between the bytes that start the range decoder, need `temp` at the end of an input and of
a chunk, are too short to start the range decoder with and without new properties, and
hold each legal and illegal reset; a frame may end at every byte of every
field of the container; the BCJ block is longer than `temp` and is not a number of
instructions. In `parts` four arguments are an option with its value, a file and one more;
the timer instance overflows within a read; the cycle counter wraps up to four times in a run;
the arena, its entries, its contexts and its probes all run out.

All runs say `CHECK_DEADLOCK FALSE`: the host returns, a decoder reaches its verdict,
a failed assertion ends a program on the board, the device waits for a POLL for
ever, a started image runs outside the models, a failed load ends, and nobody need run a DMA
program again.

Fairness. `PupProtocol` assumes that time passes, that both receive loops look at the line
and at their timers again and again (they are busy loops on their own processors), and
that loading takes finitely many steps; nothing is assumed of users, losses and power
cycles. `Succeeds` needs a line and processors faster than a timer tick (`Prompt`), which
the code needs too: its timers are hundreds of times the duration of a frame.
`BootImage` assumes that the stub, once entered, runs, and `DmaArith` that the controller
goes on with the next block. In `data_path` the receiver and its timers run (weak fairness)
while the peer may stop or chatter for ever; the host sends every chunk and the decoder,
called, goes on (weak fairness of its next step; for the BCJ filter strong fairness of
getting more input, because a call that used nothing up may always come between). `parts` is
about safety only.

What the properties do not claim. BOOT and ACK frames do not name an image, so
`OkMeansVerified` names the image only for a host that was started once: after a
restart, a stale ACK and a power cycle the second invocation can be told of the success
of the first one's image. For the same reason `BootedMeansTold` names the image only for
one invocation: a restarted host may acknowledge the BOOT of its predecessor's session. The POLL is acknowledged once per session: a lost ACK costs a
whole reset period and a retry, and because both sides' reset periods then run out of
phase, a reset period of only three resends needs more retries than losses; `pup_prompt`
uses the ratio of the configured periods (500000/70000, rounded down to 7).
`LowDelivers` is about trampolines placed below the boot loader, the only place where the
file is safe (see the findings). `DownloadSpec`, `VerdictSound` and `StartedComplete` do not
claim that a compressed upload is the announced one: the code takes no CRC of it, so that
another file of the same unpacked length, served by a restarted host, is started as good.
What they claim of it is that the bytes judged are the bytes started. `dma_arith` leaves out `Geu` with `ICF_X4`, which
`DmaTimesFour.cfg` shows wrong, and `ResultRight` leaves out `Lts`, of which code and test say
opposite things (`DmaLts.cfg`); `dma_arith` also leaves out width 1, where `Add` and `Sub` copy a carry behind the
result. `WholeApart` is about supersections handed out whole: the smaller regions of
`ppa.c` do overlap (see `PpaExhausts.cfg`), and so does a supersection that was divided and
freed before (`ppa_overlap`); it shows that the damage stays with that supersection.
`MetaDescribesFile` leaves the checksum of a packed file to `PackedCrc.cfg`.
`CorruptionReported` excludes a payload that writes to the header, which nothing detects, and
allows a mark on the stack the checker itself pushed on (`IntegCleanup.cfg`). It is about the marks and
about Clean; how bad a change is stays open: the last region marked decides, and although
`integ.h:48` calls the stack above `sp` critical, its change only counts as its region's
flags say. `DelayLasts` holds for delays whose end does
not overflow 64 bits, `TimeExact` for runs whose cycles times 10^9 (`private.c:215`)
fit in 64 bits. `DeliveredWasSent` rests on the ideal check sequence:
header and body have one each, and the header of one frame joined to the body of
another would be accepted, which takes more faults than the bound.

## 5. Findings

Each is a run with `expect: violation`; `PROJECT.json` quotes the lines.

* `fsm.c:452`: the device boots after the ACK whatever `boot.is_ok` says.
* `fsm.c:614`: the only ACK of BOOT may be lost after the host has reported success.
* `bin.bcm2835.S:96`: the fine loop stops at exactly zero and counts by four: an image
  whose relocated part is not a multiple of four bytes is copied for ever.
* `elf_loader.c:244`: a trampoline above the boot loader is placed over the received file.
* `ppa.c:63` stores a list head under the region's index, outside the array: a supersection
  that was divided and freed is handed out whole and in parts at once.

Met while modelling, and kept in the models as the code has them; those with a
configuration in section 4 can be seen with it:

* `2-arith-test.c:373` compares `Lts` with `a >= b`, the opposite of what its name and
  `arith.h` say and of what the code computes (`DmaLts.cfg`).
* `common.h:46` documents the CRC as that of the uncompressed image; the host computes
  it over the file as it is sent (`PackedCrc.cfg`).
* `bcm2835.c:394` takes every XZ stream of the announced unpacked length for the announced
  image ("CRC was already checked by xz-embedded", which checks the stream against itself).
* `host.c:143`: `-R` sets `opts.debug` to the name of the option instead of waiting for its
  value, so that the number of retries the help text (195) offers cannot be given.
  `host_pread` (444) ignores its offset and length and reads six bytes into four.
* `host_linux.c:439` calls `fstat` on a descriptor not yet set: on Linux any port the
  process holds may be the one that is reset.
* `2-integ.c`: the hash of the header is computed and never compared (703); the verdict is
  that of the last region found changed; the sort of the regions exchanges with the slot
  behind the last region (278), so that it does not sort; `main` ignores
  the result; the checker's own `push` (694) dirties the stack below `sp`, which
  IHF_ExpectStackCleanup expects to be zero (`IntegCleanup.cfg`; `main` leaves the flag off).
* `systmr.c:31`: a delay whose end overflows 64 bits returns at once if the second read still
  gives the first one's value.
* `dma.c:24` names the read error twice and the FIFO error never: after a FIFO error the
  next run on the channel ends in an assertion.
* `private.c:115`: `MonomorphizeOn` copies through null pointers and hardly ever finds an
  earlier buffer. `emit.h:269` asserts the opposite of what it needs, the arena refuses a
  block that ends where it ends, and `Neg` of width 3 asks for an alignment of 3.

## 6. Proofs

From the named assumptions of the modules (section 3; for the protocol, types of the
constants and identifiers that do not wrap within an image; for the placement, a word-aligned
layout with room for buffer and stub), for every value of the constants. TLC evaluates
each assumption on the constants of its run.

Protocol (`PupProofs`)

* `TypeCorrect`: `Spec => []TypeOK`.
* `ChunksFedInOrder`: `Spec => []FedInOrder`. The property is not inductive: it
  says nothing of the frames a chunk will come from. `OrderInv` adds that every RQCH and
  CHNK on the line carries its chunk number as identifier (`Matched` - identifiers restart
  at 0 with each session and both count chunks) and that the device's identifier is its
  chunk number (`Session`); a chunk with the wanted identifier then has the wanted number.
* `SuccessWasVerified`: `Spec => []OkMeansVerified`. `VerdictInv` adds that a
  good BOOT on the line, and a device about to repeat one, have a verified image behind
  them (`Backed`), and that during the first invocation there is only one image in the
  whole system (`Single`).
* `BootedWasTold`: `Spec => []BootedMeansTold`. An ACK that ends the BOOT loop has a
  verdict behind it, because identifiers and states leave no other ACK that could; the
  proof attempt showed that the image has to be named for the first invocation only.
* `ImplementsDownload`: `Spec => DownloadSpec`, each step mapped to a step of
  `ImageDownload` or a stutter, using `OrderInv`; a verdict of `Verdicts` is one the abstract
  boot loader may give to the same chunks.

Placement and flat trampoline (`BootProofs`)

* `BootTypes` and `BootLoaderSurvives`: `Spec => []BootLoaderIntact`.
  `IntactInv` adds that the relocation was planned for the current image and how far the
  feed can have got (`Planned`: no further than whole chunks, hence inside the image while
  a chunk is due). The argument is geometric: `RelocFacts` (what is relocated is exactly
  the overlap, the buffer is behind the boot loader), `FeedFacts` (none of the three parts
  of a piece touches the boot loader unless the piece escapes). `CountsBlocks` is needed
  for types only: the coarse loop's counter never goes below zero.
* `VerdictIsSound`, `StubSurvives` and `StartedIsComplete`: `[]VerdictSound`, `[]StubIntact`
  and `[]StartedComplete`. The invariant follows every byte: where it is kept while it is fed
  (`Inflated`, `Kept`), that image, buffer and stub fit (`Fits`), how far the stub's
  registers have got (`Counted`: whole words are counted down to exactly zero) and
  where byte a is meanwhile (`Now`). What a byte may be is `Contents`: the announced one, or
  in a packed session with another file the decoder's.

ELF loader and trampoline (`ElfProofs`)

* `TypeCorrect`, `MapStaysSorted`, `PlacesAreClear` and `LowIsDelivered`: `[]TypeOK`,
  `[]MapSorted`, `[]PlacesClear` and `[]LowDelivers`, from one invariant `ElfInv`: the map is
  sorted and its ranges are apart (`MapInv`), while segments are claimed it has all of
  them unless it is full (`ClaimInv`), a file with more segments than the map has room for
  also has more operations than fit, so that it is refused before it could do harm
  (`OpsInv`), the operations are all there and have room (`PlacedInv`), and the file
  is intact in its first and then in its second place while operations before the next
  one are done (`MemInv`). `Search` is shown to find a gap by following its turns: the
  candidate is always behind every range passed.

The parts (`PartsProofs`), from `PartsInv`, the invariant of the program that runs:

* `MetaIsRight`, `ChunksCover`, `DeviceIsRight` (`HostInv`): what `opts` holds at each
  stage, which port is held (`PortInv`), where the offset is (`MetaInv`), and that the
  ranges sent are consecutive chunks (`SentInv`).
* `CorruptionIsReported` (`CheckInv`), which tells the payload's changes from the checker's own
  push by the history `leftover`: until the payload runs, the hashes are those of the
  content and the flags those of the table (`HashInv`, `FlagsInv`).
* `CoverageIsSound` (`CoverInv`): the passes of the sort keep the regions, in whatever order
  (`SortKeeps`), and a list of which each region starts where all before it end, or behind the
  header where they end before it, covers every address once (`FitsCover`).
* `ClockIsSound` (`ClockInv`): each register read is the counter's half at some moment since
  the call (`ReaderInv`), a delay's start is a moment before its first read (`DelayInv`);
  `TimeRight` is the arithmetic of a run's length from a 32-bit and a microsecond counter.
* `ResultsAreFresh` (`BoxInv`, `DmaInv`): code and value of the tag's line belong together in
  memory and in the cache, and a clean line is never ahead of memory; a run starts with an
  empty debug register.
* `AllocationsStayApart` (`PageInv`, `DmaInv`, `ScratchInv`). In the page allocator no child is
  ever taken, since `__builtin_clz` of a bitmap is at least 16: every
  region stays as `ppa_init` left it (`PpaType`), at most one supersection floats, and it is
  not in the mask unless it was left on the list (`ListInv`), smaller regions all begin where
  it begins (`CommitStart`), and freeing one ends in the stray store (`FreeStrays`), after which
  the supersection is one of those `WholeApart` excepts. In the arena, the word at address 0 is an address once an
  entry was made, so that no lookup succeeds and every buffer is new (`ScratchInv`).

* `PartsTypes`: `Spec => []TypeOK`, from `PartsInv` and `TypesInv`. The types need the other
  invariant: that only an opened port is reset follows from `PortInv`, that nothing is handed
  out behind the end of memory from `PageInv`, that the halves read are words from
  `ReaderInv`.

DMA arithmetic (`DmaArithProofs`), for every width, number of bits and operand:

* `PatchedBlocksAreAhead`: `Spec => PatchesAhead`, from `OrderInv`: whatever addresses earlier
  blocks and runs have left, the program is otherwise the emitted one, and what was executed
  is what precedes the next block in turn. `Turn` is the order of execution, which for Ges is
  not the order of emission. `EveryProgram` rests on one lemma for each emitter (`IncOk`,
  `ChainOk`, ..., `GesProgram`), which says where each of its blocks writes and jumps: straight
  ones write behind themselves (`StraightLater`), a block of Ges to the one it jumps to.
* `OperandsOnlyRead`: `Spec => [](WideEnough => NothingElseWritten)`, from `MemInv`: behind the
  bytes a program may write (`Limit`) the result is as `__dma_timed_run` found it, and the
  operands are in memory. `WideEnough` excludes what the code gets wrong (section 4): Add and
  Sub of width 1 write a second byte. The proof attempt for all widths fails exactly there.

Framing and BCJ filter (`DataPathProofs`)

* `IntactIsDelivered`: `DataSpec => []IntactFrameDelivered`, from `FrameInv`. The property only
  speaks of a frame that has been written; `Underway` adds, for a frame that started in step
  with the receiver, that the bytes read (`Position`, which follows from the receiver's state
  and buffers), those on the line and those not yet sent are together the frame, with nothing
  but chatter behind it. `Arrived` is the time after the delivery, when no byte can start or
  end a frame. `RxShape` says how full the buffers are in each state of the receiver.
* `BlockFilteredOnce`: `DataSpec => []FilteredOnce`, from `BcjInv`: what was written and what
  `temp` holds are together the block as far as LZMA2 has given it (`BcjContent`), filtered up
  to `filtered` and no further, and the position is a multiple of an instruction.
  `InstructionStart` and what follows it show that filtering a piece that starts with an
  instruction is the piece of the filtered block.

The decoder (`XzProofs`)

* `StaysInside`: `DataSpec => []StaysInBounds`, for the receiver and all three layers. For the
  container `StreamInv` says that only the fields collected by `fill_temp` leave anything in
  its buffer, and that the filters never give more than there is room for. For LZMA2 `LzInv`
  says that the dictionary's limit allows for no more than the chunk and the caller's
  buffer have left (`LzWindow`), that `temp` belongs to the current chunk and never holds more
  than a chunk has left (`LzTemp`), that the range decoder is less than a symbol past its limit
  and its limit a symbol before the end of what it may read (`LzRange`), and that a match
  that is not finished is copied from valid history (`LzMatch`) even after the call it was
  met in. The streams are arbitrary: matches, sizes and resets may be wrong in every way.

How induction is done. The library's induction theorems take an operator as a parameter, which the
provers cannot instantiate; `NumberFacts` therefore states induction, least
elements and definition by recursion for sets (`SetInduct`, `LeastNumber`, `Recursion`), from
which the proofs follow loops such as `Search` and `Sorted`.

Only model-checked: all liveness properties (out of the prover's reach); `ResultRight`, which
compares a result with a sum over its digits, and `TypeOK` of `DmaArith`, whose bytes
0 .. 255 bound the table entries only while `Bits` is at most 8; `OutputIsReference` and `FeedFaithful`, which compare with a reference that is a
fold over the input; and `FramesWereSent`, which more faults than its bound would violate (section 4).

## 7. Not modelled

* Single register accesses without state of their own: `gpio`, `pwrman`, the initialisation
  of the UART; page table entries (`mmu`).
* Polynomials: CRC and frame check sequence are ideal. Range decoder arithmetic. Neither
  is what the properties are about, and neither is within TLC's reach.
* XZ code the build leaves out: other BCJ filters, CRC64, SHA-256, MicroLZMA, single-call
  mode.
* `UmulWide` and its tables, unfinished in the source; the preclaims of `ppa_init`, which no
  caller uses.
* Runtime support (`ubsan.c`, stack unwinding, `printf`, C library routines), constants
  (`elf.h`), experiments and demonstrations: they keep no state between calls, or call
  the parts above in sequence and print.
