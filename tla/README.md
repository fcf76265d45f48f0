# A TLA+ development for Ymir Web

This directory holds TLA+ models of the core of Ymir Web (the Sega Saturn
emulator Ymir, compiled to WebAssembly, with a page that drives it), the TLC
configurations that check them, and TLAPS proofs about them. `PROJECT.json` is
the index: components, runs, the source lines behind each definition, hazards,
findings and theorems. Paths below are relative to
`src/ymir/libs/ymir-core/` unless they begin with `src/`.

    tlc -config MCOrderly.cfg MCOrderly     check a run
    tlapm CDTransferProofs.tla              check a proof

## 1. The system

### Components

| component | state | operations | modelled by |
|---|---|---|---|
| CD block: buffer pool (`hw/cdblock/cdblock_partition_manager.cpp`) | 24 queues of sectors, two counters | reserve, use a reservation, insert, delete, clear, reset, load | `CDPartitions` |
| CD block: selector (`cdblock.cpp`, `cdblock_filter.hpp`) | 24 filters with a pass and a fail output, the drive's connection | commands 0x30-0x48, routing | `CDSelector` |
| CD block: transfers (`cdblock.cpp` 1249-1641, 2827-3016) | the transfer in progress, scratch buffers, sector lengths | commands 0x60-0x64, 0x06, data port | `CDTransfer` |
| CD block: drive (`cdblock.cpp` 692-1215, 2001-2187) | status, address, play range, seek countdown, full-buffer pause | drive event, commands 0x04, 0x05, 0x10-0x12, 0x74, tray and disc | `CDDrive`, `DiscStream` |
| CD block: host interface (`cdblock.cpp` 552-690, 1019-1032, 1217-1227, 1676-1781) | HIRQ and mask, CR and RR registers, command flags | register access, command event, periodic report, flags | `CDHostPort` |
| CD block: file system (`media/filesystem.cpp`) | current directory window | read and change directory | no |
| LLE CD drive and gate array (`cd_drive.cpp`, `ygr.cpp`) | drive command state | SH-1 firmware commands | no |
| scheduler (`core/scheduler.hpp`) | deadlines, clock ratios, the cached earliest deadline | schedule, cancel, change a ratio, advance, save, load, reset | `Scheduler` |
| SCU (`hw/scu`) | interrupt status and masks, DMA channels, timers, DSP | triggers, acknowledgement, DMA | `ScuInterrupts`, `ScuDma` |
| SMPC (`hw/smpc`) | SF, COMREG, INTBACK progress, RTC, ports | commands, INTBACK continue and break, time-out, reset | `Smpc` |
| VDP: beam and frame buffers (`hw/vdp/vdp.cpp`) | phases of line and frame, mode, field, erase and swap requests | phase event, registers, drawing, load, reset | `VdpFrame` |
| VDP: renderer (`hw/vdp/renderer`) | render threads, their queues, frame buffers | events and waits; what is drawn | `VdpRenderThreads`, without the drawing |
| backup memory (`sys/backup_ram.cpp`) | the card, list and bitmap | import, export, delete, format, copy, the program's writes | `BackupMemory`, `BackupStore` |
| SH-2, SH-1, MC68EC000, SCSP | registers, memories | instructions, sound | no |
| memory, cartridges | pages | reads and writes | no |
| disc images (`media/loader`, `media/cd_device`) | table of contents, tracks | load, read a sector | as constants of `CDDrive` |
| Saturn (`sys/saturn.cpp`) | the chips | run, reset, load a disc, save states | through the models of the chips |
| web bridge (`src/web/bridge`) | frame, audio ring | calls from the page | `WebAudio` |
| web shell (`src/web/shell`) | loop, audio worklet ring, stored BIOS and saves | clicks, frames, storage | `WebAudio`, `WebShell` |
| desktop application, tools, tests, vendored code | | | no |

### Interactions

The emulator core is single-threaded in the web build: a frame runs the SH-2s in
slices, as long as the scheduler's earliest deadline allows, and the scheduler
fires events in between: the SMPC's commands, the CD block's commands and drive,
the VDP's phases. Everything else that happens to a chip is a call: a register
access of the program on the SH-2, a signal of another chip, or the user's (tray,
disc, save states, reset, between slices). These interleave in any order.

- The drive event puts sectors into partitions through the selector; the host
  takes them out through transfers; both share the pool.
- The VDP's phases trigger blanking interrupts and DMA in the SCU, and the
  optimized INTBACK read and its time-out in the SMPC.
- The CD block's HIRQ flags, the end of a DMA and of an INTBACK are sources of the
  SCU's interrupt controller, which offers one at a time to the SH-2; its handlers
  acknowledge and unmask.
- On the desktop the VDP's renderer has threads of its own; they read what the
  emulator thread sends and writes, and it waits for them where it must.
- The page calls the bridge once per animation frame and posts its audio ring to
  the worklet; a timer stores the backup memory in IndexedDB.

### What is hard

- The host, the drive and the user interleave inside a protocol of many steps: a
  transfer is set up by one command, moved by up to thousands of port accesses
  and completed by another command, while the drive goes on storing sectors and
  the user may save and load.
- The pool is a pair of counters adjusted by hand, beside queues edited
  elsewhere.
- The drive is a status machine whose transitions are spread over the periodic
  event, seven commands and the user's hand on the tray; several members keep
  values from the last command but one.
- Save states list the members to keep by hand.
- The scheduler caches the earliest deadline, while callbacks, cancellations and
  other clocks change deadlines behind it.
- One SMPC event serves commands, continues and breaks, and the beam runs it too,
  or times it out.
- An external interrupt is dropped while the last one is not acknowledged; flags,
  acknowledgements and nested handlers come in any order.
- Lines of a frame are found by equality, while modes and fields with other lengths
  come into force under the counter.
- The render threads, the deinterlacer and the emulator wait for each other, also
  while they are started and stopped.
- The web shell's storage is asynchronous, and outlives the page.

### What makes each part correct

- *Pool*: free buffers and sectors held always add up; reservations are backed
  by free buffers and end with their transfer.
- *Selector*: no two filters feed one input; a sector ends up where the filter
  that passes it says, whatever the wiring.
- *Transfers*: the words sent are those of the sectors asked for; what is deleted
  is what was sent; what is stored is what the host wrote; a loaded transfer goes
  on as the saved one would have.
- *Drive*: sectors of the range in order, none skipped or repeated; a play that
  does not repeat for ever ends and the host hears of it, once.
- *Host interface*: a response is that of the program's own command and is not
  written over; a flag that the mask lets through has an interrupt on its way.
- *Scheduler*: no event is due when an advance returns, and every advance returns.
- *SCU*: no interrupt is stranded in the status register; the cached level is that
  of a running transfer; every start is served and every end signalled.
- *SMPC*: SF is always released, and only with the command done unless an INTBACK was
  broken off; each interrupt answers a request; the flag for more data is true.
- *VDP*: each frame has one of each of its signals; VDP1 draws on an erased
  buffer; requests are taken up; a line shows the buffer that the program meant.
- *Backup memory*: it is a store of files by name; blocks are accounted for.
- *Web*: rings keep order and lose only the oldest; a saved memory is never
  overwritten by an older one, and comes to be stored.

## 2. The modules

    CDPartitions  <-EXTENDS-  CDSelector  <-EXTENDS-  CDTransfer    the buffers' side
                                  ^                       ^
                           CDBuffersProofs   <-EXTENDS-   CDTransferProofs
    CDDrive --INSTANCE--> DiscStream       <- CDDriveProofs         the drive's side

    ScuInterrupts <-EXTENDS- CDHostPort                             commands and interrupts
    CDHostPort, Scheduler, Smpc, ScuDma    <- MachineProofs
    VdpRenderThreads                       <- VdpRenderThreadsProofs
    VdpFrame, WebShell,
    WebAudio --INSTANCE--> AudioQueue      <- ScreenProofs
    BackupMemory --INSTANCE--> BackupStore <- BackupProofs

    NaturalLemmas                          induction, for the proofs

    MCMachine  EXTENDS Scheduler, Smpc, CDHostPort, ScuDma, BackupMemory
    MCScreen   EXTENDS VdpFrame, VdpRenderThreads, WebAudio, WebShell
    MCOrderly  EXTENDS CDTransfer, VdpRenderThreads
    MCCDReading EXTENDS CDDrive, CDSelector
    MCCDTransfer, MCCDDrive, MCWebAudio                             one module each

`MCMachine`, `MCScreen`, `MCOrderly` and `MCCDReading` put several components into
one run. A variable (`part` or `side`) is chosen initially and never changes;
only the steps of that component are taken, and the others stay in an initial state.
Each component is thus explored by itself, with the full interleaving of its own
actors, and the run costs the sum of their states and not the product. Fairness of an action that is
enabled in the initial state is asked only if its component is the one that runs.

**CDPartitions** has the three variables of `PartitionManager` and its methods as
actions on them. A buffer is reduced to the frame address it is labelled with,
the disc sector its bytes were read from and the number of words the host has
written into it: what tells sectors apart, without the bytes. `DeleteSectors`
keeps the 16-bit arithmetic and the clamping. On an empty partition the code
erases outside the queue, which is undefined; the outcome modelled is the one in
which the queue survives and the counter does not.

**CDSelector** adds the filters. `Filter::Test` is the set of frame addresses it
accepts. `FreedInput` is `DisconnectFilterInput`, first match only. Routing is
the bounded loop of `ProcessDriveStatePlay`, as a recursive function. `SelectorSpec`
is the selector alone, with sectors stored and taken away.

**CDTransfer** is the composition: pool, selector, the transfer in progress, the
drive as a source of sectors (`DriveReads`: one drive event that reads data), and
save states. Its actions are the commands (`GetSectors`, `PutSectorData`,
`DeleteSectorData`, `SetSectorLength`, ...), the data port (`ReadPort`,
`WritePort`) and `EndDataTransfer`. The constant `HostMay` says what the host and
the user do while a transfer is pending, so that one module serves orderly hosts
and disorderly ones. `xfer.target` is a history variable. Members that nothing
reads before they are set again are reset when a transfer ends, to keep states
few; `m_xferDelStart` is not, because loading a state reads it before setting it.
Lengths are in words; the code has them in bytes except for `m_xferLength`, and
the one place where that matters (`ReadSector` adds bytes to words) is explicit
(`BytesPerWord`).

**CDDrive** is the drive. One `Tick` is one drive event: `ProcessDriveState`,
`ProcessDriveStatePlay` and `CheckPlayEnd` composed in the order of the code, as
functions of the drive record (`Moved`, `Read`, `Ended`, `Polled`). The disc is a
sequence of positions, with the index of the table of contents (including its
lookup that misses the last sector of a track). The pool is a number (`room`) and
the selector a choice (`stored`). The seek completes at once, as for disc images.

**DiscStream** is what the drive promises (section 3), nine actions over the
request, the sector to come and the flags raised. `CDDrive!Stream` is the
refinement mapping: while the seek countdown runs, the next sector is the address
sought; `again` is what is left of the repeats. Sectors are counted modulo
`Addresses`, as the code's address has 32 bits. Where the drive stands when a
playback is given up is left open, and so are the repeats it had left: a seek to an
index that its track does not have leaves the drive in standby with both as the
command found them.

**ScuInterrupts** is the interrupt controller and what the master SH-2 sees of it:
the status register, the masks, the one interrupt on offer, and the handlers on
the processor as a stack (`handlers`). A handler runs at the level of its
interrupt, and accepting one masks every internal one until the handler writes
the mask back. `UpdateMasterInterruptLevel` examines the registers where the code
does, and only there.

**CDHostPort** adds the CD block's registers and the program on the SH-2: it writes
a command word by word (`WriteCR`), waits for CMOK (`SeeAnswer`) and reads the
response word by word (`ReadRR`), while the command event (`ProcessCommand`), the
reports (`PeriodicReport`) and the drive's flags come at any moment, and the
handler of the external interrupt acknowledges, reads HIRQ and clears what it has
seen in three steps that other handlers nest in. `AcknowledgeFirst` is the order
of the first two. The program is orderly: it does not write a command over one
that is under way. `ResetPort` is a soft or hard reset of the machine.

**Scheduler** has the members of the class. `Advance` is cut where a callback runs:
`phase` is "execute" at the head of the loop in `Execute` and "callback" inside a
callback, which may schedule, cancel and change ratios itself. Deadlines are
converted between an event's clock and the primary one with the code's roundings
(`CalcTarget...`). `snapshot` is a saved state, and `FactorPhases` says when
clock ratios may change.

**Smpc** has the command event, one for commands, continues and breaks, whose
callback (`callback`) the break swaps. The host (`host`, `wanted`) sets SF, writes
COMREG and waits; for an INTBACK it may continue or break off. `Beam` is the VDP's
line that triggers the optimized read, and VBlank, which times an INTBACK out.
`executed`, `brokenOff` and `requests` are history variables, used only by the
properties.

**ScuDma** has the channels and the cached level in service. A transfer is counted
in the pieces between which the bus may stall it, because nothing depends on
addresses. `RunDMA` is a call: `running` keeps other steps out until it returns.
Force stops, refused lists and the interrupt that is put off by a countdown are
actions of their own.

**VdpFrame** is the phase event (`UpdatePhase`) with everything that its lines set
off, the program's register writes at any time, the start and end of drawing,
resets and a loaded state. `fb` is what the program asks of the frame buffers;
`clean` says which of the two has not been drawn into since its erase. The
timing tables are a constant with the assumptions that the code's tables satisfy.
`UpdateResolution` takes a mode over on entering the top border, while the line
counter goes on; `blanksAgain` is the history of what that can do: the display of
the new mode ends at or below the beam, so that the line of the blanking, found by
equality, comes a second time.

**VdpRenderThreads** has the emulator thread (`emulator`: what the call under way
waits for; `todo`: what is left of it), the two render threads, the deinterlacer,
the queues, the batch of writes, and the manual-reset signals as the set of those
that are set. The VDP1 thread has its own copy of the frame buffers and of the VRAM,
which reaches it in order, as events. The registers do not: `RegWrite` events fill a
copy that nothing reads, and the thread draws and erases with `m_state.regs1` and its
erase latches as they are when it gets to it (`VDP1GetRegs`). So `HandleVDP1` reads
`regs` and `eraseLatch`, which `WriteReg` and `LatchEraseParameters` change at once,
however much is queued. The events carry the registers of the moment they were sent,
only to be compared: `spriteAltered` and `rendererAltered` are the buffers in which
something was done with others. A buffer's content is what was last done to it, with
which VRAM; `ideal` is the history of the buffers as if each call had been carried
out at once, and `overtaken` that of the buffers for which the registers changed
while something sent to them was not yet handled. `ProgramMay` names four uses that the
code does not withstand (section 5); the runs leave them out.

**BackupMemory** is a card of blocks with the list and bitmap built from it.
Files are chains that begin at a flagged block; the block numbers run on through
the blocks as in the code, one word each (`FileWord` is the word at each place of a
file, `WordAt` what is read there). The list of files is a set, as they begin at different
blocks; `FindFile` takes the first of a name, as the code's search does. Imports,
deletions, formatting and copying are calls; `GameSaves` and `GameDeletes` are what
the BIOS writes to the card behind the list, in any free blocks in any order. What
is in a block of no file is dropped after each write (`Tidy`), because only its flag
can matter. **BackupStore** is a store of files by name, refined with `held`, the
history of what it is to give back, as the stored files. A copy of another card
(`Replace`) has all files of that card.

**WebAudio** is the way of a sound frame: the ring of the bridge, the messages that
the shell posts, the worklet's ring. Frames are numbered. A run of the emulator and
a message put frame after frame into a ring (`RunFrame`, `AddFrames`).
**AudioQueue** is the promise: heard in order, at most once, and lost only if a whole
ring of newer ones has been made. Its frames on the way are a set of numbers; the
mapping joins the contents of the three.

**WebShell** is `main.js`: booting, which may fail at each of its reads (`BootFails`),
choosing BIOS and disc, Start, the timer that stores the backup memory, failures of
the frame, leaving and loading the page. The Start button is a variable
(`startEnabled`), set where the code calls `setButtons` and by nothing but a BIOS and
a disc: it may be clicked while the stored memory is being read, or after reading it
has failed. `early` is the history of that. The database carries out transactions in order and may drop those of a page that is
gone: `LeavePage` stores the last of those still carried out. A content of the memory
is its version.

## 3. The runs

| run | question | result |
|---|---|---|
| `orderly` | a host that ends every transfer first: is the pool balanced, are sectors sent in full, reservations owned, the right sectors deleted? render threads with memory and registers written behind them: is each picture the one meant? | holds |
| `transfer_overlap` | the same pool under overlapping transfers and save states | holds |
| `reading` | does the drive implement `DiscStream`, do plays by address end? every wiring of three filters: inputs unique, routing complete | holds |
| `machine` | scheduler, SMPC, host port with interrupts, DMA, backup memory: is anything lost or mixed up, does every handshake end? | holds |
| `screen` | frames, calls into the render threads, web sound, web shell: is each frame complete, each sound and save the one meant, and does every call return? | holds |
| `put_race` | does a put store what the host wrote? | violated |
| `load` | does a loaded get-then-delete delete its own sectors? | violated |
| `long_sector` | does a get end with its last sector? | violated |
| `drive_end` | does every play end? | violated |
| `threads_drawn` | is VDP1's thread safe: does it draw with the registers it was sent? | violated |
| `web_throttle` | is emulation skipped while the audio backlog is large, as `main.js` says? | violated |
| `web_reload` | do reloads keep the stored backup memory, as `main.js` says? | violated |

### Properties

CD block:

- `BuffersConserved`: `m_freeBuffers` + sectors held = 200.
- `ReservationBacked`: reserved <= free, so the unsigned difference never wraps.
- `ReservationOwned`: the reservation is that of the pending put, else none.
- `SectorsSentInFull`: the words to come never fall short of the rest of the
  sectors, through every stretch by a long sector.
- `WholeSectorsSent`: nothing is left to come after the last sector.
- `DeletesWhatItSent`: the sectors gone from the partition when a get-then-delete
  ends are those it was set up to send, whatever was appended in between.
- `StoresWhatWasPut`: a put written in full stores the host's sectors.
- `FailInputsUnique`: no two fail outputs feed one filter.
- `RoutingComplete`: the loop's `NumFilters` rounds find the filter that an
  unbounded walk finds.
- `ImplementsStream`: `CDDrive` implements `DiscStream`: sectors in order, none
  skipped or repeated through seeks and full-buffer pauses, PEND after the last
  sector of the last pass and only then.
- `AddressPlayEnds`, `PlayEnds`: leads-to properties, the end comes.
- `ResponseIntact`: while the program reads a response, no report and no other
  answer is written over it.
- `AnswerIsOwn`: CMOK seen by a waiting program is that of its own command, not of
  one from before a reset.

`TypeOK` in `orderly` and `reading` carries the numeric ranges (counters are
naturals, addresses are 32 bits wide, the scan counter below its period).

SCU:

- `FlagInterrupts`: a flag of HIRQ that the mask lets through has its interrupt
  latched, offered, or a handler that still has to read the flags.
- `NothingLeftBehind`: with no handler running, nothing that the masks let through
  waits in the status register unoffered.
- `SelectedIsActive`: `assert(ch.active)` of `RunDMA`, and something is left to do.
- `StartsAreServed`: a started channel's transfer begins and ends, whatever level,
  stall or stop comes between, unless the channel is disabled.
- `EndsAreSignalled`: a transfer that has ended raises its interrupt.

Scheduler and SMPC:

- `ExecutesAnEvent`: `Execute` never takes "none" for an event.
- `AdvanceFiresAllDue`: no event is due when `Advance` returns.
- `AdvanceReturns`: it returns; the rounding there and back does not spin.
- `MoreDataIsTrue`: SR.NPE is set exactly while a report is left.
- `LostOnlyToBreak`: SF falls on an unprocessed command only beside an INTBACK that
  was broken off, by the host or by VBlank.
- `InterruptsAsked`: each SMPC interrupt answers a request of its own.
- `FlagReleased`: SF always falls again.

VDP:

- `OncePerFrame`: between two VBlank OUTs, the optimized read is triggered once and
  one line begins the blanking, whatever field or mode comes into force; two lines do
  exactly where the display of the mode taken over ends at or below the beam.
- `DrawsOnErased`: every frame of 1-cycle mode after the first is drawn on an
  erased buffer.
- `RequestTakenUp`: a request in FBCR is taken up sometime, though a shorter mode
  makes the counter jump over the last line.
- `LinesAreCurrent`: a line shows the buffer that was displayed when the emulator
  asked for it, as the emulator meant it to be.
- `SwapIsComplete`: at the flip, all that VDP1 was sent has been drawn.
- `ReadsAreCurrent`: a program that reads the frame buffer after the end of a
  drawing reads that drawing.

  In these three the picture is the one meant in its memory always, and in its
  registers unless the program wrote one behind what it had sent (`AsSent`): only
  then may the thread have used others.
- `DrawnAsSent`: the picture never depends on how late the thread is.
- `CallsReturn`: no call into the renderer blocks for ever.

Backup memory and web:

- `ImportsThatFit`: `BackupMemory` implements `BackupStore`: an import is refused for
  want of room or for an existing file only, and a refused one changes nothing; a copy
  of another card has all of its files.
- `GivesBackFiles`: every file is read back as it was stored, and no other.
- `BlocksAccounted`: no block is in two files; list and bitmap are those of the
  card unless they are to be rebuilt.
- `SoundInOrder`: `WebAudio` implements `AudioQueue`.
- `BacklogThrottled`: the loop does not run the emulator with the backlog at its
  limit.
- `StoredNeverOlder`: what is stored is replaced by an older content only where the
  page has started a game before its memory was restored, or after that failed.
- `ReloadsKeepState`: what is stored is never replaced by an older content.
- `SavesAreStored`: a save comes to be stored while the page runs on.

### Bounds

- `orderly`, transfers: two filters and two buffers, two disc sectors, one long in every
  transfer and one only in a get-then-delete; sector lengths of one and two words;
  counts up to two and both wild cards. Two of each is what makes partitions
  differ, a range differ from a sector, a full pool and a reservation that covers
  part of it. Bounded by the disc; the drive starts over on a soft reset.
- `transfer_overlap`: one filter, one buffer, one saved state: what the
  interleavings need, because the claim is on the pool only.
- `reading`, selector: three filters have chains, cycles and two candidates for a freed
  input. The drive is connected to filter 0 only; filters are interchangeable.
- `reading`, drive: five to six sectors, a data track and an audio track with a pregap;
  three commands from eight play requests (by address, by track, from an index that
  is not there, resumed, repeated, repeated for ever),
  three files, four seek targets, both scans, resets, tray and disc; one buffer;
  the seek countdown is 3 (the least with a step before the last two), the scan
  skips 3 after 2. `Addresses` is 2^30 instead of 2^32, an address no disc has
  either. The tray and the disc count as commands.
- `machine`, scheduler: two events, ratios 2/3 and 3/2 (a rounding each way),
  intervals of 1 in callbacks and 2 outside, advances of 3, the count up to 3;
  ratios change in callbacks only. Two events are enough for one to be cached
  while the other is scheduled earlier, cancelled or changed behind it.
- `machine`, SMPC: INTBACK, a reset that needs no answer and one other command;
  `requests` saturates at 2 (two can be open when a break overtakes a continue).
- `machine`, host port: one internal source (the highest level, above the external
  interrupt's), masks that pass all and none of the externals, a HIRQ mask with
  two flags and an empty one. Two flags are what a handler can see one of.
  Command and response are four words each, as in the code.
- `machine`, DMA: two levels, one trigger (`HBlankIN`) besides the immediate one,
  transfers of a list, an illegal one and a list refused at its start, a delay of
  2 counted down by 1, one force stop. A third level adds a second suspension of
  the same form.
- `machine`, backup: two names, files of two and of three blocks, six blocks of two
  words (four for files): a file that grows, one that shrinks, one that does not
  fit, chains that cross, and two cards to copy from: two short files that fill the
  memory, and a long one.
- `screen`, frame: two modes, one interlaced with longer fields, one field a line
  longer; the lead is one line; 1-cycle mode and a swap by the program. The modes
  relate as NTSC and the exclusive monitor do: the second's display ends below the
  line on which the first's top border begins (480 and 255 in the code), so that the
  line of the blanking can come twice, and its top border begins below the first's
  last line (509 and 262), so that the last line can be jumped over.
- `screen`, threads: two events in the queue of VDP1, one line in that of VDP2,
  batches of two writes, and the three kinds of frames; one content of the memory and
  of the registers, as calls return whatever they are.
- `orderly`, threads: the same queues and frames; two contents of the memory, or two
  of the registers, the other being fixed: a command and an erase can be sent, and be
  overtaken by a write that the next one is not.
- `threads_drawn`: the same with both; without the kind of frame "cycle".
- `screen`, sound: rings of 4 and 3 places, quanta of 2, up to 8 frames made: both
  rings overflow and wrap around.
- `screen`, `web_reload`, shell: three versions, two transactions: one may be under
  way when the page is left, and another made on leaving it.

### Fairness

- `WF(Tick)`: the drive event reschedules itself unconditionally
  (`OnDriveStateUpdateEvent`). `WF(FreeBuffer)`: a host that plays a disc takes the
  sectors out; without it a full pool pauses playback for ever, by design. Nothing
  is assumed of commands.
- Scheduler: `WF(ExecuteStep)`: `Advance` is a call and runs to its end.
- SMPC: `WF(CommandEvent)`: the scheduler fires a scheduled event. `WF(Beam)`: the
  frames go on. `WF(HostWriteCOMREG)`: a host that has set SF writes its command;
  one that does not would wait for itself.
- DMA: `SF` of `Advance` and of the blanking signals, which come in every slice and
  line, but not while `RunDMA` runs, which is why weak fairness says nothing;
  `SF(Transfer)`: the bus does not stall a channel each time for ever;
  `WF(RunDMAReturns)`: it is a call.
- VDP: `WF(UpdatePhase)`: the phase event reschedules itself.
- Render threads: `WF` of each thread: one that can go on does. Nothing is assumed
  of the emulator thread's next call.
- Shell: `WF(SaveBackupRAM)`: the timer runs. `WF(Transact)`: the database carries
  transactions out.

Nothing is assumed of the host port, the backup memory and the sound, whose
properties are safety properties.

### What the violated runs show

- `put_race`: the drive reads into `m_scratchBuffers[0]`, the first buffer of a
  pending put. A sector that arrives between the host's words and the end of the
  transfer takes the place of the host's.
- `load`: `m_xferDelStart` is declared in the save state but neither saved nor
  loaded.
- `long_sector`: `ReadSector` adds a difference in bytes to a length in words: a
  2324-byte sector makes a transfer of 2048-byte sectors 138 words too long, and
  those come from the next sector of the partition.
- `drive_end`: the end test uses the kind of range of the last `PlayDisc`, also
  for a file read (which then never raises EFLS), and an index beyond the last
  one, which the end of the disc never shows.
- `web_throttle`: `main.js` 87 and 92 say that a frame is skipped while the backlog
  is large. The test at 93 looks at the ring of the bridge, which `pumpAudio` has
  emptied into the worklet's in the same turn: the backlog that is heard is never
  measured, and the loop runs on with the worklet's ring full.
- `threads_drawn`: `docs/mainpage.hpp` 330 says of the render threads "They are
  thread-safe within the core." VDP1's thread reads `m_state.regs1` and the erase
  latches (`vdp_renderer_sw.cpp` 878-884, 902, 927-940) while the emulator thread
  writes them; the latches are overwritten before the swap waits for the thread
  (`vdp.cpp` 953). A thread that is late draws or erases with newer ones.
- `web_reload`: Start looks at the BIOS and the disc only (`main.js` 61, 261). A game
  started while the stored memory is being read, or after reading it has failed (33,
  310-313), runs on a blank one, which the timer stores over the saves. `main.js` 3
  says "so reloads keep state", `src/web/README.md` 44 that saves are restored
  automatically after a refresh.

## 4. The proofs

Each theorem holds for every value of the constants that satisfies the module's
assumptions and the one in the third column.

| theorem | says | if |
|---|---|---|
| `TransferTypes` | `[]TypeOK` of CDTransfer | `"delete" \notin HostMay` |
| `TransferConservesBuffers` | `[]BuffersConserved` | same |
| `TransferBacksReservations` | `[]ReservationBacked` | same |
| `TransferOwnsReservation` | `[]ReservationOwned` | `Orderly` |
| `TransferSendsSectors` | `[]SectorsSentInFull` | `Orderly` |
| `TransferDeletesWhatItSent` | `DeletesWhatItSent` | `Uninterrupted` |
| `SelectorKeepsInputsUnique` | `[]FailInputsUnique` of the selector alone | |
| `SelectorRoutingComplete` | `[]RoutingComplete`, same | |
| `DriveTypesHold` | `[]TypeOK` of CDDrive | |
| `DriveImplementsStream` | `ImplementsStream` | |
| `SchedulerExecutesEvents` | `[]ExecutesAnEvent` | `"idle" \notin FactorPhases` |
| `SchedulerFiresAllDue` | `AdvanceFiresAllDue` | same |
| `SmpcMoreDataIsTrue` | `[]MoreDataIsTrue` | |
| `SmpcLosesOnlyToBreak` | `[]LostOnlyToBreak` | |
| `SmpcInterruptsAsked` | `[]InterruptsAsked` | |
| `DmaSelectsActive` | `[]SelectedIsActive` | |
| `HostPortFlagsInterrupt` | `[]FlagInterrupts` | `AcknowledgeFirst` |
| `HostPortLeavesNothing` | `[]NothingLeftBehind` | same |
| `HostPortResponseIntact` | `[]ResponseIntact` | same |
| `HostPortAnswerIsOwn` | `[]AnswerIsOwn` | same |
| `FrameSeesLinesOnce` | `OncePerFrame` | |
| `FrameDrawsOnErased` | `DrawsOnErased` | |
| `ThreadsLinesAreCurrent` | `[]LinesAreCurrent` | `ProgramMay = {}` |
| `ThreadsSwapIsComplete` | `SwapIsComplete` | same |
| `ThreadsReadsAreCurrent` | `ReadsAreCurrent` | same |
| `ShellStoresNoOlder` | `StoredNeverOlder` | |
| `SoundStaysInOrder` | `SoundInOrder` | |
| `BackupGivesBack` | `[]GivesBackFiles` | |
| `BackupAccounts` | `[]BlocksAccounted` | |
| `BackupImportsThatFit` | `ImportsThatFit` | |

In each module one lemma per action says that it preserves the invariant, and an
invariance theorem or lemma joins them (`TransferInvariant`, `WholeTransfers`,
`SelectorKeepsInputsUnique`, `SchedulerInvariant`, `SmpcInvariant`,
`DmaInvariant`, `HostPortInterrupts`, `HostPortCommands`, `FrameInvariant`,
`DriveInvHolds`, `ThreadsInvHolds`, `ShellStep`, `AudioStep`, `BackupInvariant`).

What recursion computes is reached by induction over sets: the least number of a
set of naturals exists (`LowestNatural`, from well-foundedness), so a set with 0 and
every successor is all of `0..N` (`SetInduction`), and a function that applies a
step over and over exists (`Building`, `Iteration`). The recursive functions of
the models are unfolded with these, for as many steps as one likes
(`HopsIterate`, `RunUnfolds`, `MessageUnfolds`).

### Transfers

The first three theorems assume that the host does not delete sectors, clear
partitions or reset the selector while a transfer is pending. Restarting
transfers, changing lengths and saving states in mid-transfer are allowed.
Without the assumption they are false (section 5).

Neither conservation nor the reservation bound is inductive. A get-then-delete
ends by deleting without looking at its partition again, so the invariant must
know that what it was set up for is still there (`DeleteReady`: a pending one
deletes at least one sector of a partition that is not empty). A loaded state
brings such a transfer back, so the saved states must be ready too (`SavedReady`).
The deletion never passes the end of the queue because of the clamps; how much
the counter grows against how much the queue shrinks is `DeleteRange` and
`WithoutLen`. The invariant is

    IInv == PoolInv /\ SelectorInv /\ PortTypeOK /\ DeleteReady(xfer, part) /\ SavedReady

The count of the sectors held, `Held`, is the cardinality of a union over
partitions; `HeldExcept` (replacing one queue changes the count by the difference
of the lengths) is what every edit rests on.

`Orderly` is a host that ends each transfer before the next, and neither deletes
nor changes the lengths meanwhile; states may be saved and loaded at any time.
On top of `IInv`,

    WholeInv == Owned(xfer, reserved, putLength) /\ Covers(xfer, getLength) /\ SavedWhole

says what the reservation is worth (`Owned`: the words of the put by the words of
a sector, so a length changed in between would falsify it), and that the words to
come cover the rest of this sector and whole sectors behind it (`Covers`: the
property alone says nothing of where in the sector the transfer is).
`SavedWhole` is the same of the saved states, which come back.

`Uninterrupted` also has no state saved during a transfer: `m_xferDelStart` is not
part of a save state, and the run `load` shows what that does. `TargetInv` says that
the range of a pending deletion still holds the sectors it was set up for; drive
and selector only append, which `AppendSlice` shows to leave a range alone, and
`DeletesTarget` that erasing the range removes exactly it.

Assumptions on the constants: at most 254 filters and buffers (positions and
partition numbers must stay clear of the wild cards), the sectors of a request
are at most the buffers (`MaxCount`), lengths positive.

### Selector

`FailInputsUnique` is inductive together with the types: `FreedInputFrees` shows
that cutting the first match leaves no other, given that there was only one.

`RoutingComplete` holds in every state with the right types. A path from the drive
that an unbounded walk takes is where the loop goes round by round
(`PathsAreHops`), and until the sector is accepted it meets no filter twice
(`NoFilterTwice`: a cycle would never have led to the filter that accepts it), so it
is accepted within as many rounds as there are filters.

### Drive

The invariant adds to the types only that without a disc the drive neither seeks nor
plays. The weight is in the simulation: one event is cut into the wake-up, the
move, the read and the poll (`Event`), each described once (`WokenDoes`,
`MovedDoes`, `ReadDoes`, `PolledDoes`) and put together for every combination of a
report that is due, a sector that is stored, and a read that fails
(`EventSimulates`); the table of contents is described by lemmas that need the
tracks to be consecutive and their positions to ascend. Every command, tray or
disc change is a step of `DiscStream`, too.

`DriveAssumption` says what a disc and a command can be: a position has a track of
1..99 and an index of 0..99, disc addresses fit below bit 23, which marks an
address in a command; every track begins at its index 1; parameters have 24 bits,
the repeats 8; the seek countdown is at least 2 (the comment at `kSeekTicks`).

### Scheduler

`SchedulerInv` says that the cached deadline is not later than that of any
scheduled event (`Covers`), except inside a callback, whose return recalculates
it, and that a cached deadline belongs to an event. It does not say that the
cached event is scheduled, because `Cancel` may make it stale: the `Execute` loop
skips it. `NotDueBefore` is the arithmetic: before the rounded deadline the event
is not due on its own clock, for every ratio. The
assumption excludes a ratio changed outside callbacks; there the theorem is
false (section 5).

### SMPC

The properties are not inductive because the event's outcome was decided when it
was scheduled. `HostInv` says what is left over when the host is free or has only
set SF, `WaitInv` that the event is about what the host waits for unless something
was broken off, `BreakInv` where the swapped callback can be met, `RequestInv`
that what the event will answer is still counted as a request.

### DMA

`DmaInv`: the level in service is that of an active channel (`LevelOK`), and an
active channel has pieces left (`Going`): a channel without is ended at once, and
a list that is refused never becomes active.

### Host port

`InterruptInv` holds the two safety properties of the interrupts together with
`Nested` (the handlers' levels rise, and the boot code has the stack to itself)
and `Unacknowledged` (an external interrupt awaiting its acknowledgement is on
offer, or its handler has not come to it). With the other order of the handler's
steps the last one fails, and so does `FlagInterrupts`: a flag raised between the
two is dropped. On top of it, `CommandInv` has one conjunct for each thing the
program can be at: what a scheduled command, a written word, a seen CMOK and a
half-read response imply of the registers.

### Frame

`LineInv` ties the line counter to the phases, because lines are found by equality;
`SeenInv` counts the lines seen from where the beam is; `EraseInv` says that after a
swap of 1-cycle mode the displayed buffer is erased or still will be, before the
last line. In `SeenInv` the lines that have begun the blanking are those behind the
beam (`BlanksBehind`, of the mode in force) and those from before a mode was taken over
(`BlanksBefore`), so that a frame in which a mode comes into force is counted, too:
`FrameSeesLinesOnce` excepts no frame. `TimingsAssumption` is what the tables of `vdp.cpp` have in common: six
ends, the display equally long in both fields, and longer than the lead of the
optimized read, the last line one line.

### Render threads

The properties compare what the threads have done with `ideal`, what calls carried
out at once would have done. The invariant says that handling the events still
queued leads there: from the renderer's state there is a sequence of states, one per
event of `Sent` (the queue, then the batch not yet sent), whose last agrees with
`ideal` (`CaughtUpInv`: `Leads`, `Settled`). A call that sends an event makes the
sequence longer at its end, the thread that handles one makes it shorter at its
beginning. The other parts say where the emulator is in its calls (`CallInv`),
that an event that is waited for is the last one sent (`EventsInv`), and that a
signal is set only for the call that waits for it (`Signals1Inv`, `Sent2Inv`): a
signal left over would let the next call through. `LineInv` is why lines are right:
while a line is queued or drawn, nothing changes the displayed buffer, and the
deinterlacer works only while the VDP2 thread waits for it (`DeinterlacerInv`).

That is about what is drawn, from which memory. Which registers it is drawn with is
the other half, `RegsInv`, because the thread reads them live. For a buffer that is
not in `overtaken`, the commands and erases still on their way carry what the thread
would read now (`CommandsInv`, `ErasesInv`), and nothing has been done in the buffer
with other registers (`AlteredInv`), unless an erase that will make it good is still
queued: an erase of the displayed buffer wipes out what it showed before. A write of a
register (`WriteRegUses`) and the latching before a swap put the buffers that
something is on its way to into `overtaken`; handling an event finds the registers it
was sent with. Without a thread nothing can be overtaken (`OffInv`). So the theorems
say of the registers what the code guarantees and no more: the run `threads_drawn`
shows the rest to be false. They are for a program that does none of the four things
of `ProgramMay`.

### Web shell and sound

A save may be under way when the page is left, and the database may carry it out or
not. `SavesInOrder`: the saves that are under way get newer and newer, and none is
newer than the memory; `RestoredFirst`: until the memory is restored nothing is
saved, and from then on it is at least as new as the store. Both fail once a page
has started a game before its memory was restored, so the invariant has them unless
`early` is set (`ShellInv`), and the property leaves out what such a page stores. The
next page begins in order again, with whatever the last one left in the store
(`LeavePageEmpties`). The theorem assumes nothing of when Start is clicked or of how far
booting comes.

Of the sound, the invariant (`AudioInv`) says that the frames of each ring and each
message are in order, those of the worklet older than those of the messages, these
than the messages behind them, and all than the bridge's. In order means that a
frame is newer than another by at least as many as lie between them (`InOrder`): a
full ring that loses its oldest frame then loses one that is older than a whole
ring. `BridgeTakes` and `WorkletTakes` say so of one frame, `RunFeeds` and
`MessageFeeds` of a run and of a message of any length, by induction along the
recursive functions. The rings may have any size (the bridge's at least 2).

### Backup memory

The properties speak of what is read from the card, and the card says which blocks
it has to be read from: the invariant therefore gives each file to give back its
chain. `Layout` is a choice of a chain of blocks per file such that each block holds
the words of its file at its place (`Holds`), no two chains meet (`Apart`), and the
blocks flagged are just those that chains begin at (`Flagged`). The last is what a
plain reading of the code does not say: an import leaves the flags of later blocks as
they are, so that a free block that was flagged would turn up as a second file once
it was written into. `BackupInv` adds that the list and the bitmap are those of the
card, unless they are to be built anew.

A chain is read back as it was written although the list of its blocks is itself
read along the blocks that it names: after `p` entries the first `p + 1` blocks are
known, and the next entry lies in one of them (`PlaceBelow`, `ListRead`, by induction
along the recursive function). `FileRead` adds the header and the data, for contents
of any length and any number of blocks in the list, however many blocks the list
itself fills (`EnoughBlocks`).

Writing changes the words of one chain only (`FileWritten`), clearing a flag removes
one file (`FileRemoved`), and a file that is overwritten keeps its first block, which
is why no flag is left behind (`TakingIs`). The room of the store is counted in blocks
of chains: `RoomIs` is a bijection between the blocks that the store charges its files
with and those that are in chains. An import finds the file's own blocks and the free
ones, as many as the store has left without that file; so it succeeds exactly when the
store's does (`ImportIs`). A copy of another card is a sequence of imports of any
length, each of which keeps the invariant. The code does not look at what comes of them;
that none is refused is a theorem. A file that found no room would find none in the
end, as every file more leaves no more room (`KeptMore`), and then the files of the
card would not have room together, which they have (`AllKept`).

`BackupAssumption` says that blocks have room for more than the header, the card for a
file, that contents and the files of other cards are lists, and that no two files of
a card have one name. `CardsAssumption`: the files of another card have room here
together. `CopyFrom` refuses a larger card, and by the tables `kSizes` and
`kBlockSizes` one that is not larger has no more blocks and none that are larger.

### Only model-checked

Every safety property that a passing run checks is stated by a theorem. Out of the
prover's reach are the liveness properties (`AddressPlayEnds`,
`AdvanceReturns`, `FlagReleased`, `StartsAreServed`, `EndsAreSignalled`,
`RequestTakenUp`, `CallsReturn`, `SavesAreStored`), as liveness rests on fairness
and ENABLED.

### What the proofs changed

The step simulation of the drive failed at two places, and `DiscStream` was too
strict at both: a seek to an index that its track does not have gives the request up
with the address and the repeats as the command found them, and a range at the very
end of the address space wraps around. The runs had neither a missing index nor a
repetition for ever; `reading` has them now. The sound's promise had a sequence of
frames on the way where a set says the same.

The backup memory's promise let any call put other files in the place of all; now
only a copy of a card does, with a result of its own, and it has
to be a whole copy. `CopyFrom` ignores what its imports return, and the proof of that
promise needs the reason why it may, which the code does not state. An assumption that no content has a zero word proved to be superfluous: the list
of blocks ends with a zero of its own, before the data.

## 5. Hazards and what is not modelled

`PROJECT.json` lists the hazards at their lines. The ones that no run covers, and
others met on the way, per component:

*CD block*
- *Deleting under a pending get-then-delete.* `CmdResetSelector` and
  `CmdDeleteSectorData` do not look at the transfer in progress. `EndTransfer`
  then calls `DeleteSectors` on an empty partition: `end() - begin()` arithmetic
  on an empty deque, and a counter that passes 200. Runs and theorems exclude it.
- *A refused get* (1293) overwrites the sector range of the transfer in progress;
  *a length changed* (2827) while a put is pending makes it store another number
  of sectors than it reserved.
- *A long put in a save state* (342): the scratch buffers are saved into the places
  left by the pool, so only the first free - reserved + 1 of them survive.
- *A fail output set to the drive's filter* (2478): `CmdSetFilterConnection` does not
  disconnect the drive, although `cdblock.hpp` 268-269 says the existing connection of
  a filter input is severed (for `CmdSetCDDeviceConnection` it is).
- *Reports*: `CmdGetSectorNumber` (2639) subtracts a pending deletion from whatever
  partition is asked; the 8-bit repeat count runs into the status flags (1191).
- *The end of a file read with an offset* (929) subtracts the offset twice.
- *AbortFile* ends the transfer but not the playback.
- *A handler that reads HIRQ before it acknowledges* loses a flag raised between
  the two (`AcknowledgeFirst` FALSE violates `FlagInterrupts`). The SCU drops
  external interrupts that are not acknowledged; no text says what a program is
  to do, so it is a condition of the model.

*Scheduler*
- A clock ratio changed outside a callback (`scheduler.hpp` 142) is not looked at
  again if the event is not due: it comes late. The user's change of the clock
  speed does this.
- `ScheduleFromNow` for an event in its own callback is overwritten when the
  callback reschedules. The assertion at 321 does not hold after `Cancel`, which
  `SMPC::Reset` calls (`SMPC.cpp` 97). Counts overflow after some 43 days.

*SCU and SMPC*
- `m_intrStatus` survives a soft reset; a write to IST does not withdraw what is
  already offered.
- `DropIllegal` reads the next entry of an indirect list that it does not use (763).
- A Timer1 reload value of 0 is saved as 2048, and DDR2 from DDR1.

*VDP*
- An empty VDP1 command table (`vdp.cpp` 979-998), the value of the line register
  within the counter's skip, counter latches and penalties are not modelled. The
  exclusive monitor's tables are modes like others; the code calls them a guess.
- A mode taken over in the top border from one whose top border begins at line 255 to
  an exclusive monitor's, whose display ends at 480, makes line 480 come in the top
  border: `vdp.cpp` 796 then decides the erase and switches the field a second time,
  where the comment at 801 has the bottom blanking entered. `OncePerFrame` says that
  the line is done twice then, and only then.
- A state saved with a mode not yet taken over forgets that it was dirty.
- Four uses the renderer's threads do not withstand, as `ProgramMay` of
  `VdpRenderThreads`: a write into the frame buffer while a drawing is under way
  is overwritten by the copy at its end ("early write"); an erase asked for after
  the last one of a frame ("late erase"); a hard reset, which the VDP1 thread is
  not told of ("hard reset"); switching threads with a drawing unfinished, which
  loses it ("unfinished"). Each violates a property if it is let in.
- Registers written behind a queued command or erase change it (`threads_drawn`). Also
  read live, and not modelled, are VDP2's TVMD and `m_VRes`, which bound the area
  that VDP1's thread erases and double its lines (`VDP2GetRegs`, 902-922).

*Backup memory*
- `CopyFrom` reports success whatever its imports do: that a card which is not
  larger fits rests on the table of sizes and on names that are unique. A language
  out of range is not tested before it is used as an index. A chain that loops is
  read without end, a process that ends during an import leaves half a chain, and
  the desktop's window imports from its own thread while the emulator runs. Cards
  here are whole and calls are not interrupted.

*Web shell*
- A second click on Start begins a second loop, and two tabs write the same store;
  neither is modelled.

Left out of the modelled components: drive speed and event periods, the contents
of TOC, file information and subcode transfers (one action, `InfoTransfer`), the
authentication and MPEG commands, `CmdCopySectorData` and `CmdMoveSectorData`
(unimplemented in the code), sector data itself, the host device (asynchronous
seeks of a physical drive), the debugger's hooks, the SCU's DSP and the counting
of its timers, the slave SH-2's interrupts, the SMPC's peripheral bytes, RTC and
ports, dates and comments of backup files, mapped files.

Not modelled at all, and why:

- *SH-2, SH-1, MC68EC000, the SCU DSP and the SCSP* (some 20 000 lines): interpreters
  and sample arithmetic. Each is one long sequential function of registers and
  memory, tested instruction by instruction; its states are those of all programs.
- *What the VDPs draw* (most of the software renderer, and register decoding): pixel
  arithmetic without control that could interleave. Its threads are modelled.
- *The desktop application, its windows, icons and settings* (about half of the
  repository's lines): GUI code around the core, and not part of the web program.
- *Disc loaders, the file system, cartridges*: parsing and address decoding.
- *The low-level CD block*: its commands are driven by SH-1 firmware that is not in
  the repository.

By lines these are most of the repository, so the share of it that the models stand
for is small; by protocols, the parts whose steps interleave are the ones modelled.

## 6. What is left

1. `CDTransfer` with hosts that change lengths and delete in mid-transfer, once a
   text says what the hardware does; the contents of loaded puts.
2. The directory window of the CD file system and the low-level drive's commands.
3. The desktop's threads (emulator, render, rewind and audio) and its rewind buffer.
