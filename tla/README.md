# Verification of usbadc-support

TLA+ models of the firmware (`hdl/`) and the host software (`sw/`) of a USB
oscilloscope board, the TLC runs that check them on small instances, and TLAPS
proofs about them. Paths are relative to the repository (`src/` here).
`PROJECT.json` lists components, runs, one mutation per property that the run
must detect, the source lines of every definition, findings and hazards.

## 1. The system

Samples of a two-channel ADC are decimated, stored in a ring buffer around a
trigger, and read out by a PC over a USB FIFO chip. The same byte stream carries
commands for SPI and I2C devices, for registers and for the acquisition
parameters.

| Part | Source | State | Operations | Interaction |
|---|---|---|---|---|
| Dual-clock FIFO | `hdl/GenericFifoAsync.vhd`, `hdl/SynchronizerBit.vhd` | memory, binary and Gray pointer and a registered flag on each side, two-stage synchronizers, a reset loop | write, read, reset, edge of either clock | carries samples and read data between ADC/SDRAM/bus clocks |
| Recorder and trigger | `hdl/MaxAdc.vhd` | FSM (INIT, FILL, RUN, STOP1, STOP2, HOLD), sample counters, trigger pipeline, millisecond timer | sample, trigger, auto-trigger, new parameters | toggles to and from the readout; drives a sample buffer |
| Readout | `hdl/MaxAdc.vhd` | FSM (ECHO, MSIZE, HDR, READ) | read, flush, ask for size and rate | behind the command multiplexer; reads the sample buffer |
| Block-RAM sample buffer | `hdl/SampleBufferBRAM.vhd` | ring memory, writer FSM (WRITE, NSMPLS_HI, HALT), reader FSM (WAITRD, PRELD, READ), toggles | store, stop words, read, flush | between recorder and readout |
| SDRAM sample buffer | `hdl/SampleBufferSDRAM.vhd` | packers, two dual-clock FIFOs, control FSM | as above, through an external SDRAM | as above |
| Acquisition parameters | `hdl/CommandAcqParm.vhd`, `P_PARMS_HSK` of `hdl/MaxAdc.vhd` | byte FSM, assembled record, toggles, polarity | get/set parameters by mask | command multiplexer to recorder |
| Byte framing | `hdl/ByteStuffer.vhd`, `hdl/ByteDeStuffer.vhd` | escape FSMs | frame, escape, resynchronize | USB byte stream to and from frames |
| Stream stages | `hdl/SimpleBusPipeStage.vhd`, `hdl/SimpleBusAsync.vhd`, `hdl/SFifo.vhd` | one or two words and their flags | move a word | between every two bus blocks |
| Command multiplexer | `hdl/CommandMux.vhd`, `hdl/CommandWrapper.vhd` | FSM (IDLE, CMD, FWD, WAI, ERR) | route a frame to a handler and its reply back | all handlers |
| Command handlers | `hdl/CommandVersion.vhd`, `hdl/CommandReg.vhd`, `hdl/CommandBitBang.vhd`, `hdl/CommandSpi.vhd` | one FSM each | execute a command | behind the multiplexer |
| Serial engines | `hdl/SpiBitShifter.vhd`, `hdl/BitBangIF.vhd`, `hdl/SpiShadowReg.vhd`, ... | bit counters | shift bits | behind handlers |
| USB FIFO interface | `hdl/Ft240Fifo.vhd` | FSM (IDLE, READ, WRITE), byte each way | bus cycles | USB chip to byte framing |
| Frame transfer | `sw/cmdXfer.c`, `sw/fwComm.c` | transmit and receive positions, escape state | open, exchange a frame, time out | blocking calls on the tty |
| Flash and unit data | `sw/at25Sup.c`, `sw/flash.c`, `sw/unitDataFlash.c`, `sw/unitData.c` | the calibration in memory; the chip's memory, busy, write-enable, protection and error bits | erase, program, verify, serialize, parse | over the SPI command |
| Board | `sw/fwComm.c`, `sw/scopeSup.c`, `sw/versaClkSup.c`, `sw/max195xxSup.c`, `sw/lmh6882Sup.c`, `sw/ad8370Sup.c` | registers of clock generator, gain stages, relays, DAC and ADC; a flag in the FPGA; calibration and DAC range in the library | open, initialize, close, DAC offsets, clock output | one program after the other over the bit-bang, SPI and register commands |
| I2C | `sw/fwComm.c`, `sw/dac47cxSup.c`, `sw/tca6408FECSup.c`, `sw/at24EepromSup.c` | the lines; the chips' registers | register and EEPROM reads and writes, changing a bit | bit-bang command, one transfer per level of the lines |
| Scope library | `sw/scopeSup.c` | parameter cache, calibration | set/get parameters, read buffers | over commands |
| Settings, measurement files | `sw/jsonSup.c`, `sw/hdf5Sup.c`, `sw/scopeSup.c`, `sw/bbcli.c` | a file with the settings; a file with a recording | save, load, apply all; store with what describes it | setters of the library; the HDF5 library |
| Python class | `sw/pyfwcomm.pyx` | a parameter cache of its own, the request and thread of the asynchronous read | setters, read, start an asynchronous read | calls the scope library, calls back from its thread |
| Display | `sw/scope.py` | pool of counted display buffers, two read buffers with headers, processed, shown and saved buffer | reader thread, asynchronous callback, update, save, file writers | conditions and locks between reader, GUI and file writers |

Hard behaviours: two to four unrelated clocks; wide registers that cross them
without synchronizers because a toggle says that they hold still; a buffer that
is handed over by two toggles at once and a flush that gives it back early;
resets that travel; pipelines that stall at any cycle; a byte stream that must be
resynchronized after a host ended in the middle of a frame; chips that keep what a
program set half way, and a flag that tells the next program not to look; sequences
of dozens of transfers, each of which may be lost with or without its effect.

What makes each part correct: a FIFO and a pipeline stage are queues; a readout
is one recording and nothing else; the window is aligned with the edge that
triggered; the recorder only works with parameters that fit together and were
stable when taken; no display buffer is reused while somebody has it and none is
lost; the copies of the parameters agree; every frame is answered once, in order and by the handler it
was for; the host gets the reply to its own request and never blocks; what an
operation on a chip reports as done is done, and nothing else is; a board said to
be ready is; a file holds all or is not there; what was saved can be restored.

## 2. Modules

Time is explicit only as clock edges: an action is one rising edge of a clock
(two unrelated clocks may also have their edges together) and does everything the
combinational and the sequential process of the source do at that edge. Names
follow the source; `r.x` is the field `x` of a record variable or the variable
`x`. Data are reduced to what the properties tell apart.

| Module | Models |
|---|---|
| `GenericFifoAsync` | Both sides of the FIFO, synchronizers, reset loop, output register. A first synchronizer stage that samples a pointer while it changes takes any mixture of old and new bits. `bin2Gray`, bit by bit, gives the table it is parameterised by. |
| `SampleMemory`, `MaxAdcWriter` | The ring's address arithmetic; `P_WR_COMB`: the recorder. |
| `SampleBufferBRAM` | The buffer. A word of the memory is its age in samples, so that one comparison tells whether a readout has the right word. |
| `MaxAdcReader` | `P_RD_COMB`: the readout, byte by byte. |
| `Acquisition` | Recorder, buffer and readout with the synchronizers between their clocks. |
| `Trigger` | Recorder, `P_TRG` and `P_TICK`: trigger pipeline, hysteresis and arming (in the width the source has for their sum), millisecond timer, over-range counters. |
| `SimpleBus` | Beats of the command bus and the bytes with a meaning of their own. A bus is `<<>>` or `<<beat>>` (valid). |
| `StreamQueue` | Abstract specification: a queue of bounded length. |
| `SimpleBusPipeStage` | The pipeline stage, shown to implement `StreamQueue`. |
| `ByteStuffing` | The framing FSMs, `ByteStuffer` and `ByteDeStuffer`. |
| `CommandMux`, `CommandHandlers` | The multiplexer and three handlers (`CommandVersion`, `CommandReg`, `CommandBitBang`), each a set of output operators (what it offers and accepts in this cycle) and an edge. |
| `CommandWrapper` | The device: destuffer, input stage, multiplexer, handlers, output stage, stuffer, all at one edge. |
| `CmdXfer` | `fifoOpen` and `fifoXferFrameVec` of the host. |
| `CommandPath` | Host, a link that holds `LinkDepth` bytes each way, device. |
| `CommandAcqParm`, `ParmsHandshake`, `AcqParmPath` | The parameter command, the hand-over to the recorder's clock, and both behind the multiplexer. |
| `AT25Flash` | The flash chip (external): bytes as sets of bits, blocks, pages that wrap around, busy, write-enable, protection, error bit. |
| `At25Sup` | Each function of `at25Sup.c`, `flash.c` and `unitDataFlash.c` as the sequence of transfers and tests it makes; what C does when one fails (`goto bail`, return, ignore) is part of the step. |
| `FlashPrograms` | Programs that run one after the other, step by step; transfers, chip, programs and power fail in between. |
| `UnitData` | What `unitData.c` lays out in the last block, byte by byte, and what its parser makes of a block whose programming ended anywhere, or of an old layout. |
| `Hdf5Sup` | Storing a recording as the list of library calls the code makes, each of which may fail; the attributes that a board knows. |
| `Settings` | `scope_json_save`, `scope_json_load`, `scope_get_params`, `scope_set_params` and `acq_set_params`; another board, an editor, setters that fail. |
| `BusI2C` | The two lines and what three chips on them see, each with a register pointer of its own (external). |
| `I2CHost` | The I2C functions over single settings of the lines, as lists of steps with what becomes of a lost transfer and a missing acknowledge. |
| `Board` | Opening, initializing and closing a board, DAC offsets, clock output: each request is the list of the transfers it makes and of where the code goes if one fails. The chips' state is a function of fields, a multi-byte divider the set of values its bytes may be taken from. |
| `Display` | The asynchronous read of `pyfwcomm.pyx`, `Reader`, the buffer pool with its reference counts, `updateData` and `saveData` (with the event loop inside the file dialog), file writers. A recording is its age. |
| `ParmCache` | The acquisition parameters in the device, in the library and in the Python class; each step is one setter, whose transfer succeeds, is lost, or is not answered. A C client asks for any values; what the request limits (decimations, shifts, the bits of the scale) is limited in it (`OnWire`) and not in the cache. |
| `MC*` | Small instances. |
| `*_proofs` | Theorems, and the inductive invariants that the runs check too. The instances of `GenericFifoAsync`, `Acquisition` and `ParmCache` need a definition or two and are at the end of these modules; `Display` needs none. |

Every acceptance between two blocks is combinational in the source (a ready
signal may depend on the consumer's ready of the same cycle), so the wrapper's
edge computes `rdy` from the output back to the input before any register
changes. History variables (marked as such) record frames, replies and samples
for the properties; no action reads them.

## 3. Runs

| Run | Question | Bounds |
|---|---|---|
| `fifo` | Is it a queue, with resets at any time? Is the invariant of the proofs an invariant? Does nobody wait for ever on a stale pointer; does a reset come back? | 4 entries, 1 word (which word it is: proved for any set of words, `Order`), output register on, at most 2 edges of one clock between two of the other |
| `acq` | Is a readout one recording, oldest first; do unsynchronized registers hold still; does a recording become readable and the recorder go on? | memory of 3 in an address space of 4, counters split in two words, all commands at any time, one right behind the other included, parameters at both limits, clock ratio 2 |
| `acq_flush` | The same as `acq` for the recording after a flush (finding) | write clock up to three times faster |
| `trigger_over` | Does the over-range flag tell about the whole memory? (finding) | as `Trigger` below |
| `cmdpath` | Is every frame answered as its command asks; does the transfer end; what if the host times out or ends at any byte, and opens again? | 8 byte values of which 2 are special, requests complete, short, overlong and unknown, 2 bytes of link, one fault |
| `parameters` | Two models that share no state, in one run (`part` in `MCParameters` tells which one a behaviour is): | |
| – `AcqParmPath` | Do parameters reach the recorder whole and valid; does the reply end when they are in force? | 2 bytes of mask, 2 parameters of a byte, memory of 3, frames complete and cut short, recorder ready at any time |
| – `Trigger` | Is the window aligned with the edge; do timers and over-range counters belong to this recording? | memory of 3, levels and samples of 2 bits (-2..1), hysteresis 0..3, four parameter sets (both channels and the external trigger, both edges, sums that are saturated and that wrap, timer at once, after a millisecond, never), `AUTO_TIME_STOP` 2 |
| `parms_reply_lost` | The same if the reply is stalled while the acknowledge is there (finding) | as `AcqParmPath` above |
| `host` | Six parts of the host software that share no state, in one run (`part` in `MCHost` tells which one a behaviour is): | |
| – `FlashPrograms` | Is success what was written; does the next program put right what failed; is the rest left alone? | 32 bytes, pages of 2, blocks of 4, 16 and 32, `MaxRequests` 3 programs out of eight, `MaxFaults` 1 |
| – `UnitData` | Is what was programmed read back, and what was programmed in part never mistaken for something else? | 1, 10, 11, 15 and 16 channels, numbers of 8 bytes, block of 367 bytes, cut at 9 places |
| – `Hdf5Sup` | Is the file whole or gone, and everything closed? | `MaxH5Faults` 2, boards that know all, some or nothing |
| – `Settings` | Does a successful load restore what the file says, within the board's limits? | three boards, two channels, ten edits, `MaxSetFaults` 2 |
| – `I2CHost` | Does an operation do what it is asked for after one that failed, and never anything else? | `MaxOps` 2 out of seven, `MaxBusFaults` 1, pages of 2 bytes |
| – `Board` | Is an open board configured; does opening it again leave the offsets alone; does the clock output do what is asked and reported? | `MaxBoardOps` 4, `MaxBoardFaults` 1, three boards, dividers up to `IdivMax` 5 and `FdivMax` 6, `DivRegs` and `FbRegs` 2 bytes, `DacMax` 15 |
| `i2c_read` | Is a register read the register's value? (finding) | as `I2CHost` above |
| `display` | Is no buffer reused while in use and none lost; is a recording shown whole, with its header, in order; is the reader fed; is a single shot shown? | the three buffers of the code, one file writer at a time, ages up to 2 |
| `parmcache` | Is the library wrong about nothing but what failed; does Python's copy follow the device; does a repeated setter work? | C and Python clients in turn, memory of 2, the largest decimations 2, the largest shift 1 (`MaxCic0`, `MaxCic1`, `MaxShift`), requests at 0, within and beyond each limit, unsigned numbers modulo 8, two failures per session |
| `parmcache_npts` | Does the library know the number of pre-trigger samples when nothing fails? (finding) | as `parmcache`, C clients, no failures |

Why the bounds are enough: FIFO pointers wrap several times in 4 entries and
every pair of pointer positions occurs; a ring of 3 in 4 addresses has the
wrap that is not at a power of two and that of the address register; nsamples
and nprets at 0 and at the limit are the source's special cases; 2 bytes of link
are fewer than any request or reply, so both directions fill up; the special
bytes occur as data, address, count and status in the requests. Ages stop at the
memory's depth, sample counters at its size, histories are cut to what a property
can see. In the flash an image begins and ends in the middle of a page and of a
block, and the ratios between the block sizes differ, as they do in the chip; a
third program reads or writes after a second one came upon what a first one left.
The sizes of the unit data are the code's own, as 10 and 11 channels lie on either side
of what a byte can count. One lost transfer of a board or bus suffices for every state a
program can leave behind, since the next program starts anew, and the fourth request
of a board comes after open, close and open in any order; the dividers reach each of the
ways a clock frequency is set up (one divider, two, with a fraction, none that fits).

### What the runs found

* `acq_flush`: after a flush the recorder sees its release before the buffer
  does and counts samples that a halted buffer does not store. The next readout
  starts with samples from before. It needs two memory clocks per bus clock; if
  the ratio is higher, a stop word may be lost and the recorder stays in HOLD.
* `trigger_over`: the over-range flag is said to tell about the last `MEM_DEPTH_G` samples
  (`MaxAdc.vhd:700`). It tells about the newest `nsamples` (`OverRangeExact`), a number that is
  one less than what is read out: the oldest sample is left out, and with `nsamples` 0 the flag is
  never set.
* `parms_reply_lost`: the parameter command offers the last byte of its reply
  for one cycle without looking at `rOb`. If it is stalled just then the byte is
  lost and the multiplexer waits for it for ever.
* `i2c_read`: some operations return without a stop when a transfer is lost, and the
  converter may be left in the middle of a byte, pulling SDA low. The next start is then
  seen by no chip, the level the converter holds is taken for an acknowledge, the byte with the
  register goes elsewhere, and the chip answers the repeated start with the register its pointer was
  left at: the wrong value, without an error. `before.seen` in `AsAsked` and `OnlyAsked` leaves out
  the operations that begin so; among them are writes whose bytes the converter takes for data of
  the register it was being written, so that a register may change that nobody named.
* `parmcache_npts`: setting only the number of samples makes the device clip
  the pre-trigger samples; the library's cache, from which HDF5 files are
  labelled, keeps the old number.

Other things met on the way, which no run of its own shows:

Of the readout: a frame may hold a flush and a read. The read is looked at before the
buffer has seen the flush, so the reply is entered although there is nothing to read,
against the first of the two reasons given at `MaxAdc.vhd:522`. The second one is
enough: no word is taken from the empty buffer (`ReadNotEmpty`, also proved), and the
reply goes on with the next recording, but with the over-range flags of before.

Of the level that arms the trigger: it is a difference or a sum in 17 bits of a
signed and an unsigned number of 16 (`MaxAdc.vhd:684`), which wraps before it is saturated,
for instance with level -2 and hysteresis 65535, and nothing limits the hysteresis on its
way. The level is then at the wrong end of the range, every sample arms the trigger, and it
fires without an edge. `TriggerIsEdge` says what holds with such a pair (`Overflows`): the
sample at the trigger is beyond the level. Without `Overflows` in it TLC finds the sample
that is no edge.

Of the trigger (`MaxAdc.vhd:724`: "discard oldest sample (need 1 to fill 'lstTrg')"): a
restart clears two of the three registers an external trigger goes through, and FILL records
only one sample more than `nprets`. With `nprets` 0 or 1 a line that was high all along is
taken for an edge. The level trigger has the like with `nprets` 0: the level that arms it
is 0 at the first edge whatever the parameters are, and after a change of channel the
pipeline still has a sample of the other one. `TriggerIsEdge` says what holds (`Refilled`);
without that premise TLC finds these counterexamples.

Elsewhere: resets in the FIFO with more than two read edges per write edge violate
`InOrder`; a timeout between ESCAP and the quoted byte makes the device quote the
next COMMA, so transfers only work again after the link was opened anew; opening
it while the device still has something to answer does not synchronize; the
programming error of a page is looked for in the wrong variable
(`sw/at25Sup.c:535`), which `SuccessIsWritten` survives because every caller asks
for verification; an erase of more than the smallest block takes larger ones and
may reach beyond the last smallest block that is needed.

Of the host: decimations and shifts beyond their limits are limited in the request
(`scopeSup.c:1374-1404`) and kept as they were asked for in the library's cache, which then
differs from the device although nothing failed, and so does what is computed and saved from it;
`Confined` says what the device has instead, and `PyInSync` is not concerned, since the Python
class refuses them. A decimation of 0 has an infinite scale whose conversion to an integer is
undefined (`InfScale` is any number). After a failed setter Python's cache has the old value, and setting
that value again returns without a transfer although the device may have taken
the new one; `acqSetDecimation` changes the scale in library and device but not
in the Python class; after a lost `acqSetNSamples` the library clips a later
`npts` to what it believes; a failing initial read leaves all-zero parameters,
and a message; the time axis of the display is computed from the current
pre-trigger samples and decimation, not from those of the recording shown.

Of the flash: programs that erase without programming (clearing the unit data,
`unitDataFlash.c:122-144`, and `bbcli` with an erase only) unlock the whole chip and leave it so;
`SmoothSucceeds` states for them that the area is erased and the chip idle and not
write-enabled, and the protection only for the others.

Of the board, none of which contradicts `ReadyMeansConfigured`, whose premises leave them out:
* `scope_init` raises the flag for a moment to see whether it can
  (`scopeSup.c:697-712`); a program that is killed then leaves it raised over chips
  that are not set up, and a forced initialization that fails leaves the old flag;
* if the reply to the last byte of the feedback divider is lost, later programs find the
  divider right and skip the calibration of the oscillator (`versaClkSup.c:79-86`);
* a lost read of the front end's directions leaves the front end out, with the flag set;
* a converter that does not acknowledge makes `scope_init` return 0 without the flag, and
  the library takes it for one of 8 bits.

Also of the board: `versaClkVCOCal` returns the value and not the status of its last
steps (`versaClkSup.c:106,109`); the expander's outputs are written without looking at
errors, although a comment wants them set before the direction
(`tca6408FECSup.c:220`); a failed version request in `fw_open_fd` ends in `abort()`;
rounding a fraction up to 2^24 drops the carry.

Of settings and files: a value of a board that does not support it makes
`scope_json_load` return a positive `EACCES` (`jsonSup.c:433`), although a comment
(396-398) has it ignored; `bbcli` applies what a failed load left; errors of termination and DAC
are ignored (`scopeSup.c:2100,2107`); a loaded `fullScaleVolt` takes the place of the calibration;
the condition at `hdf5Sup.c:777-782` is the inverse of its comments; the space of an
attribute is leaked when the attribute cannot be created; nothing is unlinked if
`scope_h5_create` fails, although what was there has been truncated. Unit data of more
than ten channels can be written and not be read back (the size of an item is a byte).
Of I2C: data that were acknowledged in part give `bb_i2c_write_reg` the result 0, and the
EEPROM's last byte cannot be accessed.

### Assumptions about the environment

* Clocks do not stop and their ratio is bounded (`WrPerRd`, `RdPerWr`). The safety of
  `Acquisition`, and without resets that of the FIFO, needs no bound (section 4); with them `RdPerWr <= 2`
  (`ClockAssumption`), and progress needs `WrPerRd <= Depth - 2`.
* Fairness: clock edges happen (WF); samples keep coming, the reader keeps taking,
  the host keeps asking where a liveness property is about a hand-over (SF of
  exactly those edges, since the environment may pause in between); the host's
  loop around `pselect` goes on (WF), registers are ready now and then. No
  fairness is put on faults, parameter changes, flushes or resets. `parameters` lets
  bytes be offered and taken at one edge again and again, and does not let the
  reply stall at the acknowledge; `parms_reply_lost` drops the latter.
* `Display` takes an augmented assignment (`self._refCnt -= 1`) for one step, which
  holds for CPython since 3.10; with a thread switch in between neither `NotReused`
  nor `NoLeak` does. The reading thread, the reader and file writers go on (WF);
  an event that is queued is dispatched, also inside the file dialog, and gets the
  lock (SF); the dialog may stay open for ever.
* The flash chip ignores everything but a status request while it is busy, clears
  write-enable after every write, and refuses to write protected blocks. A failing
  erase or page write, or a power failure in one, leaves a prefix done. A program
  may begin while the chip still works on what the last one left.
* In `Settings`, `Hdf5Sup`, `I2CHost` and `Board` a transfer or a call fails with or
  without its effect; lists of steps end by themselves, and nothing is claimed about
  how long they take. Programs use a board one at a time (the tty is locked).
* `ReplyIsMine` is stated only while the link has been undisturbed
  since it was opened and the device was quiet then; `EachFrameAnswered` holds
  always.

## 4. Proofs

Each proof is about an inductive invariant, `IInv` (for the pipeline stage `PipeInv`), that
implies the properties. TLC has checked each one on the instance of its component's run before
it was proved; of the runs only `fifo` still does, but the runs are on the modules of the
proofs or on ones that extend them, so that `IInv` may be added to any of these configurations.
(The exceptions: `MCTrigger` has to extend `Trigger_proofs` for it, and the invariant of
`CommandPath_proofs` quantifies over histories of any length.) The lemmas show, action
by action and conjunct by conjunct, that a step keeps it.

`GenericFifoAsync_proofs`: for every depth, set of words, with or without output
register and with resets, from

* `ConstantAssumption` (depth at least 2, ...),
* `ClockAssumption` (with resets, at most two read edges between write edges),
* `GrayAssumption` (codes of different pointers differ, and a code sampled while
  its pointer is incremented is the old or the new one; the run `fifo`
  evaluates it for the Gray code of the source).

The properties are not inductive: that a full memory is never written depends on
what is in the synchronizers. `IInv` adds

* `RstInv`: the reset fills and empties the five registers of its loop in order,
  and what a side looks like when the other one may already run;
* `RunInv`: the writer's two copies of the read pointer are 0 to Depth increments
  behind, the older one at least as far as the newer, and Depth only if the
  full flag is set (`WrView`); likewise the reader's copies of the write pointer
  (`RdView`); the memory holds the accepted words that were not fetched
  (`Contents`).

Lemmas about the write step, the read step and both at once show that each part is
preserved, first without a reset, then from a reset to normal operation.
`TypeCorrect`, `Order`, `OldestOffered` and `Flags` follow from `Inductive`.
`TypeOK`, `HeadOffered` and `FlagsSound` follow from `IInv` and are proved only.

`SimpleBusPipeStage_proofs`: for every set of beats the stage implements
`StreamQueue` under the mapping `buf \o ovfl`, from the invariant that the
overflow register is only used behind a full buffer (`PipeInv`).

`Acquisition_proofs`: for every size of the memory, every set of parameters and
clocks of any ratio, from `MemoryAssumption`, `ParmsAssumption`, `EnvAssumption`
and `ReaderAssumption` (words of two or four bytes). Neither hand-over of the
memory is inductive by itself: that the write side is halted while the read side
works depends on what is in four synchronizer stages. `IInv` adds

* `Ring`, once for recorder and readout and once for the two sides of the buffer: the
  owner's toggle, the two stages to the other side, its toggle and the two stages back
  form a ring in which at most one change is on its way, the owner waits (HOLD, HALT)
  until it came round, and the read side works only where it waits for the answer;
* `Counted`: a recorder that fills or runs has not counted beyond its parameters;
* `Reading`: where the readout takes a word the buffer has one, because the byte count stood still
  while it had none; before any flush it has one for every word that is missing in the reply.

Each clock's edge is first shown to do its part (`MemEdge`, `BusEdgeStep`), a clock
that stands trivially so; then both, with whatever the synchronizers sampled, keep
the invariant (`StepsKeepIInv`). `TypeCorrect`, `HaltedWhenRead`, `NeverReadsEmpty` and
`RestartsWhenReleased` follow. That type correctness needs `MemDepth < LoWord * LoWord` is what
the two stop words say.

`WindowKept` (`WindowIntact`) needs a second invariant, `WInv`, which holds until a flush is
asked for. It ties the two rings together, which share no register: recorder and buffer turn
their toggles at the same edge, and wherever the readout's answer to the recorder has come, in
its register or in either synchronizer stage, the read side's answer to the buffer has come
before (`Followed`; a flush answers in the other order). Therefore the buffer writes whenever the
recorder counts, and a word of the ring as many places back as samples ago is the one taken then
(`Newest`); both stop words arrive, split and put together to the number of samples in the width of an
address (`FirstStopWord`, `SecondStopWord`, `Recorded`); the read side starts at the oldest
(`FirstIsOldest`, for depths that are a power of two and for others) and is always where the
number of words taken says (`Located`), because what it reads stands still. TLC has checked `WInv` on the
instance of `acq`. No bound on the ratio of the clocks is needed: what a fast memory clock breaks
(`acq_flush`) is broken only by a flush.

`AcqParmPath_proofs`: for every length of the mask, depth of the memory and set of
requests, stalled and clocked in any way, from `BusAssumption`, `AcqAssumption` and
`PathAssumption`. `IInv` adds to the types

* `Handshake`: the toggle goes to the recorder and back through four synchronizer
  stages (`Ring`), the provider waits in TRIG until it has come back, and while the
  hand-over is local nothing has left;
* `Counts`: the byte that comes next is one of the mask or of the parameters, without
  which neither the types nor `MaskEdge` and `ProcEdge` make sense;
* `HandedOver`: what is handed over was validated (`ValidatedFits`).

`MuxKeepsType`, `AcqStep` and `HandshakeBus` are the three parts of an edge of the bus
clock, `HandshakeMem` is the recorder's. At the switch from LOCAL to RUN the toggle
may flip in the same edge; the polarity is then that of before, so the flip is the first
one on the ring. `TypeCorrect`, `HeldWhenTaken` and `ValidWhenTaken` follow.

`Answered` (`AnsweredWhenApplied`) is about requests of any bytes that keep `CommandAcqParm` in
step (`RequestsInStep`: this command, at least a byte of the mask, no more values than
parameters; `MCAcqParmPath` evaluates it for its requests, and what happens otherwise is the
hazard at `CommandAcqParm.vhd:123`). A second invariant, `RInv`, says at each state of the
multiplexer where request, reply and handler are (`Exchange`: `Commanded`, `Echoed`, `HandingOver`),
with mask and parameters as functions of the bytes taken so far, and that the recorder
works with the new parameters once its toggle is the provider's (`Applied`). One lemma
per state of the multiplexer (`IdleReplies` to `WaiReplies`) shows that an edge keeps it and that
a reply which ends is right; `FrameGrows`, `BegunGrows` and `BegunEnds` are the sequences' part.
A reply whose last byte is lost (`parms_reply_lost`) never ends; `Answered` holds with it too.

`Trigger_proofs`: for every memory, set of parameters, samples, levels and sample strobe,
from `MemoryAssumption`, `ParmsAssumption` and `TriggerAssumption`. That a trigger belongs
to an edge of the recorded samples is a statement about samples that have been shifted
since, and about registers that a restart clears. Places in the recording are
therefore counted from the newest sample (`Ago`); a recorded sample moves all of
them by one (`Grown`), whether the oldest one is dropped or not. `IInv` adds to the types

* `Counted`: how many samples the recorder has, and has counted, in each state;
* `OverCounted`: the over-range counter o says that the newest sample out of range is
  nsamples - o ago, or that none is among the newest nsamples;
* `SampleKept`, `ExtPipe`, `LevelPipe`: what each register of the trigger pipeline says about
  the two samples in it and the newest one recorded, each once as many samples went
  through since the restart as it takes; for the level trigger, that a trigger which is armed and
  did not fire means that the older sample is not beyond the level, whatever armed it
  (`ArmsBefore`);
* `EdgeKept`: where the edge is while the window fills up.

`WindowAtTheEdge` (`TriggerIsEdge`) and `OverRangeOfTheNewest` (`OverRangeExact`) follow where the
recorder stops; what armed the trigger only says something of the sample before where the sum of level and
hysteresis does not wrap, and only there the edge is shown. The proof attempt without `Refilled` failed, and TLC
has the counterexamples (section 3).

`Display_proofs`: for every number of display buffers and file writers, from
`BufsAssumption`. `IInv` adds to the types

* `Having`: who has a buffer at which line of its program;
* `References`: every reference has a holder (`Tags`; a file writer has two while its creator's
  was not given up), the count of a buffer is the number of its holders, the pool holds each buffer
  whose count is 0, once, and the one the reader fills has no other holder (`Own`);
* `Reads`: after the first one exactly one read is asked for, under way or done, into
  the buffer of the reader's index, and what is copied or shown is complete and has its own header;
* `InOrder`: from the read to the screen each recording is newer than the next.

`NobodysBufferReused`, `NoBufferLost`, `HeaderOfItsData`, `DisplayGoesForward` and `ReadsAccepted` (that `FwComm`
never refuses a read, which the reader does not handle) follow.

`ParmCache_proofs`: for every size of the memory, every set of masks and of values, every limit of
the request and any number of failures, from `ParmAssumption`. The library merges and validates, and the device merges
what it is sent into its own copy and validates again. The two commute on every field
that is not in doubt, because what a field's validation looks at is in doubt only if the
field is. `IInv` adds to the types and `Confined`: which doubt entails which (`Doubts`), what
Python's copy knows while the library's cache does not (`PyKnows`), and that a setter that
raised has not changed the copy (`PyRaised`), so that its repetition is not taken for done.
`DoubtConfined`, `PythonKnows` and `SetAgain` follow.

`CommandPath_proofs`: for every set of requests, register file, version string and depth of the
link, with any number of timeouts, crashes and openings of the link, from `BusAssumption`,
`VersionAssumption`, `RegsAssumption` and `HostAssumption`. `EachFrameAnswered` says something of the last
byte of an answer, which depends on what all blocks before it held for many edges. The invariant
(`IInv`, with `Trace`) therefore follows the bytes: there is a sequence F of all frames that were
ever sent, and each thing in the system has a place in it, a frame and an offset:

* `InAt`: from the end of F back over the bytes on the link and the byte in the destuffer to the two
  registers of the input stage. `Way` runs the destuffer ahead over what is on the link, since what a
  byte will be there (quoted, end of a frame) is known only from those before it (`After`, `Fits`);
* `Middle`: the multiplexer is at frame c, with one predicate per state (`AtIdle` to `AtErr`), and the
  selected handler has taken k bytes of it, told j bytes of `Reply(F[c])` and done w of `Writes(F[c])`
  (`VerBusy`, `BbBusy`, `RegBusy`), while the others rest;
* `OutAt`: from the multiplexer over the output stage and the stuffer to the answer, each holding the
  next bytes of the replies to F;
* `Due`: the frames that are due are the rest of F, unless the last one was answered early;
* `Log`, `Kept`: the writes of all frames in a row, of which `written` is the rest.

There is one lemma for each block and state about what an edge does to the places before and behind
it (`DstStep`, `IdleStep` to `ErrStep`, `AllStart`, `AllListen`, `AllTell`, `StfStep`), one for what the
host sends, which makes F grow at its end (`Sends`, and the lemmas `...Stays`), and one that the sequence of
what was written stays a rest of the log (`KeptStep`). `CommandWrapper`'s edge joins them (`ClkTrace`).
`TypeCorrect`, `Answers` and `StagesAreQueues` follow; the latter uses the theorem of
`SimpleBusPipeStage_proofs` at both places.

`ReplyIsMine` (`OwnReply`) takes a second invariant, `InStep`, which is inductive together with `IInv`
and speaks of the host and the history alone. As long as nothing was cut short, host and device are quiet
before and after a transfer (`Quiet`), and during one the host still has to write the rest of the stuffed
request (`Sending`, from `Encodes`, which says of `Stuffed` where each byte of the frame is), while
what it has received becomes, with the bytes on the link (`Reaches`), either what came of the answer so far
(`Asks`) or the whole reply, cut to the buffer (`HasReply`). That the device puts out nothing when
nothing is due (`DatOfDue`), and that what ends an answer is the reply (`AnsweredWell`), come from `IInv`;
that an early error is the reply to the complete frame, from its first byte (`ReplyEarly`).

The replies are defined by data, and so is what the host writes for a frame. Addresses count modulo the
number of bytes (`ModIs`, `ModSucc`), and `Good` is a choice (`GoodIs`); both need induction, which
`Induct` provides without an operator as parameter: the numbers that are not in a set have a
smallest one, from the library's theorem about the order of the numbers. In the same way
`Iterates` shows that a function given by its first value and its steps exists, and `Along` that
what each step keeps holds at its end; with them the folds of `Stuffed` and of the host's receive
loop are known step by step (`StuffedBy`, `StuffingGrows`, `ReadBy`, `ReachesRead`).

Only model-checked: the invariants of the six parts of `host`. The programs of `FlashPrograms`,
`Settings`, `Hdf5Sup`, `I2CHost` and `Board` are lists that are put together and folded, and the parser of
`UnitData` is a recursive operator, about which nothing can be proved. All liveness is model-checked only
(fairness and ENABLED are out of the prover's reach).

## 5. Not modelled

* Fill indicators of the FIFO (no instance enables them).
* `adcRst`, `busRst`, `abrt`: board resets; the initial state is the one after
  configuration.
* Decimation filters, shifters: arithmetic pipelines; the strobe is an input.
* Pins of the bit-bang interface, I2C stretching and its timeout.
* `CommandReg` with a register clock of its own.
* The components listed as `not_modelled` in `PROJECT.json`, each with its reason.
* In the host: scatter lists, failing system calls; of the flash functions the soft
  reset and progress callbacks that stop an operation; of `scope.py` the widgets and the
  dialog that reports an error; of the parameters those that are only copied, and API
  version 1.
* Of the board: firmware without the registers the initialization needs, the simulated
  board, board version 3, the bits of an SPI transfer (a lost one may leave a chip
  selected, `fwComm.c:636-705`), setting calibration while running, power and test modes.
* Of the files: their syntax, arrays of a wrong size, the clock output in the settings,
  hyperslabs, a program killed while storing.

## 6. Plan

In this order; each with its runs and, where named, theorems.

1. `SampleBufferSDRAM` between two abstract FIFOs: packing, pipelined reads, last
   flag, flush in every state; then in place of the block RAM in `Acquisition`,
   both against one abstract specification of a sample buffer.
2. `CommandSpi` with `SpiBitShifter`, up to chip-select at the end of a frame,
   which is what ends a page of `FlashPrograms`, and the SPI functions of `fwComm.c`.
3. `Ft240Fifo` bus cycles; `SimpleBusAsync` with its reset, and `CommandReg` on it.
4. Theorems: the lists of steps of `Board` and `I2CHost`, with `Iterates` and `Along`.
