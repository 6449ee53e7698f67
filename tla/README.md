# picosim in TLA+

Specifications of `picosim`, the CP/M machine for the RP2xxx-GEEK boards
(`srcsim/`, `libs/stdio_msc_usb/`, the parts of
`libs/no-OS-FatFS-SD-SDIO-SPI-RPi-Pico/` the machine uses), with configurations for TLC and proofs for
TLAPS. Paths in this document are relative to the root of the repository; the
TLA+ modules are beside this file.

```
tlc -config Disks.cfg DisksMC.tla      # model-check
tlapm DisksProofs.tla                  # check the proofs
```

## 1. The system

A two-core microcontroller emulates a Z80/8080 computer with a floppy
controller, banked memory, a graphics card, a serial console and a small colour
LCD. Four kinds of activity run at the same time:

* **core 0, main program**: `main()`, the configuration dialog `config()`, then
  `run_cpu()`, which executes the guest program and calls the port handlers;
* **core 0, interrupts**: the USB interrupt, the low priority worker that calls
  `tud_task()`, alarms of the timer, the callbacks `tud_task()` makes;
* **core 1**: `lcd_task()`, an endless loop that draws a frame 30 times a
  second, preempted by the DMA interrupt of the display;
* **hardware**: the DMA channel and the SPI of the display, the DMA channels and
  the PIO of the SD card, the card, and the USB host at the other end of the cable.

There are few locks. Most protocols consist of the *order* of loads and stores
of volatile variables, and this is what a test cannot exercise and what most of
the modules are about.

### Components

| component | state | operations | what makes it correct |
|---|---|---|---|
| LCD refresh task and API, `lcd.c` | draw function, backlight, rotation, done flag (shared by the cores); current status panel, who owns the screen (core 0) | `lcd_init`, `lcd_exit`, `lcd_custom_disp`, `lcd_status_disp`, `lcd_status_next`, `lcd_brightness`, `lcd_set_rotation`; the steps of `lcd_task` | one owner of the screen; whole pictures; no request lost; the restart completes, with the panel off |
| LCD controller driver, `lcd_dev.c` | `lcd_dma_active`, `lcd_rotated`, the DMA channel, SPI FIFO, chip select | init, rotation, `lcd_dev_send_pixmap`, `lcd_dma_wait`, the interrupt handler, exit | commands and pixels never mix; frames are complete; every transfer is noticed |
| Memory, `simmem.[ch]`, MMU port of `simio.c` | `bnk0`, `bnks`, `selbnk`, `curbnk` | CPU and DMA loads and stores, bank selection, reset, the file loader; loads by core 1 | the arrays behave as NUMSEG + 1 address spaces with a common part and a ROM; readers stay inside |
| Disk drives, `disks.c`, with the dialog and FatFS | mount table, its copy in the configuration file, images, open files, LED | mount, unmount, `check_disks`, `prep_io`, `read_sec`, `write_sec`, lending the card, saving, power cuts | a request reaches one sector of the disk in its drive; nothing is left open; a name is in one drive; mounted names open a file |
| USB console and mass storage, `stdio_msc_usb.c`, `msc_usb.c` | mutex, two flags, one-shot alarm, worker, TinyUSB queue, `msc_ejected` | stdio in and out, `low_priority_worker_irq`, `timer_task`, `stdio_msc_usb_do_msc`, mass storage callbacks | `tud_task()` is never entered twice; no event is forgotten; the card has one user |
| Timer and control ports, `simio.c`, `picosim.c` | timer flag, scheduled alarms, interrupt request, lock of the control port | `timer_out`, `timer_alarm`, `hwctl_out`, break, `exit_io` | ticks while enabled, ends when stopped; commands need their key; reset is clean |
| FatFS, `ff.c` | FAT and directory on the card, the window, the open file with its sector buffer, lock table | `f_mount`, `f_open`, `f_lseek`, `f_read`, `f_write`, `f_sync`, `f_close`, chains of clusters | the volume is sound at every moment; records keep what was written; no cluster is lost |
| SD card driver, `sd_card_sdio.c`, `glue.c` | status, open multiple block write and its next sector; the state of the card | start, reads, writes, stop, sync | it is a block device; blocks go to their own sector |
| Transmission over SDIO, `rp2040_sdio.c` | state, counts and checksum of the transfer, two DMA channels, the PIO | `rp2040_sdio_tx_start`, `tx_poll`, `sdio_irq_handler`, `stop` | a success is true; blocks in order with their own checksum; every request ends; nothing runs after it |
| Other settings of the dialog, `simcfg.c` | CPU, speed, port 255, LCD, console bits, clock | one command each, the fields of the file | *planned: Config* |
| Drive status panel, `lcd.c` | `lcd_drives[]`, written by core 0 and by core 1 | `lcd_update_drive`, the drawing of the panel | *planned: DriveStatus* |
| Dazzler, `dazzler.c` | on/off, picture address, format | port handlers, drawing on core 1 | ownership and frame flag in LcdTask; pixels are data |
| Boot ROM, BIOSes, XIOS (`roms/`, `srccpm2/`, `srccpm3/`, `srcmpm/`) | guest programs in assembler | console, disk, bank and interrupt routines | *planned* |
| Drawing library, fonts, debug port, RTC driver, descriptors | none or constants | pure computation or register I/O | not modelled |

`PROJECT.json` lists every component with its files and what is left out of it.

### How they interact

* Core 0 never touches the panel: it stores a draw function, a brightness and a
  rotation, and `lcd_task()` polls them. `lcd_exit()` stores a null draw function
  and spins on `lcd_task_done`.
* `lcd_task()` gives a pixmap to the DMA channel and draws the next frame while
  it is sent; the DMA interrupt on core 1 ends the transfer.
* The Dazzler and the memory panel read guest memory on core 1 through `selbnk`
  and `curbnk`, which core 0 stores one after the other.
* `read_sec()` and `write_sec()` move sectors between guest memory and image
  files, through FatFS, and light the LED.
* FatFS and the callbacks of the mass storage class both end in
  the functions of the SD card driver: FatFS, through `glue.c`, with one sector at a
  time, the host with up to 8 (the buffer of tusb_config.h:60). Both in the main
  program: the callbacks serve the host only until it ejects the disk
  (msc_usb.c:180), that is inside `stdio_msc_usb_do_msc()`, which the dialog calls
  (msc_usb.c:40-46, simcfg.c:347) with the `tud_task()` of the worker switched off.
  The driver sends commands one by one, the blocks by DMA, whose interrupt preempts
  the main program at any step.
* The main program and the worker interrupt both call `tud_task()`; a mutex and
  the flag `irq_tud_task_enabled` keep them apart. The console is served by it,
  and so is the host while it has the SD card (`u` of the dialog).
* A break from the terminal, a HALT or an I/O error stop the CPU; `main()` then
  closes everything and resets the chip.

### What is hard

Preemption between any two steps, on one core by interrupts and between the
cores (LCD, memory, USB); failures of the card at every call, in the middle of a
request (disks); power cuts during a write; the host changing the card behind the
machine's back; blocks, commands and responses lost between the chip and the card;
a file system cut off between two of its writes; alarms that outlive what they were
made for. `PROJECT.json` lists
each hazard at its line, with the property that covers it or the reason why none
does.

## 2. The modules

| module | models | checked by | proved in |
|---|---|---|---|
| `LcdTask` | `lcd.c`, the screen part of `dazzler.c`, `main()` and the LCD commands of the dialog | `lcd_task` | `LcdTaskProofs` |
| `LcdDev` | `lcd_dev.c` with the hardware it drives | `lcd_dev`, `lcd_dev_wait` | `LcdDevProofs` |
| `AddressSpace` | what the memory promises | (abstract) | |
| `Memory`, `MemoryMC` | `simmem.h`, `simmem.c`, the MMU port, sector DMA, the file loader, readers on core 1 | `memory`, `memory_bad_bank` | `MemoryProofs` |
| `DriveArray` | what the floppy controller promises | (abstract) | |
| `Disks`, `DisksMC` | `disks.c`, the disk commands of `simcfg.c`, FatFS as they depend on it | `disks`, `disks_close` | `DisksProofs` |
| `FatFs` | `ff.c`: files, the FAT, the directory, the caches | `fatfs` | `FatFsProofs` |
| `BlockDevice` | what `glue.c` promises to FatFS and the host | (abstract) | |
| `SdCard`, `SdCardMC` | `sd_card_sdio.c`, `sd_card.c`, `glue.c`, with the card | `sd_card` | `SdCardProofs` |
| `SdioTx` | the transmission of blocks, `rp2040_sdio.c`, with DMA, PIO and card | `sdio_tx` | `SdioTxProofs` |
| `UsbStdio` | `stdio_msc_usb.c`, `msc_usb.c`, the `u` command | `usb_stdio` | `UsbStdioProofs` |
| `SimIo` | the timer and hardware control ports of `simio.c`, the end of `main()` | `simio` | `MemoryProofs` |

The storage modules are layers, each of which is open about the one below: `Disks`
lets any call of FatFS fail, `FatFs` any access to the card, `SdCard` any command and
any block, and `SdioTx` shows what becomes of the blocks of one request.

Names of actions and variables are those of the source where it has a name. A
definition called `Mut...` is not part of a specification: it is a variant of the
definition that follows it, with a plausible bug, and shows that the properties
notice the bug.

**LcdTask.** `core1` is the statement of `lcd_task()` that is next: every load of a
volatile variable is a step of its own, because core 0 may store to it before the
next one. Each API function of core 0 stores at most one variable that core 1
reads, so it is one step. The pixmap is abstracted to whose picture it holds
("mixed" when a function draws its changes over the picture of another). `phase`
follows `main()` from power on to `watchdog_reboot()` and round again.

**LcdDev.** `pc` is the step of `lcd_task()` inside the driver, `handler` the step of
the interrupt handler; the task runs only while no handler does. Blocking commands
are one step; the pixel transfer is the channel feeding a FIFO of `Depth` entries
and the SPI emptying it. The pixmap has `Len` bytes.

**Memory.** `bnk0` and `bnks` are functions as the arrays are, `curbnk` is the index
the pointer stands for (possibly outside of `bnks`), `mmu_out()` is two steps, and a
load on core 1 is three: the test of `selbnk`, the load of `curbnk`, the fetch. The
constant `Selectable` is what the guest outputs to the port.

**Disks.** A request is `Request` (the checks of `prep_io()`), `Open`, one of the
transfers, and `Update` (the call of `lcd_update_drive()` that ends it); `Refuse` is a
request that `prep_io()` turns down. Every call of FatFS may fail. An image is mounted by
a name that is typed: the code compares names, FatFS opens files, and several names may
open one file (a doubled separator is enough, ff.c:2876). `card` says which file each name
opens, and it is arbitrary. Files are functions from positions to contents: `Torn` is what
nobody wrote, `Absent` is beyond the end. `open` is FatFS's table of locks.
`PowerCut` is possible everywhere; `CardInHost` lets any image change while the
machine is off, `LendCard` while it is in the dialog. With `CloseFails = TRUE`
`f_close()` may fail as well: the file stays locked, the sector that was acknowledged is
lost or torn.

**FatFs.** One file is open at a time, an image or the configuration file. `win` is the
sector window through which the FAT and the directory pass, written back when
another sector is wanted; `fp` is the file object with its own buffer. A step is a call of
`move_window()` or an access to the data, with what the function does until the next one;
`pc` names the place. `IsChain` says what a chain of clusters is, `OnChains` that the files have
given chains, `InOrder` and `NothingLost` that there are such chains on a volume. `Fault` counts accesses that failed and operations that were cut
off: `Remount` at any step is a power cut, a reset or another card put in. `saved` is
history: for each record of each file the values it may have, the old and the new one
while it is written.

**SdCard.** The card is a state machine of the SD specification, a command that is not
legal in its state gets no response. Any command or response may be lost (`Command`), a
block may be refused, damaged or never come. `pc` and `req` follow one request; what
several requests share is `ongoing_wr_mlt_blk`: a multiple block write is left open, and
the next request stops it or goes on with it. `Reset` leaves the card under power, in
whatever state it is in; `PowerCut` may tear the block on its way.

**SdioTx.** `pc` is the main program, the only one that writes; the DMA interrupt may come
between any two of its steps. They are the loads and stores where it matters: the second
checksum is computed after the first block was started (the counter is not volatile, the
compiler may load it again), and `rp2040_sdio_stop()` after a timeout aborts one channel,
then the other, then switches the interrupt off. `overtaken` is history: the handler
started the second block before its checksum was stored. `CH` and `CHB` are the DMA
channels, `wire` and `fifo` what the PIO sends and has received. A block is its number, a
checksum the number of the block it was computed from.

**UsbStdio.** `main`, `worker` and `timer` are the steps of the three activities; the
USB interrupt appends to TinyUSB's queue and raises the worker. The worker runs
above the main program; the timer and the USB interrupt may preempt it. `tud_task()`
takes one event after the other until the queue is empty.

**SimIo.** Between the two statements of `timer_out()` (`core = "add"`) an alarm may
come. `key`, `prev` and `effect` are history: what preceded the last output to the
port and what it did.

### Refinements

* `Memory!IsAddressSpace`: with `space` defined from the arrays and the bank
  register, every step of `Memory` is a step of `AddressSpace` or stutters. The
  pointer `curbnk` is hidden: that it never shows is the claim.
* `Disks!IsDriveArray`: with `drive[d]` the file that the name in drive `d` opens, and
  `unit[i]` read from the image `i`, every step of `Disks` is a step of `DriveArray` or
  stutters: a write that was reported changes its sector of the disk in its drive and
  nothing that had been written elsewhere, a read returns what the sector holds, a failed
  request changes nothing but may make a file grow. Drives share their sectors exactly
  where two names of one image are in them. `DriveArray` names the one way out,
  `LoseWrite`, for a write whose flush fails after it was reported (finding 3).
* `SdCard!IsBlockDevice`: with `request <- req`, every step of `SdCard` is a step of
  `BlockDevice` or stutters: commands, retries, the open multiple block write and the
  state of the card are hidden.

## 3. What TLC checks

| run | properties | what it shows |
|---|---|---|
| `lcd_task` | `ScreenOwner` `WholePicture` `PanelOffAtReset` `ExitReturns` `RequestShown` `SettingsReachPanel` `FramesKeepComing` | every interleaving of the API, the Dazzler and `lcd_task`, across restarts |
| `lcd_dev` | `BusExclusive` `FrameComplete` `RowsFitOrientation` `NoInterruptStorm` `TransferEnds` | the interrupt at any moment |
| `lcd_dev_wait` | `WaitEndsWithTransfer` | **violated**, finding 1 |
| `memory` | `PointerAgrees` `ReaderInside` `SectorNeverWraps` `IsAddressSpace` | a guest that selects banks that exist |
| `memory_bad_bank` | `BankExists` | **violated**, finding 2 |
| `usb_stdio` | `TypeOK` `TudExclusive` `CardHasOneUser` `OneShotTimer` `EventsServed` | main program, worker, timer and USB interrupt in every order |
| `disks` | `NothingLeft` `OneDrivePerName` `MountsExist` `IsDriveArray` | every failure, that of `f_close()` included, and power cuts |
| `disks_close` | `AcknowledgedIsOnCard` | **violated**, finding 3 |
| `fatfs` | `TypeOK` `VolumeSound` `FilesKept` `NoLostClusters` | one failure or cut at every access to the card, on every volume |
| `sd_card` | `IsBlockDevice` `ContinuesInPlace` `ReadyIsSelected` | every sequence of requests, losses, resets and power cuts |
| `sdio_tx` | `WrittenWhenOk` `OwnChecksum` `QuietAfterReturn` `RequestsEnd` | every interleaving of main program, handler, channels and card, a timeout at any poll |
| `simio` | `KeyForEachCommand` `ResetLikePowerOn` `Ticks` `AlarmsEnd` | guest, alarm and break in every order |

The type invariants of the other modules are not checked by a run of their own, they are
theorems.

### Bounds

* `LcdTask`: backlight 90 (the default) and 200 (out of the range the controller
  takes). Every other set is the one of the program; nothing is cut off.
* `LcdDev`: pixmap of 4 bytes, FIFO of 2: the FIFO is full, half full and empty
  while the channel is busy, and non-empty after it is done, which is all that the
  handler can meet. The proofs are for every length and depth.
* `Memory`: two banks of 2 cells, common RAM of 2, ROM of 2, bits for bytes,
  sectors of 2 bytes. There is a cell on each side of each border the code compares
  with, and two banks so that the wrong one can be hit. The proofs are for all sizes.
* `Disks`: two drives and a number that is not a drive, two names, two images (the names
  may open two of them, the same one, or none), two tracks of two sectors, one datum, two writes that reach the card (`MaxWrites`). The images
  the host brings hold one track, so that a write to the other makes them grow. Two
  writes are enough for one to disturb the other; the proofs are for all geometries
  and any number of writes.
* `FatFs`: one image and the configuration file on a volume of two clusters with one FAT
  entry in a FAT sector, so that each step along a chain moves the window, and two
  records in a sector; one datum besides the blank record. `Init` is every sound volume
  of this size, full ones, empty ones and fragmented ones. `MaxFaults` is 1: a second cut
  finds a volume in the order the first one left, which `Init` does not contain when
  clusters were lost. Larger instances are too slow for a run kept here: two faults
  were checked to the end once (14.5 million states, no violation); three clusters with
  two FAT entries in a sector (70 million states) and two images (25 million states)
  were explored in part, without a violation.
* `SdCard`: four sectors, requests of one and two, two contents: a request can be at the
  end of the card (where the driver reads sector by sector), cross it, be before it, next
  to the open write and away from it. The proofs are for every size.
* `SdioTx`: requests of up to four blocks: the first two checksums come from the main
  program, the third is the first one the handler computes, after the fourth there is none
  to compute. The proofs are for every number.
* `UsbStdio`: two events queued at a time (`MaxQueue`): one that is being handled,
  one that comes meanwhile. More events of the host only repeat what these do.
* `SimIo`: room for three alarms of this timer (`PoolSize`), enough for the pool to
  fill up; the bytes of the control port are the key, one of each command, two with
  more than one command bit, and 0.

`CHECK_DEADLOCK FALSE` is set for `LcdTask` (core 1 in its fault handler and core 0
waiting for it is the end) and `LcdDev` (after `lcd_dev_exit()` core 1
parks). Symmetry is used in `disks` for the names and for the images: the code only
compares names, and which image a name opens is arbitrary.

### Fairness

* `LcdTask`: `WF(Core1)`, a processor of its own that never blocks, and
  `WF(Core0Waits)`: core 0 does not leave the loop of `lcd_exit()` by itself, and the
  reset follows. Operator and guest owe nothing.
* `LcdDev`: `WF` of the task, of the handler (interrupts are enabled) and of the
  hardware.
* `UsbStdio`: `WF(Interrupts)`: a raised handler runs. `SF(MainContinues)`: handlers
  interrupt the main program again and again but leave it time, since the one-shot
  timer waits for an interval before it raises the worker. `SF` of leaving
  `out_chars()`, which gives up after a timeout.
* `SdioTx`: `WF` of each step of the main program but the timeout, of the handler, of each
  DMA channel and of a card that answers a complete block: `RequestsEnd` says that the
  timeout is not needed with such a card, unless a channel was still armed when the request
  began (see below).
* `SimIo`: `WF` of the alarm (time goes on), of the second half of an instruction
  and of leaving `run_cpu()`.
* `Memory`, `Disks`, `FatFs` and `SdCard` state no liveness: their loops are bounded, and the guest is
  free to do nothing.

### Findings

1. `lcd_dma_wait()` tests `lcd_dma_active` and executes `__wfi()` with interrupts
   enabled: the interrupt in between is a lost wake-up (lcd_dev.c:264). This is
   why `TransferEnds` speaks of the transfer and not of the wait.
2. `mmu_out()` tests the bank selected before and not the one requested
   (simio.c:425). Everything about memory is therefore stated for guests that
   select banks that exist.
3. The result of `f_close()` is not tested, and this is the call that writes the
   sector to the card (disks.c:331): CP/M is told that a sector is written which is
   not. `DriveArray` therefore has `LoseWrite`, and `NothingLeft` excepts a file whose
   flush failed: it stays locked, and later requests for it are refused until the card
   is mounted again.

Other behaviour the models contain and no run has to refute:

* `lcd_task()` loads `lcd_draw_func` once to test it (lcd.c:126) and again to call it
  (lcd.c:144). When `lcd_exit()` stores NULL in between, core 1 calls a null pointer and
  the machine never restarts; `ExitReturns` has the alternative `core1 = "fault"` for it.
* Stopping the 60 Hz timer and starting it within the same period leaves two alarms
  (simio.c:461) that both tick; `Ticks` and `AlarmsEnd` hold with both.
* An event that arrives just as the disk is ejected waits for the next `tud_task()` of the
  main program (msc_usb.c:44-46), or, without a terminal, for the next USB interrupt, so
  `EventsServed` is about a connected terminal.
* `read_sec()` and `write_sec()` hand a drive number that `prep_io()` refused to
  `lcd_update_drive()` (disks.c:301), which indexes an array with it.
* The handler may start the second block of a request while the main program computes its
  checksum (rp2040_sdio.c:559-560 against 584-588): the block is sent with the checksum of
  the first one. `OwnChecksum` excepts it (`overtaken`) and says what protects the data: the
  card refuses the block, and the request is never reported as a success.
* After a timeout in a request of several blocks a channel may stay armed, although
  `rp2040_sdio_stop()` is to "Force everything to idle state" (rp2040_sdio.c:731): the
  handler starts the next block between its aborts (line 733) and the interrupt is switched
  off only later. `QuietAfterReturn` excepts this case; the next request then begins with
  what that channel has left, and fails.
* Two spellings of a name put one image into two drives (disks.c:211 compares the names,
  ff.c:2876 skips doubled separators), which then share its sectors. `OneDrivePerName` is
  what the comparison achieves, and `IsDriveArray` says what the drives are with both.
* A request of the host that crosses the end of the card is not refused, only its first
  sector is tested (msc_usb.c:149 and 183). It fails, after the sectors that are on the card
  were written.
* After a CMD12 that the card did not get, the card waits for blocks while the driver
  takes it for stopped (sd_card_sdio.c:256): no further request succeeds until the next
  start of the machine. Nothing is written to a wrong sector.
* After a failure or a power cut clusters may stay allocated that no file has (`VolumeSound`
  allows it, `NoLostClusters` excludes it while nothing fails).

## 4. What is proved

All theorems hold for every value of the constants that satisfies the named
assumptions of the modules. Each rests on one inductive invariant per module
(`LcdTaskProofs` has one for each property), and the proof that a step preserves it
has a case for each action. Actions that leave a part of the state alone are
handled together, by a lemma that says what stays.

**MemoryProofs.** `IInv == CellsOK /\ RomIntact /\ BankOK /\ CoreOK /\ ReaderOK`. The
properties alone are not inductive: that the pointer agrees with the register has an
exception while `mmu_out()` is between its two stores, so `BankOK` also says that
nothing else happens there and that the pointer is a bank at all times; that a reader
fetches inside needs that the address it carries was tested below `SEGSIZ` at its
first step (`ReaderOK`), although the bank may have been switched since; that a sector
never wraps needs address and remaining bytes together (`CoreOK`). Proved: type
correctness, `RomIntact`, `PointerAgrees`, `ReaderInside`, `SectorNeverWraps`, each a
theorem of its own, and the refinement of `AddressSpace`. Assumption `KnowsBanks`: the guest selects banks
that exist (finding 2 shows that the code does not enforce it).

**LcdTaskProofs.** `ScreenHasOneOwner` by `ScreenInv`, which adds that the Dazzler is off
until the machine runs; `FramesAreWhole` by `RepaintOnChange`: as long as `first` is
down, the pixmap is the work of the function `lcd_task()` has loaded;
`PanelIsOffAtReset` by `ShutdownOrder`: controller off, done flag, reset of core 1, in
this order on two cores. Type correctness goes by groups of variables.

**LcdDevProofs.** `BusInv`: while `lcd_dma_active` is set the received, the queued and
the remaining bytes add up to the pixmap, and the position of the handler says which
of them are zero (`Flowing`); while it is clear the bus is quiet (`Quiet`).
`RowsInv` ties the window to the orientation. From these: `CommandsHaveTheBus`,
`FramesAreComplete`, `RowsFit`, `InterruptsEnd` and type correctness, for every pixmap length and FIFO depth.

**DisksProofs.** `ReqOK` (a request that passed `prep_io()` stays in range and its drive
has a name, until it is answered; once the file is open the name has an image), `MapOK`,
`CtlOK` (the flag of `check_disks()` is off while the card may change unseen), `OutOK`,
with `OneDrivePerName` (theorem `NamesApart`) and `MountsExist` themselves. `PosInjective`:
no two sectors share an offset, for every geometry. `Tidy` adds which file is open when, and
which stayed locked. `NothingStays` and `Refinement` follow, for a card that may fail at
every call, `f_close()` included. `Refinement` assumes nothing of what the names open:
`OneDisk` says that a request changes the one image its drive has opened, and `OneStore`
that it changes one sector of it.

**UsbStdioProofs.** `MutexOK`: the mutex, the flag `irq_tud_task_enabled` and the places of
main program and worker determine each other; the main program clears the flag only while
it has the mutex, so the worker cannot be in `tud_task()` when the mass storage session
gives the mutex back. `CardOK`: from the unmount to the mount the main program is at known
places, and the disk is inserted only in the middle of them. `TimerOK`: scheduled alarms,
one about to be scheduled and one about to be forgotten add up to what the flag says.
Proved for every length of the queue: `TudNotReentered`, `OneUser`, `OneTimer`, types.

**SdioTxProofs.** `ChannelsOK` says which channel is armed, and whether its interrupt is
enabled, in each state of the transfer: every interrupt finds something to do, and a request
of one block leaves nothing armed whenever it is given up. `WireOK` says that the block on
the wire is the next one the card misses; `AnswerOK` where the card's answer is and what it
says of the blocks stored, also between the steps of the stop after a timeout; `CountOK` that
the checksums are one block ahead, unless the handler was too early, and `OvertakenOK` what
happens then: the second block goes with the checksum of the first, is refused, and nothing
follows. The properties are about the end of a request, these are about every step on the
way, with the handler between any two. `AllBlocksWritten`, `ChecksumFits`, `QuietWhenDone`,
types.

**SdCardProofs.** `StartOK`: how far the start has brought the card, whatever state it was
in (`Further`: an answered command brings it one step on). `InPlace` and `WriteOK`: the
card stands at the sector of the next block, in a request and between two that belong
together. `ProgressOK`: what was transferred lies on the card, so a request that crosses its
end never succeeds. `ReadOK`: without a checksum error the buffer is what the card holds. From them
`WritesStayInPlace`, `ReadyCards` and the refinement of `BlockDevice`, where `StoreFacts`
shows that a block that is stored is one the request covers, and its own.

**FatFsProofs.** `Inv == Types /\ Calls /\ Chains /\ Tidy`, about the volume as FatFS sees it
(`Volume`: the card with the changed window over it). On the card alone nothing is
inductive, because a step that writes a sector writes what an earlier one left in the window; so
`Chains` keeps both in order. A file that is being made or cut is not what its directory entry
says: `Firsts` takes the first cluster from the file object while a file is open, and from
`x` for the clusters that are in no file yet (marked as the end of a chain, not linked: `Loose`)
or no more (the rest of a truncated chain). `Linked` says that from all of these there are
chains and that they do not meet; `PlaceOK` where `f_lseek()`, `create_chain()` and
`remove_chain()` are in them, which is why a cluster found free is free when it is taken,
and a link is stored only where a chain ends. `Tidy` adds that every allocated cluster is
on one of them while nothing has failed. The steps on chains (a chain that is
lengthened, one whose first cluster is freed, one that is renamed) are lemmas about any two
volumes. Where an induction is wanted (two chains from one cluster are equal) the least place
where they differ is taken instead: numbers are well founded. Proved, for every number of files, clusters, records in a
sector and faults: `TypeCorrect`, `VolumeStaysSound`, `NothingIsLost`.

*What the files hold* has a second invariant, `FilesOK == Stored /\ Doing`, on top of `Inv`.
`FilesKept` speaks of the directory on the card; an access to the card may replace it at any
step by the one in the window, so `Stored` has the records of both allowed by the history
(`KeptOn`, for `card` and for `Volume`), and that the window never makes an image shorter
(`Grows`). The card is read by its own directory long after FatFS has freed or linked
something in the window: `Agree` says that a cluster a file has on the card is still
allocated, and that no one else, the open file, a loose cluster or another file, has it or has
it at another place; only while `remove_chain()` frees the clusters of an entry that is still in the
window may they be loose. That is why data written to a new cluster cannot show up in an old
file. `Doing` follows the operation under way: the sector buffer counts as data (`View`) for
the open file, whose size in the file object is ahead of the directory's (`OpenKept`); a configuration
written anew shares no cluster with the one on the card until its entry is updated (`Fresh`);
the history was widened by what is going to be written, and by anything in the records a
write beyond the end leaves out (`Widened`); the pointer is where the request says unless the
card is full, which `create_chain()` knows only because its search has examined every cluster
(`Pointer`, `Examined`, `Aimed`); a write reported as done has its record in the buffer or on the
card (`Written`), and a read returns a record of the history (`Reading`). Proved from both, for
every volume, any failures and cuts: `FilesStay`.

**MemoryProofs, second part** (about `SimIo`, the other ports of the same file). `IoUnlocked`:
the control port is unlocked only when the byte before was the key. From it `KeyNeeded`,
`ResetIsClean` and the types, for any size of the pool of alarms and any set of bytes.

### What is only model-checked

Liveness (`ExitReturns`, `RequestShown`, `SettingsReachPanel`, `FramesKeepComing`,
`TransferEnds`, `EventsServed`, `RequestsEnd`, `Ticks`, `AlarmsEnd`): proofs under fairness
and about ENABLED are out of the prover's reach. The violated properties, of course.

## 5. What is not modelled

* External code: the Z80 and 8080 simulation, the floppy controller's command
  interpreter and the clock of z80pack, TinyUSB, the Pico SDK. The modules model what
  the code here calls and what it may answer.
* Time. A sleep is a step; a period of the timer is "some time". What only time
  separates (the next frame being drawn while the last one is sent, lcd.c:147) cannot
  be stated.
* In `Disks` any call of FatFS may fail, and a power cut may tear the card sector that was
  being written, with the records that share it; the directory entry is updated
  atomically, which `FatFs` has in detail.
* In `FatFs`: deleting and renaming files, subdirectories, long names, exFAT, FAT12, and
  the second FAT, which is only written. The volume has no FSINFO sector: `f_mount()` would
  take the last cluster and the number of free ones from it. The image files come with the card; the configuration file may have
  to be created, in a directory sector that has room for it.
* The state machine of the reception over SDIO (`rp2040_sdio_rx_*`); `SdCard` has its
  outcomes, but not what a channel that is still armed would do to it.
* In `SdioTx`: the spurious interrupt of an aborted DMA channel (erratum E13 of the RP2040),
  and blocks of equal contents, whose checksums are equal: the card takes such a block also
  when it went with the checksum of the one before.
* Pixels, fonts, texts, and the terminal dialogue around the commands.
* One-byte port handlers (serial lines, printer, LED, switches), which keep no state
  that another activity changes.

### How much of the repository that is

The modules map the greater part of the machine's own stateful code, but a small part of
the repository's lines, and the rest is not code a model could say something of:
`ffunicode.c` alone, 15593 lines of code page tables, is 28 % of them; the fonts and bitmaps
are tables as well; the SPI driver of the card (`sd_card_spi.c`), the examples, FsLib and
the iostream wrappers of the library are not used by the machine; most of `ff.c` is exFAT,
long names, formatting and functions that nobody here calls.

## 6. Plan

The order was: the protocols between the cores first (LcdTask, LcdDev, Memory), then
what the user's data depends on (Disks, UsbStdio), the ports (SimIo), then the storage
below the disks (FatFs, SdCard, SdioTx) and the proofs about it. What is left:

1. **DriveStatus**: `lcd_drives[]` between core 0 (lcd.c:829-849) and the panel on core 1
   (lcd.c:899): a fresh access must not stay hidden.
2. **Config**: the settings, the order of their fields in the file, truncated and empty
   files, console bits of an empty line (simcfg.c:373).
3. **SdioRx**: the reception of blocks, with its two buffers of the DMA channels and the
   channel that stays armed when a command fails (sd_card_sdio.c:395).
4. **Boot**, **CpmBios**, **Bios3**, **Xios**: the guest systems, on top of Memory, Disks
   and SimIo.
5. A composition of LcdTask, SimIo and Memory: a reset over the control port while core 1
   draws from a bank; one of FatFs and SdCard over BlockDevice.
