# Verification of the HLK-7621A web recovery server

The repository is a U-Boot 2026.07 fork and an OpenWrt 24.10.8 tree for the
HLK-7621A board. Nearly all of it is third-party code. What the repository adds
is a recovery console: `src/u-boot-2026.07/cmd/lwip/webflash.c`, an HTTP server
that runs inside the boot loader, takes firmware images over the network and
writes them to the SPI NOR flash. A mistake there bricks the board, a board
with a half-written flash is its normal working condition, and it can hardly be
tested: power losses, failing SPI operations and TCP callbacks in unlucky
orders do not happen on a desk. This project models that server, and the
parts of U-Boot that it and the board's start-up depend on: the memory map, the
environment, the boot menu and the network session.

Paths below are relative to `src/u-boot-2026.07`.

## Inventory

| Component | Code | State | Operations |
|---|---|---|---|
| Flash layout | `cmd/lwip/webflash.c` 93-213, `webflash_init_flash` | the partition table | checks at start-up |
| Flash job | `webflash_start_flash_job`, `webflash_job_step`, `webflash_job_chunk` | `ctx->job`, `factory_buf`, the flash | one erase, write or read-back chunk per turn of the main loop |
| Recovery server | `webflash_handle_headers` and its handlers, `webflash_store_upload`, `webflash_store_body`, `do_webflash` | upload target, sizes, verdict, CRC, image kind; RAM boot and reboot timers; receive state | 17 URLs, bodies, main loop |
| Request assembly | `webflash_recv`, `webflash_consume`, `webflash_get_content_length`, `webflash_store_*` | `header`, `body`, `content_length`, `rx_state` | bytes of a segment |
| TCP connections | `webflash_accept/recv/sent/poll/tcp_error`, `webflash_reply`, `webflash_start_download`, `webflash_stream_fill`, `webflash_try_close_client` | `client`, `reply_pending`, `stream_*`, `output_pending`, `close_pending`, `last_activity`; lwIP's pcbs | lwIP callbacks |
| Upload validation | `webflash_validate_upload`, `_firmware`, `_fwtool`, `webflash_range_valid` | the upload buffer | verdict and image kind of a buffer |
| Overlay search | `webflash_find_overlay`, `webflash_factory_reset` | a window of the flash | scans the firmware partition for the squashfs superblock |
| Memory map | `lib/lmb.c` | `lmb.used_mem` | reserve, allocate, free, free size |
| Environment storage | `env/sf.c`, `env_check_redund` and `env_import` of `env/common.c` | RAM copy, one or two flash copies, `gd->env_valid` | save, load, erase |
| Boot decision | `common/main.c`, `common/button_cmd.c`, `cmd/bootmenu.c`, `common/menu.c`, `common/cli_getch.c`, `common/autoboot.c`, `include/configs/mt7621.h` | environment, button, keys, countdown | start the menu, the server or the system |
| Network session | `net/lwip/net-lwip.c`, `do_webflash`, the other commands of `cmd/lwip` and `net/lwip` | start count, device, interface, connections that outlive a command | start, stop, new interface, remove interface |
| Web page | `cmd/lwip/webflash/vendors/hlk-7621a/index.html` | `firmwareReady`, `rawReady`, `EB`, what is enabled | the requests above |

How they interact: the main loop of `do_webflash` alternates between
`net_lwip_rx` (in which lwIP calls the callbacks, and these the request
handlers), one step of the job, and the two timers. There is one thread, so a
callback is atomic; the interleaving that matters is the one of callbacks, job
steps, timers and failures. The components share `struct webflash_ctx`. The job
reads the buffer that uploads fill; requests ask `webflash_operation_blocked`
once, when their header is complete. Uploads reserve their memory in the map of
`lib/lmb.c`, which loads, boots and other commands use as well; a session of the
server is one network command among others; and the server is itself started
by the boot decision, from an environment it can save.

What is hard: connections that lwIP keeps after `tcp_close` and whose callbacks
do not say which connection they are for; replies that are sent piecemeal as
acknowledgements come in; replies, closes and writes that fail half way; SPI
operations that fail or lie; a reset, a power loss or a Ctrl-C between any two
chunks; sector, buffer and image sizes that do not divide one another; a
sequence of requests no page sends but the server accepts. `PROJECT.json` lists
these hazards at their lines.

What makes each component correct:

* *Flash job*: it programs erased flash only, changes nothing outside its
  range, reports success only if the flash holds the image, preserves the
  calibration data around the EEPROM, hands only whole sectors to the driver,
  and ends.
* *Recovery server*: what is flashed or booted is what was validated; a transfer
  and a job exclude each other, and both exclude a pending reboot or RAM boot;
  protected partitions are written only after their own phrase; a job leads to a
  reboot or a visible error.
* *TCP connections*: the client pointer never dangles, the reply counter is
  exact, a client never receives an earlier client's data, and the only client
  slot becomes free again.
* *Request assembly*: answer and body depend on the bytes the client sent and on
  the state of the device, not on how TCP cut them, nor on other connections; no
  body outgrows its buffer.
* *Upload validation*: the class of an image is the right one, the verdict is
  about the upload and not about leftovers, and an upload stays out of U-Boot.
* *Overlay search*: its answer is that of a search of the whole partition, and
  what is erased from there are the settings, all of them and nothing else.
* *Memory map*: the list does to the memory what its results say.
* *Environment*: a boot finds what was last saved, or what was being saved.
* *Boot decision*: an untouched board runs what the environment says, and does
  not wait for ever; a key does what it is for, though its characters are read by
  two loops.
* *Network session*: counts balance, a polled device runs, and lwIP keeps no
  callback into a context that has gone.
* *Web page*: a button writes the partition it names and the file it has shown.

## Modules

| Module | What it is |
|---|---|
| `FlashLayout` | Partition table, layout assumptions, the flash, NOR semantics, rounding. |
| `FlashJob` | The job, with the rest of the server as its environment (`JobSpec`). This is the abstract specification of how the server uses the flash. |
| `WebFlash` | The server: extends `FlashJob`, reuses its operations inside the request handlers, and is checked and proved to implement `JobSpec`. |
| `WebConn` | The connections: callbacks, streamed replies, closing. Requests are abstracted to "needs more data" or "is answered with b units". |
| `HttpRx` | A request put together from segments and pbuf chains, by connections that share one context. |
| `RootFs`, `OverlaySearch` | The tests on one superblock; the windowed search for it. |
| `Settings` | `FlashJob` and `OverlaySearch` composed: what becomes of the settings of the installed system. |
| `UploadCheck` | The verdict on an upload, over a buffer that keeps what earlier uploads left. |
| `LmbMap`, `Lmb` | What the memory map promises; the list of regions that implements it. |
| `UploadRange` | `webflash_range_valid` on top of `Lmb`. |
| `EnvAtomic`, `EnvSf` | What storing the environment promises; `env/sf.c`, which implements it. |
| `BootFlow` | From power-on to the system, the server or the command line. |
| `NetSession` | Network commands one after another and one within another. |
| `WebPage` | The page in one or more browsers, and the server behind it. |
| `FlashJob_proofs`, `WebFlash_proofs`, `WebConn_proofs`, `Settings_proofs` (with the search), `Boot_proofs` (with the environment), `NetSession_proofs`, `Web_proofs` (page and request), `Upload_proofs` (verdict and memory map) | TLAPS proofs. |
| `MC...` | Small instances for TLC, with the counters that bound them. |

### FlashJob

`job` is `struct webflash_job`; its fields keep their names, with `buf` standing
for the pair `source_addr`/`source_buffer`. `flash` is the chip, in units that
are a fraction of a sector; a unit holds old data, new data, `Erased` (all
ones) or `Junk` (programmed without having been erased, or a bad cell).
`before` is a history variable: the flash when the job was started, with what
`env_save` has written since. It stays when the job fails, so that `Confined` can
look at what a failed SPI operation has done. A checksum
is represented by the content it is computed from: the model has no CRC
collisions.

`EraseStep`, `WriteStep`, `VerifyStep` are the three cases of
`webflash_job_step` with an SPI call that succeeds; the `...Fail` actions those
with a call that fails after any part of its work. A write that succeeds may
still leave one bad unit. `Restart` is a reset, a loss of power or a Ctrl-C in
any state. The environment actions (`StartAny...`, `DropJob`, `Load`,
`EnvWrite`, `ScheduleReboot`) say what the rest of the server may do, and when.

### WebFlash

One action per handler of `webflash_handle_headers`, per outcome of a body, per
connection event and per timer of the main loop. Each handler is one action
with its refusals (`JustReply`) and its effect. A reply may be lost before or
after it is recorded (`Reply`). Whether a reply reaches the client, and which
connection an event belongs to, is the subject of `WebConn`; here, a connection
may be accepted, closed or lost at any time. The verdict of
`webflash_validate_upload` and the class `webflash_validate_firmware` gives an
image are the constant operators `Accepts` and `KindOf`: every property is
about what the server does with a verdict; `UploadCheck` is about the verdict. `confirmed` and `failed` are history
variables.

A failed `bootm` is taken to leave the upload buffer alone, which holds for the
configured load address (0x83000000, 48 MiB above the kernel's).

### WebConn

`pcb[p]` is lwIP's state of connection `p`. `webflash_try_close_client` leaves
the callbacks attached to the connection it closes, so `closing` and `last_ack`
connections are still polled, still told of the peer's end of stream, and still
report errors; `webflash_abort_client` detaches first. lwIP is external: its
part is modelled from how `webflash.c` uses it and from
`lib/lwip/lwip/src/core/tcp_in.c` and `tcp.c` (which callbacks run in which
state). `webflash_try_close_client` is prepared for a `tcp_close` that returns
ERR_MEM, and so is the model, although the lwIP of this tree rather puts the FIN
off and returns ERR_OK (`tcp.c:448-456`); the abort after any other error, which
`tcp_close` does not return for these connections, is left out. `event` is a history variable: the connection of the last callback.
Dereferencing a NULL client is recorded in `fault`, and ends the behaviour.

### HttpRx

The stream is a sequence of units: request lines, Content-Length lines and the
bytes that make up the end of a header. `Recv` delivers the next n units as a
chain of two pbufs cut anywhere, and the whole of `webflash_recv` is one action:
`CollectHeader` unit by unit up to the empty line, then `HandleHeaders`, then
`Store`, within the same delivery. What the rest of the server is asked (is it
busy, is there room, do `env_set` and `env_save` work) is `device`, chosen when the
connection is accepted; what is in a body is the parameter `Valid`. The answers are
those of the code: 409 for a busy device and for a range that is not valid, 411,
413, also for a protected partition whose size is not met exactly, 431, and when the
body is there 200, 400, 422 or 500. The reference, `Expected`, is stated on the
bytes and on `device` alone. `simple_strtoul` wraps at `UlongLimit`.

There are several connections and one context. `webflash_recv` does not compare
its pcb with `ctx->client`, `webflash_tcp_error` clears `ctx->client` whichever
connection has failed, and a closed connection keeps its callbacks. So after the
late error of a closed connection an open one is left that is not the client
(`orphaned`), and when the next client has come the context takes the bytes of both
(`foreign`, both history). The properties about a client's request have `~foreign`
as a condition, `ForeignNeedsOrphan` says that there is no other way to get there,
and `BodyInBuffer` has no condition.

### RootFs, OverlaySearch, Settings

A superblock is a unit of flash with a version and a `bytes_used` field.
`Accepted` has the tests of the loop's body in their order, with a 64-bit sum
that wraps at `U64`; `ScanWindow` is a turn of the outer loop. The reference is
`IsFirst`, which looks at the whole partition.

`Settings` extends `FlashJob` and `OverlaySearch` and adds the requests that lead
to them. `webflash_factory_reset` is one call; in the model it is `BeginReset`,
a `Search` per window, and `EndReset`, during which only a restart may come in
between. A unit of settings is told apart from every unit of an image.

### UploadCheck, UploadRange

A buffer is a sequence of units; a header, a trailer or a metadata record is a
unit with its fields, and a checksum is the content it was computed over.
`FwtoolVerdict` goes back over the records as the loop in
`webflash_validate_fwtool` does, and is compared with `ForThisDevice`, which
says what a chain of records is. The JSON text either names this device or does
not. A new upload overwrites the buffer from its start and leaves the rest;
`BreakOff` leaves any part of it.

`UploadRange` models `webflash_range_valid` with addresses that wrap at `W`: the
check of the bank, and `lmb_read_check`, which reserves the range and thereby
leaves it reserved.

### LmbMap, Lmb

`used` is `lmb.used_mem`, a sequence of regions. The operators follow the
functions of `lib/lmb.c` one by one: the loop of `lmb_add_region_flags`, which
stops at the first region that is adjacent or overlaps, `ResizeRegions`,
`MergeNext` after the loop, the insertion from behind, the top-down search of
`_lmb_alloc_base`, and `_lmb_free` with its split. `last` is the last call and
what it returned. Under the mapping `owner[a] = Owner(a)` the list implements
`LmbMap`, in which a call that reports success has done what was asked and one
that reports failure has changed nothing.

### EnvAtomic, EnvSf

`env/sf.c` has two versions of its functions, for one copy of the environment
and for two; `redundant` says which one was built (this board has one copy). A
save goes through the steps erase, write, tail (the rest of the sector is
written back) and flag (the other copy is retired). `StepFails` ends it after any
part of an SPI operation, `Boot` interrupts it anywhere, with any set of copies
unreadable. `EnvAtomic` is the promise: `stored`, the environment a boot would
find, is the last one saved with success or one that was being saved since, and
only without a second copy the default one. The refinement mapping takes
`stored` to be what `env_sf_load` computes from the flash.

### BootFlow

`phase` is where `main_loop` is. Commands boot, return or run on; keys arrive at
any time. A key is a sequence of characters (`typed`), which `ReadChar` takes one by
one through `cli_ch_process` with its unfinished escape sequence `esc`: a character
during the countdown stops it, and what it means there (`bootmenu_autoboot_loop`
knows Enter, Ctrl-C and shortcuts) differs from what it means after
(`bootmenu_loop`). `EscTimeout` is a sequence whose rest does not come: the code
takes the first character for the Escape key. `env.menu_show` is
`CONFIG_AUTOBOOT_MENU_SHOW`; it is part of the environment so that one run covers
both builds.

### NetSession

`frames` is the stack of running commands, which `dhcp` makes two deep when it
goes on with `tftpboot`. `EthStart`, `EthStop`, `NewNetif`, `RemoveNetif` are the
functions of `net-lwip.c`; each command is a path through them, with the early
returns that leave an interface behind (`LeavesNetif`). `eth_init` may report
success for a device that did not start. Connections are `open`, `closing` (with
the callbacks still on), in `time_wait`, or `free`; lwIP's clock runs only while
a command polls.

### WebPage

A button starts a chain of requests. The page does not keep the user from pressing
other buttons, and mostly not from pressing the same one, before a chain has ended;
so a page has a set of them (`page[p].chains`). Their requests reach the server in
any order and between those of other pages; the answer to each may come late, after
other clicks and answers, or not at all (`Failed`), before or after the server has
dealt with the request. The server behind is that of `WebFlash` with an upload and a
job as single steps. `shown`, `named`, `own` and `hasty` are history: the file whose
checks the page has shown, the target the button names, whether the upload in the
buffer was the page's own, and whether the page has started an upload while another
chain that writes or boots was under way.

## Runs

| Run | Instance | Shows |
|---|---|---|
| `job` | 16 units, sectors of 2, I/O buffer of 5, one job, on an intact flash and on what a broken-off job left | All six job properties, with chunks, sectors, EEPROM, images and partitions of different sizes. The buffer is not a multiple of a sector, so `webflash_job_chunk` has to round. |
| `server` | 6 units, every target including RAM boots, uploads in pieces of 1 or 2 units, one job | The server's invariants; `JobSpec`: every step of the server is a step of the job's specification or leaves its variables alone; and jobs end. |
| `ram_phrase` | the same | A violation, see below. |
| `connections` | three connections, replies of 1 to 4 units through a send buffer of 2, two pieces of data | Three connections are needed for a stale one, a lost one and a current one at the same time; a reply twice the send buffer is filled, refilled and finished. |
| `settings` | 10 units of firmware, windows of 5, superblocks of 2, sectors of 2; five installed systems, three images | The search, across windows and past superblocks of other versions and sizes; a factory reset; flashing with and without `keep_config` an image that is smaller, of the same size or larger. |
| `env` | three environments, one or two copies | `EnvSf` implements `EnvAtomic`. |
| `boot` | 120 environments: four delays, menus of 0 to 2 entries, four defaults, with and without a menu; keys of one, three and four characters | The choice of an untouched board, that a cursor key moves the highlight and does nothing else, and that countdowns end. |
| `memory` | 6 addresses of RAM of 14; LMB_NONE reservations of 1 to 3 units anywhere, next to U-Boot's region | `Lmb` implements `LmbMap` through merges and splits; uploads at every edge. |
| `upload_check` | 12 units, about 30 images, two uploads | The class of an image with zero to four records, whole, cut, extended or damaged, over the leftovers of another. |
| `session` | five commands, three connections | The start count, the interface and the callbacks over unbounded sequences of commands. |
| `request` | 84 streams, three connections, header buffer of 9 units, all states of the device | Every cut into segments and pbufs, headers and bodies that just fit and just do not. Three connections are one that is closed and fails late, one that loses the context to that, and the next client; the open connections then send one of two streams (`FewOrphans`). |
| `page` | two pages, two files of firmware for this device, a RAM image, two backups, four clicks, pages symmetric (about 4 million states) | A button writes its target, and the file it has shown, under the conditions their formulas state. |

The bounds. Partitions of one or two sectors suffice because a job treats all
chunks but the last alike; the proofs cover all sizes. One job per behaviour,
since a job starts by clearing the last one's state; what it leaves in flash is
an initial state of `job`. Two uploads suffice in `upload_check`, as all an earlier
one leaves is the buffer. `session`, `env`, `memory` and `boot` have no bound on the
length of a behaviour. In `page` four clicks are enough for an upload and its
confirmation on each of two pages, or for two overlapping uploads, a change of
target and a confirmation on one. Firmware for other devices and foreign firmware, which
have phrases of their own, are covered by the theorems only.

`KeepsMap` holds in `memory` because its callers reserve with LMB_NONE only;
requests with both flags that overlap are among the disagreements below. In
`upload_check` RAM boots are left out, and in `settings` the sum of `:1305` does not
wrap. These restrictions are there because the claims fail without them, in the
ways listed below. The conditions of `page` and `request` are in the formulas: the
runs reach the states they exclude. With one copy of the environment, `EnvAtomic`
lets a save that is broken off leave the default environment; the run `env` shows
that nothing worse happens on this board, not that nothing is lost.

Deadlock is checked except in `connections` (every client may be done and lwIP
idle, and a fault ends a behaviour), `request` and `upload_check` (which end with the last connection or upload).

### Disagreements between the code and what the repository says

`ram_phrase` is a run of its own: an image uploaded for a RAM boot can be
flashed; the RAM target's offset is 0, so U-Boot, environment and factory are
overwritten with the phrase of an ordinary firmware, against
`cmd/lwip/webflash.c:5`. For the other targets the promise holds
(`RestoreNeedsPhrase`, checked and proved), with one exception: a settings reset
whose overlay search was misled by a sum that wraps (`ResetKeepsCalibration`, below).
`FlashJob` and `WebFlash` let a reset start anywhere, and `RestoreNeedsPhrase` has
`OverlayBehindFirmware` as a condition.

The others are kept as definitions next to the properties that hold. TLC refutes
each when it takes the place of the INVARIANT or PROPERTY lines of the given
configuration, with the given change:

| Definition | Configuration, change | What happens |
|---|---|---|
| `WebFlash!RebootBlockedAfterFailure` | `MCWebFlash.cfg`, `MaxJobs = 2` | The refusal to reboot after a failed job (`webflash.c:1658`) is undone by beginning any upload (`:839`). |
| `WebFlash!FirmwareIsForThisDevice` | `MCWebFlash.cfg` | `mydoc/webflash.md:136` says only images for this device are accepted; the code accepts all and asks for another phrase. |
| `WebConn!ClosesAcknowledged` | `MCWebConn.cfg` | `mydoc/webflash.md:112` says a connection is closed once its reply is acknowledged; not if the peer closes its side first (`webflash.c:1705`). |
| `WebConn!SingleConnection` | `MCWebConn.cfg` | A late callback of a closed connection takes away the current client (`:1763`; `README.webflash.md:141`). |
| `WebConn!NoFault` | `MCWebConn.cfg` | A broken-off reply leaves `stream_active` set; the next poll of an older connection writes to a NULL client (`:1775`). |
| `Settings!ResetKeepsCalibration` | `MCSettings.cfg`, `U64 = 16` | A `bytes_used` near 2^64 makes the sum of `webflash.c:1305` wrap; the overlay that is found lies below the firmware partition, and the settings reset erases the factory partition, which `README.webflash.md:29` says it never does. |
| `HttpRx!OneConnectionsBytes` | `MCHttpRx.cfg` | After the late error of a closed connection (`webflash.c:1763`) an open one that is not the client feeds the next client's request (`:1697`); `README.webflash.md:141` says that the server uses a single connection. |
| `Settings!KeepsSettings` without its condition on sizes | `MCSettings.cfg` | An image that is larger than the installed one overwrites the start of the settings; `index.html:47` says that rootfs_data is not erased. |
| `BootFlow!FirstEntryAfterDelay` | `MCBootFlow.cfg` | The countdown ends in the entry that `bootmenu_default` names; `doc/usage/cmd/bootmenu.rst:34-36` says the first one. |
| `BootFlow!AnyKeyStops` | `MCBootFlow.cfg` | A digit runs its entry; `mydoc/bootmenu.md:166` says any key stops at the default entry. |
| `BootFlow!CountdownExits` | `MCBootFlow.cfg` | The countdown runs the first entry; `mydoc/bootmenu.md:163` says it exits. |
| `BootFlow!MinusTwoBoots` | `MCBootFlow.cfg` | With a bootdelay of -2 the menu waits for a key; `boot/Kconfig:1572` says it boots. |
| `BootFlow!BootcmdRuns` | `MCBootFlow.cfg` | With the menu, `bootcmd` is never run: `menu_show` always returns -1 (`cmd/bootmenu.c:673`); `common/main.c:119` says that it is. |
| `Lmb!ReservedOnSuccess` | `MCUploadRange.cfg`, reservations with both flags | An overlapping LMB_NONE reservation can leave two neighbours unmerged; a LMB_NOOVERWRITE request right below them has them merged, takes that for its own merge, and returns 0 without having been added (`lib/lmb.c:221`; `:177`). |
| `Lmb!ReservedOnSuccess` | `MCUploadRange.cfg`, `MallocFails = TRUE` | `_lmb_alloc_base` reports success when the list could not grow (`lib/lmb.c:713`; `include/lmb.h:124`). |
| `Lmb!OutsideRefused` | `MCUploadRange.cfg`, reservations from `MemBase - 1` | A region that begins below the memory is accepted (`lib/lmb.c:750`; `include/lmb.h:126`). |
| `Lmb!FailsOnlyWhenFull` | `MCUploadRange.cfg`, allocations with alignment 0 | Every one fails, as `ALIGN_DOWN(x, 0)` is 0 (`lib/lmb.c:695`; `include/lmb.h:114`). |
| `UploadCheck!VerdictFromUpload` | `MCUploadCheck.cfg`, `Uploads <- RamUploads` | A truncated RAM image is "verified" (`webflash.c:762`) if an earlier upload has left the missing part in the buffer (`:756`). |
| `NetSession!StartsAgain` | `MCNetSession.cfg` | After Ctrl-C, a connection in TIME_WAIT keeps port 80 in use, and the server does not start (`webflash.c:1850`; `mydoc/bootmenu.md:220`). |
| `HttpRx!StatedLengthFits` | `MCHttpRx.cfg`, `Lengths <- WrapLengths`, `Streams <- WrapStreams` | A Content-Length of 2^32 + n counts as n (`webflash.c:495`; `README.webflash.md:116`). |
| `WebPage!ShownIsWritten` | `MCWebPage.cfg` | Another page's upload of the same kind takes the place of the file whose checks were shown, and is what the button writes (`webflash.c:1054`). |
| `WebPage!OwnIsWritten` | `MCWebPage.cfg` | The same with two uploads of one page: the answer to the first comes when the second has reached the server, and enables the button (`index.html:301-306`). |
| `WebPage!RamNotFlashed` | `MCWebPage.cfg` | The firmware button, enabled by an earlier upload, writes a file that was uploaded for a RAM boot; `index.html:313` says it is not written. |
| `WebPage!EepromOnlyMac` | `MCWebPage.cfg` | When the EEPROM cannot be read again, the Save button stays enabled and writes back calibration data from before a restore (`index.html:273`); `:281` says only the MAC address changes. |

### Fairness

* The job: the main loop calls `webflash_job_step` on every turn, so its steps
  are weakly fair. Fair is a step whose SPI operation succeeds
  (`StepSucceeds`); failing steps end the job anyway. The reboot and RAM boot
  timers are looked at on every turn, too.
* The connections: lwIP polls every connection it knows once per two seconds,
  and the clock goes on (`PollOverdue`, `TimePasses`). Peers owe nothing.

Clients, peers and the power supply are never assumed to do anything. That the
number of pieces of data peers send is bounded stands for a client that falls
silent; a client that goes on sending may keep its slot. Further:

* `BootFlow`: `main_loop` waits for nothing but the clock, and the clock goes on
  (`MenuTick`, `AutobootTick`). Nothing is assumed about keys, nor about commands
  coming to an end.

## Proofs

`FlashJob_proofs` proves `JobSpec => []JobInv` for all layouts, sizes and
contents satisfying the assumptions of `FlashLayout` (the conditions
`webflash_init_flash` checks, and what the partition table of this board says:
the EEPROM lies inside the factory partition and no partition is larger than
the firmware's, whose size is the capacity of the upload buffer), and from it `JobTypeOK`, `ProgramsErasedOnly`, `DoneMeansWritten`,
`Confined` and `EepromMerge`. None of these is inductive:

* `JobShape` ties the job to its target: the range is inside the flash, the
  written part is inside the erased one and inside the buffer, and the source
  checksum is the one of the buffer the job programs from. Nothing else would
  keep a write inside the range.
* `PhaseProgress` says what the phases so far have achieved: the units below
  the position are blank while erasing, those above it while writing, and the
  running checksum is the one of the flash read so far while verifying. So a
  matching checksum at the end means that flash and buffer are equal.
* `MergeInv` keeps what an EEPROM job writes equal to the factory partition at
  its start, except for the EEPROM.

The lemmas are about the arithmetic (`EraseSize` covers the image and stays in
the partition; chunks are positive and not too long) and about what the NOR
operations change; the main proof has one step per action.

`WebFlash_proofs` proves the server's safety for every layout, every set of
images and every verdict of the validation (`VerdictAssumption` only says that
`Accepts` is Boolean and `KindOf` one of the three kinds).

* `ServerInvariant`: `Spec => []ServerInv`. `ServerInv` adds two things to the
  properties it implies (`TypeOK`, `ValidatedImageInBuffer`,
  `ActivitiesExclusive`, `BootsValidatedImage`). `UploadUnderWay` says that a
  body being received belongs to a target, has a size that was accepted, and
  that the verdict of the last upload was taken back: without it, a byte stored
  in the buffer could spoil an image that counts as valid. And the buffer holds
  uploaded data only.
* `ImplementsJob`: `Spec => JobSpec`, under the identity mapping. Each request
  handler is an environment step of the job or leaves its variables alone; that
  the environment's guards hold (no job, no reboot, no boot under way) follows
  from `ActivitiesExclusive`. Invariant and refinement are proved together,
  `JobInv /\ WebInv`, as each needs the other. The theorems about the job
  thereby hold for the server.
* `DoneImageAccepted`: a job that programs from the upload buffer carries a
  checksum that was accepted (`ImageAccepted`); `DoneMeansWritten` does the rest.
* `RestoreNeedsPhrase`, for jobs that have a place in flash (for the RAM target
  the `ram_phrase` run refutes it) and, if the job is a settings reset, with an
  overlay behind the start of the firmware partition (`ResetKeepsCalibration` shows
  that the code does not see to it): the phrase fits the job's target (`PhraseInv`), the job
  stays inside its target's partition, and partitions are disjoint.
* `ActivitiesExclusive` says nothing about a reboot and a RAM boot that are pending
  together: `webflash.c:1654-1664` lets a reboot be asked for while a RAM boot is due.

`WebConn_proofs` proves `ConnSpec => []ConnInv` for any number of connections
and any sizes, with `ClientAlive`, `ReplyAccounted` and `NoInheritedStream` as
consequences. `ReplyAccounted` is not inductive: it speaks of an answered
client only, and when the answer is queued the counter starts from the reply's
length, so the queue must have been empty and no stream active
(`NoInheritedStream`); for that, a connection must start with an empty queue
(`FreshQueue`), and the client must be a live one (`ClientAlive`).

`FlashJob_proofs` also proves `EraseAligned`, with `SectorsInv`: both the start of
the range and the position in it stay on sector boundaries while erasing, because
`webflash_job_chunk` rounds what it takes down to whole sectors and a partition's
offset is one.

`Settings_proofs` has two parts. The search alone: `SearchSpec => []SearchInv` for
every layout, every size of window and superblock and every content of the flash.
`FindsFirst` is not inductive: that nothing was overlooked when the search ends
needs `ScannedInv`, that no position below the next window holds an accepted
superblock. It is kept because the last position a window covers is the one right
before the next window's start: the stride is the length of a window less one
superblock plus one. `OverlayInFirmware` is proved under `NoWrap`: no size field
makes the 64-bit sum wrap. And the composition: `SettingsSpec => []SettingsInv`
under `SizesDoNotWrap`, the same condition on the superblocks there are.
`SettingsInv` adds to the invariants of job and search

* `UploadInv`, that a completed upload is one of the images, unit for unit;
* `JobOrigin`, what a running job was started for: without it nothing ties the
  range of a reset to the overlay of the flash the job has found at its start;
* `RangeClean`, that the range erased gets no settings back while the image is
  written;
* `CleanPadding(flash)`, that there are no settings between a root file system
  and its overlay. `ImageAssumption` says so of the initial contents and of what
  flashing makes of an image, which is how OpenWrt builds its images and where it
  puts its overlay; the invariant carries it through erasing and programming.

From it follow `ResetKeepsSystem`, `KeepsSettings`, `FreshSettings`, and that the
composition implements `JobSpec`, so all theorems about the job hold in it.

`Boot_proofs`: `EnvSpec => []EnvInv` and the refinement `StoresAtomically` for every
set of environments. What a boot finds changes when a copy is written *or* when
the flag of the other is, and a power cut or a failure may come at each point; so the
refinement needs `SpareInv` (the copy a save does not write to is the one saved
or loaded last) and `ProgressInv` (what the save under way has done so far). A
copy that cannot be read, or an `env erase`, makes the stored state `suspect`, and
nothing is promised until a save has succeeded or a boot has read both copies;
the invariant carries that condition. For
the boot decision `BootInv` adds `UntouchedMenu` to `UnattendedChoice`: a menu that
no key was pressed in is still at its default entry and counts down only if the
environment says so. `CursorKeyMoves`, an action property, needs `KeyInv`: what has
been read of the key (`esc`), what is still to be read (`typed`) and the key itself
(`last`) fit, and the highlight has not moved since the key was pressed. An Escape
that was pressed before may be pending when a cursor key begins; the lemmas on
`CliChProcess` go through every character of every key in either case.

`NetSession_proofs`: `SessionInv` for every set of commands and connections.
`NestingInv` (only dhcp calls another command, and that one calls none) is what
makes the start count equal to the depth of nesting; `DeviceInv` has a command
that polls find its device running, `ServerInv` has only the server with open
connections.

`Web_proofs` has the page and the request. `PageInv` holds for any set of pages and
files and any number of chains. Its parts: `ChainOK` and `PhraseOK` (what the chains
of each button are about, and that a chain which starts a job sends the phrase of its
target), `ReadyOK` (what an enabled button would send), and `CalmOK`. The last is what
`WritesShown` rests on: if a page has not started an upload while a chain was under
way, then an upload is its button's only chain, its button is not ready, and what the
page is about to write is what it uploaded last for that target. Nothing of this is
said of a `hasty` page, for which TLC refutes it. `ButtonWritesTarget` needs no such
condition: phrases tell targets apart, but for RAM images and firmware for this
device, and that exception is in the formula.
`RxInv` says that the context of a client is a function of how many units of its
stream have arrived (`After`: collecting the header, taking the body, answered
with a body, answered without), as long as it has taken no bytes of another
connection: an independence of the cuts made by TCP and by pbufs that no inspection
of a single callback shows. The loop that copies the body and the one that looks for
the end of the header are proved for every segment; `BodyFromBytes` and
`AnswerFromBytes` then compare with HTTP's rules. For `ForeignNeedsOrphan` it adds
that without an orphan the client is the only open connection. `BodyInBuffer` has an
invariant of its own, `BufferInv`, which knows nothing of whose bytes they are.

`Upload_proofs`: `KindRight` for every image, of any length and with any records.
The loop of `webflash_validate_fwtool` makes at most three rounds, so the verdict is
`Iteration` applied three times, and one lemma (`IterationRight`) serves each round;
the witnesses for the ends of the records are built from the cursors. Both
properties rest on lemmas of the form "a buffer that agrees with the upload on the
upload's length gives the same verdict". `VerdictFromUpload` supposes that there are
no uploads for RAM boots, for which it fails.

Its second part is the memory an upload is received in: `RangeSpec => []RangeInv`,
and from it `UploadInside`, `StaysPossible` and `FreeSizeExact`, for every size of the
memory and of U-Boot, every load address and length, any sequence of other calls
to `lib/lmb.c`, and with or without memory for a longer list. They suppose
`OrdinaryCallers`: addresses and sums of 32 bits, reservations no longer than the
address space without the memory, LMB_NONE throughout, and nobody frees what lies in
U-Boot's region. LMB_NONE is the condition that matters: with both flags the list
can lose a request, as the table above says. The run `memory` meets the hypothesis
(`MCOrdinaryCallers`). The invariant is `LmbList`: the list is sorted, its regions do
not overlap, and the last one is U-Boot's, with its flags and both its ends as
`lmb_init` made them; all others are LMB_NONE. Neighbours that touch, and could be
merged, are allowed, since the code leaves such behind. Each function of `lib/lmb.c` has its
lemma:

* `Added` for `lmb_add_region_flags`: a request that ends at or below U-Boot keeps
  `LmbList`, and fails only if the list is full. Its parts are `MergedInto` and
  `MergedNext` for the two merges of the loop, `Resized` for `lmb_resize_regions`
  (the regions hit are consecutive, so their number locates the last), and
  `Inserted` for the last loop. All end in `MergedList`: a region that replaces a
  run of others and fits between its neighbours leaves a list in order.
* `Reserved` for `_lmb_alloc_addr`: what passes its two tests and
  `lmb_overlap_checks` ends below U-Boot, even if the sum wraps (`BelowUboot`).
* `DescentDefined` and `DescentFinds` for the search of `_lmb_alloc_base`: each place
  tried lies below the one before, so the search ends, and it ends at a place
  where nothing is reserved.
* `Freed` for `_lmb_free` with its split.

`UploadInside` then follows from the tests of `webflash_range_valid` (`InRamBounds`),
`StaysPossible` from the fact that only U-Boot's region can refuse a LMB_NONE
request (`OnlyUbootForbids`), and `FreeSizeExact` from the order of the list.

Where a proof needs induction (the least position that is a match, the first unit
of a header's end) it goes through the least member of a set of naturals, which
the library proves to exist without a predicate as a parameter.

The type invariants `JobTypeOK`, `TypeOK`, `ConnTypeOK`, `SearchTypeOK`, `EnvTypeOK`
and `BootTypeOK` are parts of the inductive invariants and proved with them, and so is
`FreeSizeExact` from `RangeInv`; no run repeats them.

Only model-checked: liveness (`JobEnds`, `JobLeadsToRestart`, `SlotFreed`,
`BootProceeds`), which is out of the prover's reach; and, so far, the refinement
`KeepsMap`: `LmbList` says that the list stays in order, not yet that every call
changes exactly the addresses it reports.

## Not modelled, and the plan

Not modelled:

* of the server, the decoding of forms and percent signs, and the texts and
  layout of its replies: string processing with no state of its own;
* uImage headers whose size is near 2^32 (`webflash.c:661`): the checksum is then
  taken beyond the end of RAM, and what that reads depends on the bus;
* `webflash_job_progress`, a percentage for the page that nothing else reads;
* that `webflash_env_save` changes the environment in RAM one variable at a time,
  and does not take it back when a later one fails: no line of the repository
  promises otherwise;
* of the page, polling the job, the environment form, the reset and reboot
  buttons, and the layout;
* `net_lwip_tx` and `net_lwip_rx`, which copy frames between lwIP and the driver;
* drivers, lwIP's internals (lwIP enters through how the code uses it), and the
  third-party trees: the rest of U-Boot and OpenWrt make up nearly all of the
  lines of the repository, and none of its own logic.

Next, the refinement `KeepsMap`: for each lemma about an operation of `lib/lmb.c`,
which addresses the list it returns reserves, and for `_lmb_alloc_base` that the
place found is the highest.
