# A TLA+ verification of the RTEMS Xilinx XRT drivers

The repository ports Xilinx's XRT runtime to RTEMS on Versal. The part with
logic of its own is small: a Platform Manager (PM) driver that talks to the
Trusted Firmware through SMC calls, a shell command that loads PDI images with
it, and the `zocl` character device that XRT drives with `ioctl`. This
directory holds TLA+ models of that logic and of the start of the `xbutil`
application that uses it, the TLC runs that check them, and proofs that TLAPS
checks.

## 1. Inventory

### 1.1 SMC transport: `rtems/smc/`

* State: `smccc_version` (a static, 1.0 until `rtems_smccc_init` sets it to 1).
* Operations: `arm_smccc_smc` / `arm_smccc_hvc` trap to the firmware and store
  x0..x3 in the caller's result; `smccc_arch_features`,
  `smccc_arch_workaround_1/2` (guarded by the version), `rtems_smccc_init`
  (run by RTEMS's system initialisation).
* The PM driver traps with its own calls; nothing in the repository calls the
  guarded functions of `smccc.c`. The call returns register x0 as its C result
  and also stores x0 in the result structure.
* Correct when: the firmware finds each argument where the caller put it, and a
  caller can tell success from each failure of the firmware.

### 1.2 PM driver: `rtems/pm/pm.c`, `pm.h`

* State: `api_feature_status[PM_API_MAX]` (a cache of the firmware's answers,
  0 = not asked), the mutex `fpga_lock`, and each task's `errno`.
* Operations: `rtems_pm_feature_check`, `rtems_pm_api_version`,
  `rtems_pm_chipid`, `rtems_pm_fpga_load`, `rtems_pm_fpga_get_status`,
  `rtems_pm_acap_load`; eight stubs that return -1.
* Any task may call it: shell sessions, other drivers. Nothing but the PDI
  load takes a lock.
* Correct when: the cache never changes an answer, at most one PDI is handed
  to the firmware at a time, the firmware reads memory that is allocated,
  verified and written back from the data cache.

### 1.3 PDI images: `rtems/pm/pm-image.c`, `xilpdi.h`

* Stateless: the header checksum, the recognition of the SMAP bus width
  pattern, the verification of the image header table (the first thing in a
  partial PDI) and of the boot header (a boot PDI), the report of an image.
* Correct when: a header is accepted exactly if its checksum word covers every
  other word, the two commands do not contradict each other on a file, the
  columns of the report line up.

### 1.4 `pm` shell command: `rtems/pm/pm-shell.c`

* State: per command, an image buffer (heap), a file descriptor, the option
  flags.
* Operations: dispatch by unique prefix over a two-level command table;
  `version`, `chipid`, `features`, `fpga load`, `fpga status`, `acap load`,
  `acap info`; `pm_image_load` reads a file in 32 KiB blocks.
* Correct when: each path gives back its buffer and its descriptor exactly
  once, a prefix never selects the wrong command, exclusive options exclude
  each other.

### 1.5 zocl device: `rtems/zocl/zocl.c`

* State: one `zocl_dev` per registered node: `lock` (initialised, never
  taken), four slots, the aperture table; the IMFS node that owns it.
* Operations: `rtems_zocl_register`, `zocl_node_destroy`, the `ioctl` dispatch
  (VERSION, READ_AXLF, AIE_FD, REQUEST; every other command answers EIO),
  `read` / `write` (EIO).

### 1.6 zocl xclbin loading: `rtems/zocl/zocl-xclbin.c`

* State: per slot its index, the UUID of the xclbin, the pointers to the
  copied sections; the heap block they point into; the apertures.
* Operations: section lookup, `zocl_slot_sections_alloc/free`,
  `zocl_update_apertures`, `zocl_load_axlf`.
* Correct when: a slot says it holds an xclbin only if it does, blocks are
  neither lost nor freed twice, each aperture belongs to a loaded xclbin.

### 1.7 zocl requests: `rtems/zocl/zocl-requests.c`

* State: the caller's request (data, `data_size`, `data_level`).
* Operations: bounded write and print, `xclbinid`, `kds_custat_raw`.
* Correct when: nothing is printed behind the buffer, and a reader learns from
  the result and `data_level` when the answer did not fit. (`data_level` itself
  passes `data_size` when a line is cut, section 5.)

### 1.8 zocl report: `rtems/zocl/zocl-report.c`

* State: one index for five loops, the indentation, the last character and the
  length of the line that is being printed.
* Operations: the tables of sections, memories, IPs and connections, the layout
  of the AIE metadata; all of it prints at a trace level.
* Correct when: each table is whole, the indentation follows the nesting, a
  long line is broken at a comma.

### 1.9 Start of `xbutil`: `tests/`

* State: the copy of the boot line and the pointers into it, what is up, the
  polls of the link.
* Operations: `Init` (`bspmain.c`), `network_init`, `debugger_init`, `nfs_init`,
  `pm_init`, `xrt_init`, and the fatal extension that resets the board behind
  `exit`.
* Correct when: the arguments are the words of the line, the shell finds all
  that it needs, every failure leads on.

### 1.10 The rest

The trace headers; the Python files, which describe the build to waf;
`xpm_defs.h` and `xpm_nodeid.h`, constants from Xilinx; the Boost platform
header; `dl.c`, stubs.

### 1.11 Hard behaviours

| Where | What is hard |
| --- | --- |
| 1.2 | tasks race on the feature cache; an answer that failed once is read later as a success; one lock, taken by one of the two loads |
| 1.2 + 1.4 | the image passes through stat, allocation, a chunked read, a check, a cache flush, the lock, the firmware, and each step may fail |
| 1.3 | an off-by-one in the words a checksum covers |
| 1.6 | a load fails after it changed the slot; a second load of a slot; two tasks load at once without the lock |
| 1.7 | an unsigned subtraction wraps when a print was cut short, and only a limit of the library keeps the next print out of the memory behind |
| 1.4 | two tables searched by prefix, and option loops that move `argc` and `argv` and check exclusive flags at four places |
| 1.1 + 1.2 | two arguments share a register, an address goes out in halves, three tables of 78 rows must agree, one register is the result twice |
| 1.8 | five loops on one index, an indentation that is taken back in two places |
| 1.9 | the boot line is split by two loops that must agree; the wait for the interface looks once a second; early returns at every step, results that are not looked at, and the reset behind the last step |

## 2. Modules

| Module | Models | Composition |
| --- | --- | --- |
| `PdiPort` | what a PDI load promises (abstract) | implemented by `PmLoad` |
| `PmLoad` | the image commands from the file to the firmware, concurrent sessions | refines `PdiPort` |
| `PmFeature` | the queries of the driver with the shared feature table and errno | |
| `PmImage` | the header checks of images and the two commands' verdicts | `PmLoad` has its outcome as the constant `Kind` |
| `PmShell` | the command line: prefix tables and option loops | ends where `PmLoad` and `PmFeature` begin |
| `ZoclXclbin` | the zocl device, its slots and apertures, `zocl_load_axlf` | |
| `ZoclRequest` | `zocl_request` and the bounded print | its `used` are the slots that `ZoclXclbin` fills |
| `Smccc` | `smccc.c`: function numbers, the trap, the version and its guards | extended by `PmCall` |
| `PmCall` | the calls of the PM driver: numbers, arguments, answers, the stubs | on the registers of `Smccc`; takes its turns with the other clients of `smccc.c` |
| `ZoclReport` | the report of an xclbin | its lookup is the one of `ZoclXclbin` |
| `PmReport` | the lists of images and partitions of `pm acap info` | follows an `AcapInfo` of `PmImage` that found no error |
| `Startup` | `xbutil` from the boot line to the shell and the reset | registers the commands that `PmShell` models and the device of `ZoclXclbin` |

`X_proofs` holds the theorems about `X`, `MCX` an instance for TLC.
`PmDriver_proofs` is about `PmCall` (with `Smccc`) and `PmImage`,
`Reports_proofs` about `ZoclReport` and `PmReport`. The modules with proofs
declare no recursive operators: the sum of a checksum is a recursive function.

### 2.1 `PmLoad` and the code

A session is a task that runs a command of `pm-shell.c`; its program counter is
`pc` and its local variables are `cmd`, `size` and `left` (the read loop), and
`buf` (`image->image`). `heap` and `fds` are what malloc and open have handed
out. One action is one call: `Stat`, `Malloc`, `Open`, `ReadBlock`,
`CheckHeader`, `Flush`, `Lock`, the firmware's answer, `Unlock`, `Free`, with an
action for each way in which a call fails. `Free` is `pm_image_free` with the
return of the command. `owner` and `queue` are the RTEMS mutex `fpga_lock`;
unlocking hands it to the first in the queue (`HandOver`).

An image is a sequence of blocks; a block in memory is known by the file it
came from. Every `read` may find another file, since the image may be replaced
while it is read, so a buffer can hold blocks of two images: only the header in
the first is checked. `mem` and `ddr` are the two views of a buffer, and
`WriteBack` lets the cache write any line back at any time.

`fpga load` runs the same path without the check and without the lock, as the
code does.

### 2.2 `PmFeature` and the code

`cache` is `api_feature_status`. The check is four steps, one per access to the
table and one for the SMC call: `NotAsked`/`Cached` (the first read), `Ask`,
`Store`, `Judge` (the second read, which a compiler may serve from the value it
already has: the table is neither atomic nor volatile). `ResultErrno` is
`pm_result`. A success and "not asked" are both 0 in the table, so a feature
that is there is asked about each time. `PrintLine` is one turn of
`pm features`, which reports `errno` and not the result.

### 2.3 `PmImage` and the code

Words are small numbers and the sizes are constants; the order of the words is
that of `XilPdi_ImgHdrTbl` and of the boot header. A boot PDI has its boot
header where a partial PDI has its table, so the two are read from the same
words; a file whose words pass both tests is `Ambiguous`. `HeaderChecksum` is
`rtems_pm_image_header_checksum` with both of its reductions of the length.

### 2.4 `PmShell` and the code

`at` says which table or function has the line, `args` are the words left. A
flag is known by the option that sets it (the bits of `pm_fpga_flag` are
distinct). Prefixes are computed on the strings themselves.

### 2.5 `ZoclXclbin` and the code

`zocl_dev.lock` is initialised and never taken. Nothing promises that `ioctl`
may be called concurrently, so the model has one call at a time; its steps are
those of `zocl_load_axlf` in their order, because what matters is which of them
were already done when one fails. A slot is its `slot_idx`, UUID and the block
that its section pointers point into. The range check lets two kinds of numbers
pass that are no slots (section 5). The slot behind the array exists in the
model: its memory is `cu_num` and `irq` of `cu_subdevs`, which nothing else
uses, so a load into it works like any other. A negative number is a slot in
front of the array, where the lock, `num_pr_slot` and other heap blocks are;
`InFront` ends the system there. `ReleaseSections` frees the block and leaves
the pointer. `Destroy` frees the device and not the sections, so the heap can
run out.

### 2.6 `ZoclRequest` and the code

`level` is `data_level`, a 32 bit number, `Room` is the subtraction that
computes the length and wraps. A line of a slot is its length; `kept` says
how many of its characters are in the buffer, and `end`, a history variable,
where the last print ended. `PrintLine` is a print with a length that
`vsnprintf` accepts. Behind a line that was cut the length has wrapped and is
above `INT_MAX`: newlib's `vsnprintf` writes nothing then and returns -1, which
is added to `data_level` (`PrintRefused`). Other clients take slots into use
(`Use`) between any two steps. Clients begin with `data_level` 0; the handler's
own memset does the rest.

### 2.7 `Smccc`, `PmCall` and the code

`x` is what is in the registers at the trap: the function number and the three
64 bit arguments that `pm_invoke` packs from five words. `Trap` and
`TrapReturns` (for the driver: `PmReturns`) are the two halves of one call; the
CPU is in the firmware between them. `Base` is 2^32 and `Half` 2^16; a function
number is a record, since `SMCCC_FUNC_ID` puts its fields into bits of their
own. `SysInit` may run at any time, so that the guards of `smccc.c` are met in
both states of the version. The answers of the firmware are any of `Statuses`
and `Values`; `out` is what the caller finds in its result. The three tables of
the APIs are written down as they are in the three files: the enumeration
(`pm.h`), the numbers (`pm.c`) and the names (`pm-shell.c`).

### 2.8 `ZoclReport`, `PmReport` and the code

`pc` is the loop that runs and `i` is the one index, which also takes the
result of `zocl_get_slot_sections`. A character of the metadata is one of five
kinds, one step each. `Info` is the length that `zocl_info` returns: nothing
when the level is below `ZOCL_TRACE_INFO`. `Pad` is what `%*c` prints for any
width. `col`, `depth` and `drift` are history: where the cursor is, how deep
the text is nested, and how many objects were closed in front of something
other than a brace or a comma (the end of an array, white space), which is where
the code does not take the indentation back. A line end in the text restarts
the line like one that the report printed.

In `PmReport` a name is the number of its characters in its field and, when it
fills the field, the number of bytes behind it up to the first zero.

### 2.9 `Startup` and the code

`mem` holds the characters of the copied boot line and `argv` places in it.
`Strtok` is one call of strtok (the first call and the later ones differ in
`save` only), `NextArg` one turn of the second loop. From `main` on each step
goes on to the next or to the one that its early return leads to; `up` is what
is up. `Tries` is `wait_for_secs`, and the link changes on its own between two
looks. `OpenClose` stands for `xclOpen` and `xclClose`, which are in XRT,
and the command behind them. `rtems_shell_add_cmd` may fail and no caller looks
at its result: `AddsCommands` adds the command or notes it in `refused`, a
history variable, and the start goes on either way. When
main returns, `exit` ends in the fatal extension of `init.c`, which resets the
board, so `Reset` leads to the next boot.

## 3. Runs

| Run | Bounds | Shows |
| --- | --- | --- |
| `pm_load` | 2 sessions, images of 1 and 2 blocks, 2 buffers | `BuffersAccounted`, `DescriptorsAccounted`, `FirmwareSeesImage`, the refinement `ServesPort`, and `CommandsEnd` under fairness |
| `pm_queue` | 3 sessions, images of 1 block | `PdiExclusive`, and `SafetyInv`, the inductive invariant |
| `pm_feature` | 2 tasks, 3 APIs: unknown to the firmware, absent, unsteady | `AbsentNotUsed`, `ErrorExplained`, `DenialInv` |
| `pm_feature_unknown` | as above: absent, there, unknown | finding 1 |
| `pm_image` | words of 2 bits, tables of 4 words, boot headers of 2 | `AcceptedIntact`, `DamageFound`, `CommandsAgree` |
| `pm_shell` | lines of up to 3 words, loads with up to 4 more | `Exclusive`, `LineObeyed`, `LineEnds` |
| `zocl_xclbin` | 1 slot and the one behind it, 3 apertures, 7 kinds of xclbin, 2 blocks | `FreesItsOwn`, `FullWhenRefused`, `LoadedComplete`, `AperturesKept`, `SafetyInv` |
| `zocl_already` | the xclbins with AIE metadata | finding 2 |
| `zocl_request` | 3 slots, lines of 3 characters, buffers of 0 to 12 | `ShortIsComplete`, `TooBigTrue`, `InsideBuffer`, `SafetyInv` |
| `smc_call` | words of 12 bits, 5 addresses, 3 sizes, 9 statuses, all 78 APIs | `FirmwareReadsImage`, `CalledAsListed`, `StatusLost`, `AskedThenNoWorkaround`, `TypeOK` |
| `reports` | texts of up to 5 characters, lines of 4, tables of up to 2 rows; lists of up to 2 names | `TablesWhole`, `IndentAccounts`, `LineLenTracks`, `ColumnsAligned`, `TypeOK` |
| `startup` | boot lines of up to 5 characters, 2 polls, 2 builds | `ArgsAreWords`, `VerdictFromPoll`, `ShellComplete`, `SafetyInv`, and `StartEnds` under fairness |

The type invariants of the other modules are a part of the inductive invariants
`SafetyInv` and `DenialInv`, or proved (section 4).

Why the bounds are enough to meet the interesting cases:

* `pm_load`, `pm_queue`. Two sessions race for the lock and for the heap; three
  make a queue of two, the least in which order and hand-over matter. Two
  blocks tell a first block, whose header is checked, from a later one, and let
  a read fail half way. Two images are one that is accepted and one that is
  refused.
* `pm_feature`. Two tasks make every race on one entry of the table. The
  absent API stands behind one that the firmware denies in other words, so that
  the errno and the answers of a neighbour are at hand; an answer of the third
  fails or does not from one question to the next. In `pm_feature_unknown` the
  unknown API is behind one that is there, whose errno it shows.
* `pm_image`. A table has two words that are summed, the word that the
  off-by-one leaves out and the checksum; words of two bits let the sum of two
  wrap. The boot header has another length than the table, so that neither test
  implies the other and every pair of verdicts is reached, the boot PDI that the
  load refuses included.
* `pm_shell`. Two options of a pair, in either order, with one between or
  behind them, and a file need four words.
* `zocl_xclbin`. The apertures are filled by two loads, overfilled by one, and
  one xclbin is above `MAX_APT_NUM`; the slot can be loaded again after each
  kind of failure. A second slot of the array has been checked as well (6.8
  million states), with the same result.
* `zocl_request`. The sizes go from an empty buffer to one with room for a line
  more than there are slots, so each line is cut at every character. A word
  has five bits, so `INT_MAX` is 15: all sizes are below it and each length that
  has wrapped is above it.
* `smc_call`. Words of 12 bits are the least that hold the API numbers; the
  addresses and sizes lie in front of, at and behind the end of a word, the
  statuses are those that `pm_result` tells apart, with and without an upper
  half.
* `reports`. Five characters nest two objects and close them in every order in
  front of every kind of character; with lines of four the limit is met and
  passed. The types of the tables are the last with a label and the first
  without. The names end in front of the end of their field, at it, and at and
  behind the limit of `strnlen`.
* `startup`. Five characters are three words at most, with runs of blanks in
  front, between and behind; two polls let the link come up for the first, for
  the second and during the last sleep.

`CHECK_DEADLOCK FALSE` in the zocl configurations, where a fault ends the
system, in `smc_call`, where a panic does, and in `reports`, since a report
ends.

Fairness is assumed in `PmLoad` (each session that can take a step is scheduled
in the end; the firmware answers each call; nobody must type a command), in
`PmShell` (the session is scheduled) and in `Startup` (the init task is
scheduled; nobody must leave the shell, attach a debugger or plug in a cable).
The scheduler of RTEMS runs every ready task of a priority in its turn, the
tasks that use the driver are taken to share one priority, and a mutex wakes
waiters of one priority in the order of arrival; the trap to the firmware is
synchronous and returns.

## 4. Proofs

All theorems are for every value of the constants that the modules' assumptions
admit: any number of sessions, images, APIs, slots, apertures and lines.

* `PmLoad_proofs`. `SafetyInv` is inductive: the lock is held by the session in
  the firmware or on its way out of it and by no other (`LockInv`); a buffer
  belongs to one session (`BufferInv`); what was read so far is in memory, and
  after the flush in DDR (`ContentInv`). Exclusion alone is not inductive, for
  a hand-over must find a queue of sessions that are blocked, each of them
  once. `FirmwareSeesImage` needs that no free or malloc of another session
  touches the buffer. From it follow exclusion, the account of buffers and
  descriptors, coherence and, step by step, the refinement of `PdiPort`.
  `Rank` says how far a session is from the end of its command: its own steps
  make it less and no step of another session makes it more (`Progress`); a
  blocked session waits for one that is not blocked (`Waiting`) and is not
  overtaken in the queue (`InTurn`).
* `PmFeature_proofs`. `ErrorInv` carries the errno of a failure from the SMC
  call to the message. `DenialInv` says of an API that the firmware always
  denies with `PM_STATUS_NO_FEATURE` that a stored denial is never undone:
  another task can only store the same denial. From it follows `AbsentNotUsed`,
  whatever the firmware says of the other APIs. A denial with another status is
  no denial for the second check (finding 1), so nothing is claimed of it.
  `ListInv`, under `FirmwareSteady` (each question is answered by the same yes
  or no), makes every line of `pm features` true; `pm_feature_unknown` shows
  that the assumption is needed.
* `ZoclXclbin_proofs`. `SafetyInv` ties slot, block and apertures to the call
  under way. That a load is refused only when no aperture is free needs the
  existence of a first free entry: the well-founded order of the numbers.
* `ZoclRequest_proofs`. `SafetyInv`: a line is printed only from a level below
  the size, so the level passes the size by less than a line. Then the length
  that is left has wrapped to a number above `INT_MAX`, since `INT_MAX` and a
  line together are less than the modulus, and the print is refused
  (`RoomFacts`); each refusal takes one off the level until it is the size and
  `EFBIG` follows, so once a line was cut the level never gets below the size
  again. For `EFBIG` the slots are counted: the level is at most a line for each
  slot in use that was passed, and the slot the handler is at is one more, so a
  full buffer is smaller than the lines of all slots in use; slots taken into
  use meanwhile only add lines.
* `PmShell_proofs`. The collected flags are compatible, and an option that is
  not excluded keeps them so: flags that exclude each other never reach the
  firmware. For `LineObeyed` the invariant says, at each table and at each turn
  of a loop, what the words that are gone have decided: the functions that the
  line can still name are those of the table it is in, and the flags are those
  of the options between the file and the words left. `WordsAssumption` is what
  the strings of `pm-shell.c` fulfil: "help" abbreviates no command, and an
  option begins with a dash. `Shortens`: what is left of a line (`ToDo`) gets
  less at every step.
* `PmDriver_proofs`, `PmCall`. `CallInv` ties the registers at the trap to the
  call that is under way, argument by argument (`ArgsArrive`): what is packed
  from two words comes apart into the same two, since the lower one is less
  than `Base`. An address that was cut in halves is put together again
  (`Halves`). That the three tables agree is shown row by row on their 78 rows.
* `PmDriver_proofs`, `PmImage`. For the agreement of the two commands the four
  outcomes of the two tests are gone through (`VerdictsAgree`): only a file
  that passes both is loaded and not reported as partial. For the checksum, the
  sum of n words is shown to exist and to be the only one by induction over the
  length of the table (`SumExists`, `SumAgree`), the induction being that of a
  set of numbers that holds 0 and each successor. Two tables that differ in one
  word have sums that differ by the difference of the words (`SumOfDamaged`),
  which is less than the modulus and not 0, so the remainders differ
  (`SameRemainder`).
* `Reports_proofs`. `IndentAccounts` needs to know what the last character
  was, since a comma behind a brace pays back what the brace left; `LineLength`
  needs that a line that was not begun yet has no column. Both hold for every
  text, balanced or not; `PositiveWidth` is the consequence for printf. For
  `TablesWhole` each loop is told apart by what it has behind it: the lines are
  those of the tables before and as many as the index says, so a loop that is
  left has all of its own, and a line once printed is never touched.
  `AlignedColumns` is about `PmReport`: after the first pass `max` is the
  greatest measure of a name, whose limit is `NameLimit`.
* `Startup_proofs`. The invariant lists what is up at each place of the
  program, so that a step that adds a part finds those in front of it there; a
  command is up or in `refused` from the step on that should add it. For
  `ArgsAreWords`, `Cutting` says that strtok is always at a boundary, that the
  copy is the line but for a NUL behind each word in front of it, and that
  `argc` counts those words. `Entry` says the same of the places that the
  second loop stores: argument a has a - 1 words in front of it and one behind.
  `NextWord` is what both loops rest on: from a boundary over blanks and
  characters one comes to one word and one end. `LeadsOn`: each step goes to a
  later place (`Phase`) or takes one of the turns its loop has left
  (`TurnsLeft`); that strtok goes on at a greater place each time, and inside
  the copy, needs `Cutting`.

Only model-checked: the liveness properties (`CommandsEnd`, `LineEnds`,
`StartEnds`), since the prover has no fairness and no ENABLED, and what the two
runs that find a violation show. What these liveness properties need besides
fairness is proved: a measure in the natural numbers that the steps make less
and that nothing makes more (`Progress` with `Waiting` and `InTurn`,
`Shortens`, `LeadsOn`). That such a step is possible until the end is what TLC
checks.

Assumed about what is not in the repository: RTEMS mutexes hand over in order
of arrival; the cache flush writes all lines of its range; the firmware reads
an image only during the call; heap blocks are fresh. The C library is newlib:
its `vsnprintf` refuses a length above `INT_MAX` with -1 and writes nothing.
A client's `data_size` is at most `INT_MAX` (a larger one would have its first
line refused).

## 5. Findings

1. `pm features` lists an API as available that the firmware does not know: any
   status other than `PM_STATUS_NO_FEATURE` is cached as it is, and a cached
   status leaves `errno` to the API before (`pm.c:266`). The check lets it pass
   from then on, so the call behind it is made.
2. After a load that failed for want of memory or sections the same xclbin is
   said to be loaded already (`zocl-xclbin.c:288`).

Other places where the code is not what a reader expects are part of the models
and of the statements of their properties, and have no run of their own:

* The last reserved word of the image header table is not part of the checksum
  that is computed (`pm-image.c:87`): `AcceptedIntact` and `DamageFound` except
  it.
* The slot number equal to `ZOCL_MAX_SLOTS` passes the range check
  (`zocl-xclbin.c:258`) and the load uses the memory behind the array; finding 2
  shows on that slot as on any other. A negative number passes as well
  and names memory in front of the array, and an xclbin without AIE metadata
  makes the section lookup store through a null pointer (`zocl-xclbin.c:58`):
  `ZoclXclbin` has all three, and the last two end the system.
* A line that is cut adds its whole length to `data_level`, which passes
  `data_size` (`zocl-requests.c:74`). The lines behind it are lost, each takes
  one off the level, and the result is 0 unless the level comes back to the
  size: `ShortIsComplete` is only about a level below the size, and
  `InsideBuffer` says how far the level goes.
* A file with a boot header and the table of a partial PDI in the same words is
  loaded, though reported as a boot PDI (`pm.c:336`, `pm-image.c:156`):
  `CommandsAgree` excepts it.
* The results of `rtems_shell_add_cmd` are not looked at (`pm-shell.c:512`,
  `xbutil.c:114`, `debugger.c:32`), so the shell may run without a command:
  `ShellComplete` says that this is the only way to lack one.
* The codes that `pm_result` translates one by one are never looked at, as the
  result of the trap is the same register (`pm.c:177`): `StatusLost` says so.
* Once the version of the SMCCC is set, the firmware can be asked which
  workarounds it has and none can be called (`smccc.c:80`):
  `AskedThenNoWorkaround`.

## 6. Not modelled

The constants and register accessors from Xilinx (`xpm_defs.h`,
`xpm_nodeid.h`), of which the sources use none; the declarations of `xilpdi.h`
behind the headers that are read; the Boost header; the stubs of `dl.c`, which
keep no state; the build description, whose lists are those of a run of waf.
Short files are not part of `PmImage`: what is behind the buffer is not part of
the program. Two tasks in one `ioctl` at once are not part of `ZoclXclbin`
(2.5). XRT, which `xbutil` and the device node serve, is not in the repository.

## 7. Plan

1. `ZoclDevice`: `ZoclXclbin` with `ZoclRequest` on the same slots, so that the
   requests report what the loads did, and an abstract slot table (empty, or
   holding an xclbin) that the loads implement for the calls that succeed.
2. `PmSystem`: an abstract feature table (asked or denied) that `PmFeature`
   refines for a firmware whose every denial is `PM_STATUS_NO_FEATURE`; the PDI
   and the bitstream load on one firmware.
3. Proofs: the refinements of 1 and 2.
