# A specification of piano_zram: the zstd 1.5.7 / lz4 1.10.0 upgrade module

The repository is a Magisk module for one phone. It carries two kernel modules
that register newer zstd and lz4 implementations under the same crypto names as
the kernel's own, and shell scripts that load them, bring `zram0` (the phone's
swap) onto them, check the result, and ask the user at installation what he
wants. The kernel modules embed zstd 1.5.7 and lz4 1.10.0. This directory holds
TLA+ modules for those parts, TLC configurations that check them on small
instances, and TLAPS proofs.

Paths below are relative to `src/`; `M/` stands for `magisk/piano_zram/`, `Z/` for
`zstd-upgrade/lib/zstd/` and `L/` for `lz4-upgrade/lib/`.

## Inventory

| Component | State | Operations | Hard behaviour | What makes it correct |
| --- | --- | --- | --- | --- |
| `M/bin/zram-algo.sh` | shell variables `ALGO`, `cur`, `r`, `i`, `orig_size`; acts on zram0, the swap table, page-cluster | `apply`, `status` | no lock between two runs; every write to sysfs may fail; between `swapoff` and `swapon` the phone has no swap; the name in `comp_algorithm` does not tell the two drivers apart | the swap is not lost unless a call fails; "served" is said only when it is true; a run that overlaps nothing reaches its goal |
| `M/bin/zstd-upgrade.sh` (`load.sh`, `unload.sh`, `uninstall.sh`) | none of its own; `/proc/modules`, `/proc/crypto` | `load`, `unload`, `status` | a module is listed before it is registered; the first failure ends the script | exit 0 means both drivers are there (gone) |
| the two crypto drivers (`zstd-upgrade/src`, `lz4-upgrade/src`) | one context per CPU and device | module init/exit, `cra_init`, `cra_exit`, compress, decompress | `rmmod` against live contexts; `-ENOMEM` on any CPU; context reuse from page to page | no context outlives its module |
| the kernel (external) | crypto registry, zram attributes, swap table | insmod, rmmod, sysfs writes, mkswap, swapon, swapoff | a disksize write is not atomic: one lookup per CPU | - |
| boot: `M/post-fs-data.sh`, `M/service.sh`, Perfinit (external) | files `enable_zram`, `zram_algo`, `perfinit.conf`; the bind mount | early load, bind, Perfinit's build of zram0, late load, apply | nothing orders Perfinit after the early load or before the apply | after the boot zram0 is served as chosen, or untouched if so chosen |
| `M/customize.sh` | menu, key counts, the files it leaves | gate, three menus | key presses arrive at any moment in a file that is counted twice per poll | no key is miscounted; the files left behind fit together |
| `M/bin/kernel-check.sh` | none | `kc_check` | the same prefix does not mean the kernel accepts the `.ko` | a closed gate changes nothing |
| `M/bin/verify.sh` | a temporary zram device | six report steps | it shares refcnts with zram0; it may stop half-way | its verdict is true; it leaves no device behind |
| `load_piano` in `M/service.sh` | kernel tunables | straight-line writes | none | - |
| zstd workspace (`Z/compress/zstd_cwksp.h`) | the marks between objects, tables, buffers and aligned memory in one allocation | reserve, clear, mark, clean | memory is reused without clearing; a reservation may fail half-way | no byte is lent twice; what is called clean is clean |
| zstd compression context (`Z/compress/zstd_compress.c`, the driver's `cra_init`, `cra_exit`) | the context, its workspace, how often it was far too large | create, free, reset for a frame, reset from a dictionary, static contexts | the size is estimated apart from the reservations; `vmalloc` fails; a reset fails between two frames | the estimate suffices; after a reset all pointers and tables are sound; nothing leaks |
| zstd window (`Z/compress/zstd_compress_internal.h`) | `base`, `dictBase`, limits, `nextToUpdate`, dictionary ends | update, enforce, correct overflow, load and attach dictionaries | input over older input; indices shifted before they overflow; tables kept from frame to frame | an index the window admits stands for its byte; no offset out of the decoder's reach |
| zstd streaming (`ZSTD_compressStream2`, `ZSTD_decompressStream`) | rings, positions, stages, the hostage byte | one call with any input, room and directive | input and output cut anywhere; failed allocations; two sides waiting for each other | every byte comes out once and in order; 0 means done |
| zstd blocks (compressor and decoder) | last offsets and entropy tables, a copy on each side | whole, split and superblocks, raw and run-length blocks | a block that comes out raw has already changed one side | both sides have the same tables and offsets |
| FSE, Huffman, literals and sequences sections | counts, tables, bit streams | build, write, read | two sources of the same constants; streams that advance unevenly | what is written is read |
| zstd match finders (`zstd_fast.c`, `zstd_double_fast.c`, `zstd_lazy.c`) | hash tables, chains, trees | search and store a block | stale cells; the window in two segments; offsets put aside | the sequences replay to the input |
| lz4 (`L/lz4.c`, the driver) | hash table, offset, dictionary | compress a page or a block of a stream, decode, load, attach and save dictionaries | the table is kept from page to page; indices are renormalised; rooms that are too small | every block decodes to its page, within its room |
| build scripts, `tools/` | files | copy, compile, pack | none at run time | - |

The scripts meet only in the kernel's state and in the module's files:
`customize.sh` writes the files, `post-fs-data.sh` and `service.sh` read them and
call `zstd-upgrade.sh` and `zram-algo.sh`, `zram-algo.sh` calls
`zstd-upgrade.sh load`, Perfinit reads the `perfinit.conf` that
`post-fs-data.sh` mounts, and all of them make system calls on the same device.

The drivers hold one zstd context, or lz4 state, of each kind for each CPU and
call it for one page at a time. Inside zstd the context owns the workspace; each
frame begins with a reset that reserves everything in it anew, the match finders
fill the tables that lie there under the window's indices, and a block's sequences
and literals go through the entropy coders to a decoder that has nothing but the
bytes. The streaming interfaces are not used by the driver but are exported with
the library.

## Modules

```
ZramKernel              system calls as actions with an Ok and an Err form
  UpgradeCtl            zstd-upgrade.sh load | unload, per process
    ZramAlgo            zram-algo.sh apply, per process   --implements-->  SwapService
      ZramAlgoProofs
      BootFlow          post-fs-data.sh, service.sh, Perfinit
        BootFlowProofs
      VerifyScript      verify.sh and its temporary device
        VerifyScriptProofs
Installer               customize.sh
  InstallerProofs

ZstdCommon              macros, the last offsets
  Cwksp                 the workspace as operators on its record
    CwkspClient         any client of it
    ZstdContext         a context from cra_init to cra_exit, and its resets
      ZstdContextProofs   (of CwkspClient and ZstdWindow too)
  ZstdWindow            the window, one cell of the tables, what lies in memory
  ZstdWire              frames, blocks, units on the wire
    ZstdCStream         ZSTD_compressStream2
    ZstdDStream         ZSTD_decompressStream
      ZstdPipe          both, and the wire            --implements-->  ByteFifo
        ZstdPipeInvariant
          ZstdPipeProofs
  ZstdBlocks            entropy tables and last offsets from block to block
    ZstdBlocksProofs
  Fse                   normalisation, headers, tables, streams
    Huf                 Huffman trees, weights, one or four streams
      ZstdLiterals      the literals sections of a frame and their decoder
    ZstdSequences       the sequences sections of a frame and their decoder
  ZstdMatch             what the match finders share
    ZstdFast, ZstdLazy  fast, dfast; greedy, lazy, lazy2, btlazy2
      ZstdFinders       from block to block, and a decoder that replays
  Lz4Block              the compressor of one block, turn by turn of its loop
    Lz4Stream           a state over its life: pages, streams, dictionaries
      Lz4Decoder        the decoders
      Lz4Invariant
        Lz4StreamProofs

MCZramAlgo, MCBootFlow, MCVerifyScript, MCInstaller     instances for TLC
MCMachines              workspace, window, context, literals, sequences, finders
MCCodec                 pipe, blocks, lz4
```

**ZramKernel** is mostly external: it models what the scripts can see of the
kernel. A crypto lookup takes the new driver when it is registered
(`cra_priority` 100 against 0). A module is `listed` from the beginning of
`insmod` and `registered` only after its init function. `rmmod` succeeds only
while no stream of the driver lives (`cra_module`). A write to `disksize` takes
the device's init lock and allocates the streams one CPU after the other, each
with a lookup of its own; every other call on the attributes waits for the lock.
A call fails for a reason that the model contains (busy, already initialised,
not formatted), or, if its kind is in the constant `Faults`, for one that it
does not; the second sets the history variable `faulted`. Whether the reset of
an uninitialised device restores `comp_algorithm` differs between kernels, so
both happen.

**UpgradeCtl** has `at[p]`, the step process p is at in `zstd-upgrade.sh`,
`on[p]`, the algorithm (`load_algo` and `unload_algo` run for lz4, then for
zstd), and `op[p]`. One action per line that reads or changes the kernel.

**ZramAlgo** has `pc[p]`, the step of `zram-algo.sh apply`, and the shell
variables that live across steps: `want` (`ALGO`), `named` (the comparison of
`cur`), `tries` (`i`), `keep` (`orig_size`). Each call into the kernel is a step
of its own, since nothing locks two scripts against each other. Any process may
start `apply` with any content of the file `zram_algo` and any argument, or
`zstd-upgrade.sh`, at any time, and again after it has ended. The variable
`disturbed` is history: it marks the runs that overlapped another one. How a run
ends is recorded as "kept" (line 155), "served" (166), "unconfirmed" (168),
"default" (136) or "failed" (exit 1).

**SwapService** is the abstract promise: a device that is on, being rebuilt or
lost. Its configuration changes only while it is off, it comes back only with a
complete configuration, and without an outside failure it is never lost.
`ZramAlgo!Service` is the refinement mapping: "rebuilding" means that swap is
off and some shell is at a step from which its own remaining steps bring it
back (`Restorer`).

**BootFlow** composes three processes. `post-fs-data.sh` and `service.sh` call
the actions of UpgradeCtl and ZramAlgo under their own process names; Perfinit,
external, creates zram0 and runs the tail of a rebuild with the algorithm of the
mounted `perfinit.conf` or with none. Perfinit may start at any time and may
still run when the apply starts; the history variables `early` and `late` record
that. All contents of `enable_zram`, `zram_algo` and `perfinit.conf` are initial
states, also those that the installer does not write, because the documentation
tells users to edit the files.

**VerifyScript** adds `verify.sh` and a second device to the shells of ZramAlgo.
Its refcnt is a number (one for the registration, one per stream), as the script
compares numbers. The variable `hit` is history: the algorithms whose test really
ran on the new driver; `met` marks the runs of verify.sh and of the shells that
overlapped each other. When zram0 does not exist, `hot_add` creates it, the script
rejects the id 0 and leaves the new zram0 behind; that is in the model.

**Installer** interleaves key presses with the steps of `pick_option`: the two
base counts, and in every poll a count of UP and a count of DOWN.

**Cwksp** has the record `ZSTD_cwksp` and each function of `zstd_cwksp.h` as an
operator from record to record; those that return memory return the record and an
address, NULL (0) for failure. Addresses and sizes are counted in units of a
pointer. What the code asserts of its caller is a guard of **CwkspClient**, which
calls them in any order; its ghosts `live`, `known` and `touched` say what is lent
out, which bytes hold values below the starting index, and which were ever written.

**ZstdContext** is the life of one `ZSTD_CCtx`: the driver's `InitTfm` and
`ExitTfm` with either allocation failing, static contexts, and `BeginFrame`, which
is the whole of `ZSTD_resetCCtx_internal`: the estimate, the decision to replace
the workspace (too small, or wasteful for too long), the allocation that may fail
between the freeing of the old and the use of the new, all reservations in their
order, and the cleaning of the tables. `BeginFrameByCopying` overwrites the tables
with a dictionary's instead. A *profile* is what parameters and input size come
down to here, namely the sizes of what is reserved. `ServeAll` folds a list of
requests over the workspace. The ghost `below` holds the addresses known to hold
values below the frame's first index; `last` says how the last reset ended.

**ZstdWindow** has `ZSTD_window_t`, `nextToUpdate` and the dictionary's end as
variables; every byte of memory remembers which index was written there last
(`mem`), and one cell of the tables, any of them, is followed with the index that
it should stand for (`entry`). Chunks may lie anywhere, also over older input.

**ZstdCStream**, **ZstdDStream**. A call begins with `CCall` (`DCall`), takes one
step for each turn of the loop in `ZSTD_compressStream_generic`
(`ZSTD_decompressStream`), and returns with the last. **ZstdPipe** puts both on one
wire, with users who choose input, room and directive. **ByteFifo** is the abstract
promise: what comes out is a prefix of what went in, in order; `DeliversInOrder`
says that the pipe implements it.

**ZstdBlocks** keeps the compressor's `prevCBlock` and the decoder's tables and
offsets side by side, over whole, split and superblocks. A table is an identity and
the set of codes it has a symbol for, a sequence is its `offBase` and whether
literals come before it. While a block is written in parts, `bwork` has its sequences,
how many are done (`sp`), and for a split block where the remaining parts end
(`partitions`) with the two simulated histories `dRep` and `cRep`.

**Fse**, **Huf** are the entropy coders as operators on counts, tables and sequences
of bits. **ZstdLiterals** and **ZstdSequences** put them into the sections of the
blocks of a frame, each with the decoder that is given only what was written. The
tables that the decoder has printed out in its source are in the model as they are
printed.

**ZstdMatch**, **ZstdFast**, **ZstdLazy** are the searches, position by position,
with the widths of reads and hashes as parameters. **ZstdFinders** runs them block
by block over texts, with tables left from earlier blocks and stale cells in them,
with the window in one segment or two, with blocks that are taken back, and replays
the sequences.

**Lz4Block** is the loop of `LZ4_compress_generic_validated` with its kinds of table, its
rooms (`notLimited`, `limitedOutput`, `fillOutput`) and its dictionary directives. A call
in progress is a record, `work`; `Searching` is one turn of the search for a match, with
catching up and the literals when there is one, and `NextMatch` is what follows the label
`_next_match`. Each checks what the code checks before it writes, and `top` is how far
memory has been written, what `LZ4_wildCopy8` and `LZ4_write32` write too much included.
What the compressor reads of memory below its history may be anything. The hash functions
are constants, so whatever holds does not depend on what they compute. **Lz4Stream** is the
life of a state: fast resets from page to page as the driver does them, streams of blocks
with their history in place or saved, dictionaries loaded or attached; a call begins, turns
and returns, one after the other, as nobody else uses the state. **Lz4Decoder** decodes
what the call that has just returned has written.

## Runs

| Run | Instance | Shows |
| --- | --- | --- |
| `zram_race` | 2 shells, 2 CPUs, 1 device, every set of accepted `.ko`, every fault; symmetric shells and CPUs, 2 swapoff attempts; 2.3 million states | `TypeOK`; `StreamsPinned`; `SwapSurvives`; `ServiceSpec` (refinement); and, for runs that overlap no other, `ServedMeansNew`, `SoloApplySucceeds`, `CtlExitHonest` |
| `zram_live` | 2 shells, 1 CPU, no faults, two kernels, 2 swapoff attempts, fairness | `ScriptsEnd` |
| `zram_retry` | 1 shell, faults of mkswap and swapon | `ExitZeroHasSwap` is violated (below) |
| `boot_flow` | the three boot processes, 2 CPUs, every configuration, kernel and fault; 280 000 states | `BootServes`, `HandsOff`, `BootKeepsSwap`, `NoNeedlessRebuild`, `BootEnds` |
| `boot_refused` | the same without faults | `RefusedLeavesZram0` is violated |
| `boot_notchosen` | the same without faults | `NotChosenLeavesZram0` is violated |
| `verify` | verify.sh, 1 shell, 2 devices, 1 CPU, faults; 5 million states | `NoTrace`, `StreamsPinned` with the test device, `VerdictTrue` for undisturbed runs |
| `verify_name` | the same without faults | `PassMeansServed` is violated |
| `verify_kept` | the same without faults | `KeptMeansServed` is violated |
| `installer` | 3 polls per menu, 5 key presses | `TypeOK`, `EveryUpCounts`, `ConfirmsAimed`, `InstallConsistent`, `InstallEnds` |
| `machines` | six machines of the compressor that share no state; the variable `part` says which of them a behaviour is about; 490 000 states | `Disjoint`, `ContentsKnown` (workspace); `HistoryIntact`, `EntryFaithful`, `OffsetsDecodable`, `IndicesBounded` (window); `EstimateSuffices`, `ReadyForFrame`, `NothingLeaks` (context); `LiteralsArrive`; `SequencesArrive`; `FoundTells` (match finders) |
| `codec` | three more in the same manner; 480 000 states, fairness | `ZeroMeansDone`, `HistoryHeld`, `DeliversInOrder`, `FrameArrives` (pipe); `DecoderInStep` (blocks); `DecodesToPage`, `FitsItsRoom` (lz4) |

Why the bounds are enough. Two shells are the smallest number that overlaps;
the proofs cover every number. Two CPUs are what it takes for a device whose
streams belong to two drivers, and for an allocation that fails half-way. Scripts
can be started again without bound, so a failed run may be followed by any other.
The only numbers are disksizes (0, the system's, the default) and the attempts of
the swapoff loop (`MaxTries`): 5 as in the code where one script uses it at a time
(`boot_flow`, `zram_retry`), 2 or 1 where the state space asks for it, which
still contains "gave up", "succeeded at once" and, with 2, "succeeded later"; the
proofs cover every number. In `verify` one CPU is enough, because the refcnt is
compared by more or less and only undisturbed runs are judged; the kernel accepts
both `.ko` files or none. `zram_live` uses
one CPU and no faults because faults only shorten scripts and the graph must be
kept for the temporal check. In the installer, three polls let a press fall
before, between and after the counts and into the last poll; five presses go
round the longest menu and leave one to confirm. `PICK_TIMEOUT` is 20 in the
code and only the number of polls depends on it.

In `machines` and `codec` sizes are scaled so that every limit is met with small
numbers; what matters is their order.

- Workspace: alignment 2, a capacity of 8 from address 3, requests of 1, 2 and 4:
  gaps of alignment on both ends, and reservations that do and do not fit. The
  factor and the duration that make a workspace wasteful are 3 and 1 instead of 3
  and 128.
- Window: 4 addresses, chunks up to 3, a window of 2, indices from 2 to 11, so that
  input overwrites both segments and an overflow correction follows a few chunks
  later. The period of the chain table is 1: its correction is not checked.
- Context: six profiles, from the smallest to one with row hash, optimal parser,
  long-distance matching and external producer; a workspace at an even and at an odd
  address, either of which may be refused.
- Literals: seven texts up to 1300 symbols, the last with a dense first quarter so
  that the four streams advance unevenly, at strategies 3, 5 and 8, two sections, with
  and without a dictionary's table; table logs as in the code (5, 11, 12).
- Sequences: six lists with lengths and offsets in every class of codes, strategies 3
  and 5, two sections.
- Match finders: six texts, hashes of 3 and 4 symbols for 4 and 8, a window of 12, one
  stale cell, at most 38 symbols found.
- Pipe: 7 bytes in frames with blocks of 2 and a window of 2, input offered at once or
  not at all, skippable frames of 0 and 1 units, output rooms of 1 and 7, arrivals of 1
  unit or all, one failed
  allocation. The ring turns round within a frame.
- Blocks: eight lists of sequences, two blocks, of which the first may be split or a
  superblock, every kind of dictionary.
- lz4: six pages, a match of at least 2, a window of 8, copies of 4 bytes, 3 calls, pages at
  two places and right behind the dictionary, tables that pass the clearing and the
  renormalising index.

Fairness. `FairSpec` asks for strong fairness of each shell's running script: the
scheduler runs it again and again, and a call that waits for the init lock gets
it (the kernel's rwsem serves its waiters in turn), although another shell may
take it over and over. Nothing obliges anybody to start a script. In BootFlow the
same holds for each of the three processes, and Perfinit's start carries no
fairness: `BootEnds` does not need it. In Installer the script runs (weak
fairness) and no key need ever be pressed. In `codec` a call that has begun returns,
a writer who has asked for the end of the frame goes on asking, as `zstd_lib.h` tells
him to, and the reader reads on (weak fairness of each); nobody has to begin anything.

### What the violated properties say

- `zram_retry`. `mkswap` or `swapon` fails after the device has been set up. The
  documented remedy (`README.md:151-152`) is to run `apply` again; but that run
  sees the wanted algorithm and a refcnt above 1, says that no rebuild is
  needed and exits 0. Swap stays off until a reboot. The run assumes one shell,
  so no race is involved.
- `boot_refused`. `M/bin/kernel-check.sh:106-107` promises that zram0 is not
  affected when the kernel refuses the `.ko`; `apply` ignores the result of
  `ensure_driver` and rebuilds zram0 with the built-in driver.
- `boot_notchosen`. For a `zram_algo` that is missing or holds something else,
  `M/post-fs-data.sh:44` logs that zram0 is left alone while `M/service.sh:144`
  takes lz4 and rebuilds.
- `verify_name`. `verify.sh` proves that a *new* device would use the new driver,
  then judges zram0 by its name (`M/bin/verify.sh:158`) and says PASS for one that
  the built-in driver serves; `README.md:38` says that it judges by the refcnt.
- `verify_kept`. The refcnt counts every user of the driver. While the test device
  of `verify.sh` is initialised, an `apply` keeps a zram0 that the built-in driver
  serves and logs that the new one does (`M/bin/zram-algo.sh:154`).

## Proofs

Eight modules hold proofs. What they prove holds for every value of the
constants that satisfies the named assumptions; a run shows the same property on a
small instance.

| Module | Theorem | Statement |
| --- | --- | --- |
| `ZramAlgoProofs` | `Invariance` | `Spec => []IInv` |
| | `TypeCorrect` | `Spec => []TypeOK` |
| | `StreamsArePinned` | `Spec => []StreamsPinned` |
| | `SwapIsKept` | `Spec => []SwapSurvives` |
| | `ImplementsService` | `Spec => ServiceSpec` |
| | `SoloRunsAlone` | `Spec => []SoloInv` |
| | `ServedIsTrue` | `Spec => ServedMeansNew` |
| | `SoloApplyIsGood` | `Spec => SoloApplySucceeds` |
| | `CtlExitIsHonest` | `Spec => CtlExitHonest` |
| `BootFlowProofs` | `BootInvariant` | `BootSpec => []BootInv` |
| | `SwapSurvivesBoot` | `BootSpec => []BootKeepsSwap` |
| | `ClosedGateHandsOff` | `BootSpec => []HandsOff` |
| | `BootDelivers` | `BootSpec => []BootServes` |
| | `NormalBootRebuildsNothing` | `BootSpec => NoNeedlessRebuild` |
| `VerifyScriptProofs` | `VerifyInvariant` | `VerifySpec => []VerifyInv` |
| | `VerifyLeavesNothing` | `VerifySpec => []NoTrace` |
| | `TestStreamsArePinned` | `VerifySpec => []StreamsPinned` |
| | `VerdictIsTrue` | `VerifySpec => VerdictTrue` |
| `InstallerProofs` | `InstallerInvariant` | `Spec => []InstallerInv` |
| | `InstallerTypeCorrect` | `Spec => []TypeOK` |
| | `EveryUpIsCounted` | `Spec => []EveryUpCounts` |
| | `DownConfirmsAimed` | `Spec => ConfirmsAimed` |
| | `InstallIsConsistent` | `Spec => []InstallConsistent` |
| `ZstdContextProofs` | `WindowInvariant` | `WinSpec => []WinInv` |
| | `HistoryStaysIntact` | `WinSpec => []HistoryIntact` |
| | `EntriesStayFaithful` | `WinSpec => []EntryFaithful` |
| | `OffsetsStayDecodable` | `WinSpec => []OffsetsDecodable` |
| | `IndicesStayBounded` | `WinSpec => []IndicesBounded` |
| | `CwkspInvariant` | `CwkspSpec => []CwkspInv` |
| | `WorkspaceDisjoint` | `CwkspSpec => []Disjoint` |
| | `WorkspaceContentsKnown` | `CwkspSpec => []ContentsKnown` |
| | `ContextInvariant` | `CtxSpec => []CtxInv` |
| | `EstimateIsEnough` | `CtxSpec => []EstimateSuffices` |
| | `FrameIsReady` | `CtxSpec => []ReadyForFrame` |
| | `ContextLeaksNothing` | `CtxSpec => []NothingLeaks` |
| `ZstdBlocksProofs` | `StepKept` | `BlkSpec => []BlkInv` |
| | `InStep` | `BlkSpec => []DecoderInStep` |
| `ZstdPipeProofs` | `PipeInvariant` | `PipeSpec => []PipeInv` |
| | `ZeroIsDone` | `PipeSpec => []ZeroMeansDone` |
| | `HistoryIsHeld` | `PipeSpec => []HistoryHeld` |
| | `DeliversBytes` | `PipeSpec => DeliversInOrder` |
| `Lz4StreamProofs` | `LzInvariant` | `LzSpec => []LzInv` |
| | `FitsRoom` | `LzSpec => []FitsItsRoom` |
| | `RealMatches` | `LzSpec => []MatchesAreReal` |

### The scripts

The assumptions are those named in `ZramKernel`, `ZramAlgo`, `BootFlow`,
`VerifyScript` and `Installer`: nobody is not a process, at least one CPU, finitely
many CPUs and devices, zram0 is one of the devices, sizes are positive, the three
processes of the boot are three, the temporary device is another one, at least one
poll per menu.

**Any interleaving** (`ZramAlgoProofs`). `TypeOK` and `StreamsPinned` are not
inductive: that rmmod leaves no stream behind needs to know that a stream of the
new driver belongs to a registered driver, which needs to know that an
uninitialised, unlocked device has no stream (else `comp_algorithm` could be
renamed under a living stream), which needs to know that the lock is held only on
an uninitialised device. These conjuncts are `KernelInv`. They are shown preserved
once per system call (`ModuleCallInv`, `DeviceCallInv`, `SwapCallInv`) under
preconditions on the caller; `ScriptInv` says what a script knows at each step
(zram0 exists once it is past the check, its size is positive, its insmod is
pending while it is inside one, it holds the lock exactly in the allocation), and
`StepIsKernelStep` says that every step of a script is one of those calls with its
preconditions met. `IInv == KernelInv /\ ScriptInv`.

For the swap, `StepEffect` sums up what any step of shell p can do to zram0: leave
it alone, take the swap down and be on duty, stay on duty, bring the swap up
complete, or fail. `DutyKept` concludes that a step without failure leaves
somebody on duty: the shell that acts, or one whose duty the step does not
touch. In particular whoever resets or re-initialises the device under another
shell takes over that shell's duty. `SwapIsKept` and every case of
`ImplementsService` follow.

**A run that overlaps no other** (`ZramAlgoProofs`). `Base` is `IInv`, what lies
between scripts (a module that is listed and not registered is inside somebody's
insmod) and how the two scripts of one shell fit together. `SoloInv` says of a run
that is not `disturbed` that nobody else runs, and what it has reached at each step:
which drivers are loaded, that the name it read is still the device's, that the
swap is off and the device reset, that each stream allocated so far came from the
lookup of its own algorithm. A step of the run itself carries its facts on
(`SoloInvOwn`); a step of another shell either cannot happen or marks the run
(`SoloInvOther`).

**Boot** (`BootFlowProofs`). `BootInv` has seven parts: `Base`; `Control` (where each
of the three processes may be at once); `SwapSurvives`; `GateInv` (what can have
happened behind a closed gate: nothing); `ServeInv` (when a kernel accepts the
`.ko` files and no call failed, both drivers are there from the end of
`post-fs-data.sh` on, and zram0, if it carries one of their names, has only their
streams); `ApplyInv` (the apply of `service.sh` is a solo run unless Perfinit comes
late, so what `SoloInv` says of such runs holds of it and is reused); and `NormalInv`.
That the device is served as chosen follows in two ways: by `ApplyInv` if the apply
rebuilt it, by `ServeInv` if it found the right name.

**verify.sh** (`VerifyScriptProofs`). `TempInv` is the life of the temporary device.
The verdict rests on `QuietInv`, about a verification that overlaps no shell: the
refcnts noted before are one for a registered module plus the number of its streams
on all other devices (`BeforeKnown`), all streams of the temporary device come from
the same lookup (`Uniform`), and what `pass` says of the tests that are over
(`PassTrue`). `RiseMeansServed` and `ServedMeansRise` are the two halves of the
question whether a higher refcnt means what the script takes it to mean; they
count with the cardinalities of finite sets, so they hold for any number of CPUs.

**Installer** (`InstallerProofs`). The mark is always the number of UPs seen since the
menu opened, modulo its options (`CountInv`), whatever is pressed between the two
counts of a poll; `AimInv` says that the mark does not move between the DOWN and the
poll that sees it unless that poll sees an UP too; `FilesInv` says what each menu
leaves for the next.

### The memory of the compressor

**Workspace** (`ZstdContextProofs`), for every alignment, capacity, base and request size.
`Disjoint` needs the order of the marks (`Shape`), which differs before and after
the phase of objects: then the end is rounded down to the alignment and the objects
may reach above `allocStart`. `Layout` adds where `initOnceStart` may be, `AreasWithin`
and `AreasApart` place the areas, `TablesKnown` and `OnceWritten` tie the marks
`tableValidEnd` and `initOnceStart` to what was written. `LendFromEnd` treats the three
reservations from the end at once.

**Window** (last part of `ZstdContextProofs`), for every memory, window, block and chunk size.
`HistoryIntact` is not inductive since it speaks of the indices a block may use; the
whole window must be intact (`Intact`), input that overlaps the older segment must
raise `lowLimit` first (`UpdateKeeps`), a correction must shift both bases and every
limit alike (`OverflowKeeps`), and a cell must have gone the same way or become 0
(`ShiftKeeps`, `ReducedFaithful`). `UpdateInv` keeps positions from being inserted
out of the older segment, whose bytes are not found at `base`. Two of the
assumptions are those of the code: `StartIndex > UnsortedMark` is asserted at compile
time (`Z/compress/zstd_compress_internal.h:1330`), else a shifted index could turn
into the mark; and `ZSTD_INDEXOVERFLOW_MARGIN` leaves room above a dictionary that is too
short to be hashed. `CurrentMaxAssumption` says that the range of the indices is large
enough for one window, one block and one chunk after a correction.

**Context** (`ZstdContextProofs`), for every set of profiles, every size of the C
types, every list of the optimal parser's areas and every address. The code checks
none of the reservations of `ZSTD_resetCCtx_internal` one by one: it relies on
`ZSTD_estimateCCtxSize_usingCCtxParams_internal`, a formula written elsewhere.
`EstimateIs` writes the estimate as objects + tables + match state + blocks + slack;
`ServesFrame` follows every reservation and shows that what is left is at most the
slack and at least 0, wherever the allocation lies. `ResetOutcome` lists what a reset
may come to (workspace kept, no memory, replaced, or static and refused) and
`CopiedOutcome` what a copy of a dictionary's tables adds. `CtxInv` then says
that a workspace a context has can be used whatever the last reset came to
(`WorkspaceInv`), that cells up to `tableValidEnd` hold no index that the frame has yet
to reach, also when `ZSTD_cwksp_clean_tables` had nothing to do (`FrameInv`), and who owns
what (`OwnerInv`, `NothingLeaks`). The assumptions (`ContextSizesAssumption`,
`ProfilesAssumption`) are what C gives: `sizeof` is positive, table sizes are powers of
two and multiples of the alignment, addresses are not NULL.

Requests are served by a fold. `CountUp` is counting up from 0, derived from the
well-foundedness of `<`; with it `ServeFollows` turns the fold into a function of the
number of requests served, so that lists of any length can be followed.

### The blocks of a frame

**Blocks** (`ZstdBlocksProofs`), for all lists of sequences that a match finder may store,
all reaches of the tables, both ways of choosing an encoding, and any number of blocks,
parts and sub-blocks. `DecoderInStep` speaks of the moments between two blocks, and of
errors that have not happened; what keeps them from happening is `BlkInv`:

- `Shared`: a table that the encoder may repeat, called valid or to be checked, is the
  decoder's table too, and the decoder knows that it has one. A block that comes out raw
  changes neither side; one that is compressed changes both.
- `Sufficient`: a table called valid has a symbol for every code the next block may need.
  For offsets this can be so in the first block only, which is why every block that is
  through, compressed or not, downgrades it (`Downgraded`).
- `Agree`: the two sides have the same last offsets, all three, or two in the fast
  strategies, which neither keep nor use the third. `DecodesAsMeant` is the single
  sequence: from histories that agree, the decoder finds the offset that was meant, and
  the histories agree afterwards. `SequencesDecode` carries it along a list.
- `PartsAre`, in a split block: `cRep` is what the sequences before this part lead to,
  `dRep` is what the decoder has. They may differ, after a part that was sent raw.
  `ResolvedCodes` shows that the sequences with their repcodes resolved mean to a decoder at
  `dRep` what the original ones mean at `cRep`, and that a resolved offset stays within
  the reach of the first block's table.
- `SubBlocksAre`, in a superblock: what the decoder will be after the sub-blocks written
  so far, if the superblock is sent at all. When it is given up, the decoder has not
  moved; when the rest is sent raw, it has moved by the sequences that were written.

The folds over sequences and sub-blocks are turned into functions of the number of
members folded, as in `ZstdContextProofs`. One bound is part of the statement: an
`offBase` is below 2^31, as an offset within any window is (`OffCode`).

### The streaming interfaces

**Pipe** (`ZstdPipeInvariant`, `ZstdPipeProofs`), for every way to cut input and output into calls, every
list of frames and skippable frames, with and without a pledged size, every window and
block size, stable input or buffered, and any allocation that fails.

*What is under way.* Input that went into the writer and has not come out of the reader
lies in the writer's `inBuff` and `outBuff`, on the wire, in the reader's `head` or
`inBuff`, and in the ring. `Underway` is all of it that is already in units of the
format; the rest is counted. A *place* says how far somebody is who reads the format: in
front of a frame, in its header, between two blocks, in a body, at the checksum, in a
skippable frame; how many bytes have passed; what the frame's header promised.
`Parses(p, units, q)` is reading `units` from the place p and coming out at q.
`UnderwayInv` then says: from a place that `Matches` what the reader knows, what is under
way leads to a place that the writer's state has led to (`LedTo`). That is what relates
two state machines of which neither sees the other. Every step of the writer appends
units that parse from where he was (`HeaderLeads`, `ContinuePasses`, `EndPasses`,
`SkipPasses`); every step of the reader takes off units and moves his place over them
(`ReadyToRead`, `OneMoves`, `BodyPassed`).

*The writer* (`CInv`). What his calls leave in `inBuff`, how `toCompress` and `pos` may lie
in it (`CRingInv`), that with stable input nothing is kept (`CStableInv`), that the pledged
size is the one that is given (`CPledgedInv`), and what a return value of 0 means for his
buffers (`CReturnInv`).

*The reader* (`DInv`). Which of his buffers are in use at which stage (`DStageInv`), what
of the ring is not flushed yet (`DFlushInv`), the idle calls in a row and the hostage unit
(`DCallInv`), and the ring itself (`DRingInv`). `DRoomInv`: outside of a frame that fits as a
whole, there is room for one more block whenever one is due. `DSegmentsInv`: once the ring has
started over, the older segment reaches at least a window, a block and two over-lengths
of a copy back (`Behind`), or it starts where the frame does. `DHistoryInv`: every byte
within the window is where `DAddress` says. `RingAfterBlock` shows that a block does not
disturb this: what it may write over lies further back than the window
(`AddressIs`), which is what the summands of `ZSTD_decodingBufferSize_internal` are for.

`HistoryIsHeld` follows from `DRingInv`; `ZeroIsDone` from `UnderwayInv`, since a writer who has
nothing left and a reader who has nothing left to read are at the same place; `DeliversBytes`
from `ReceivedWasGiven`: every byte received was decoded, every byte decoded had been
written, every byte written was given, and they came in order. The refinement is shown step
by step: a step of the writer gives bytes or stutters, one of the reader takes some or
stutters.

The assumptions are `HeaderSizeAssumption`, `CStreamAssumption` (`ZSTD_compressBound` leaves
room for the header, one block and the checksum at least), `DStreamAssumption` (a reader offers
some room whenever he calls; with none, 16 calls in a row are an error in the code) and
`SameBlockSize` (both sides are compiled with the same `ZSTD_BLOCKSIZE_MAX`).

### The lz4 compressor

**Lz4** (`Lz4Invariant`, `Lz4StreamProofs`), for every set of pages and dictionaries, every room, acceleration
and place in memory, every sequence of calls, and all hash functions.

*Room.* The code checks its output only when there is less room than `LZ4_compressBound`,
and before it knows what will follow. `Paid` is what makes that right: what has been written
of the bytes before `anchor` takes no more than those bytes and a 255th of them. A match
pays for its offset, its token and one byte of the literals' length (`PaysAdd`), so with the
whole bound the checks that are left out would never fail (`BoundTakesLiterals`,
`BoundNotTight`), and the last literals fit (`LastFits`). The copies write too much, but never
behind what must follow them (`CopyFits`, `WordsFit`): 8 bytes at once against an offset, a token and
`LASTLITERALS`. With `fillOutput` a match is cut so that the last literals just fit (`CutFits`),
and these are cut to what the room takes (`FillFits`). `FitsRoom` follows from `RoomSound` and
`DoneSound`.

*Matches.* The hash table is hardly ever cleared, so an entry may be an index of a block that
is long gone, and four equal bytes there prove nothing. `CellSound` says why none is
believed: an index below the history is one that the loop turns down, by `dictSmall` or
because the history has been moved 64 KB away from it (`LZ4_prepareTable`,
`LZ4_renormDictT`); any other lies in the history, at least `MINMATCH` before its end when
that is elsewhere in memory. `Behind` is what remains of this between two calls, and
`PlainReal`, `OwnReal`, `CopyReal` and `BothReal` establish it again for the four ways to
begin one: without a history, with the state's own, with the tables of an attached
dictionary copied, and with both tables consulted. `SearchKeeps` and `MatchKeeps` carry it
through the loop. A match that has been cut may end before what the table holds by then; `Spent`
says that no other match is written after it. `HistoryInv` is about the calls that change
where the history lies: the dictionary is in memory where the state says, or there is none.

The assumptions are what the sizes of the format have to do with each other
(`ParsingAssumption`, `RoomAssumption`), that hash functions return cells (`HashAssumption`), that
`LZ4_DISTANCE_MAX` is 65535 and the indices at which a table is cleared or shifted leave
room for two windows (`WindowAssumption`), and `LZ4_MAX_INPUT_SIZE` (`CallsAssumption`).

### Only model-checked

- Liveness (`ScriptsEnd`, `BootEnds`, `InstallEnds`, `FrameArrives`): fairness and ENABLED
  are beyond the prover.
- `LiteralsArrive`, `SequencesArrive`, `FoundTells`, `DecodesToPage`: their
  modules compute with RECURSIVE operators, for which the prover has no SMT backend, and
  what those compute for every input would take an induction over data.

## Not modelled

Scripts:

- Steps 0, 1 and 4 of `verify.sh`, which print and decide nothing, and a second
  `verify.sh` at the same time.
- `load_piano`, texts, logs, permissions, SELinux labels: no other part reads
  them.
- `kernel-check.sh` is its verdict; the extraction of vermagic from the `.ko`
  is text processing. That its verdict and the kernel's may differ is modelled
  (`accepts`).
- Sourcing `customize.sh` twice (its "install done" marker): an installer that
  does so gives the second call nothing to do.
- Build scripts and `tools/`.

Drivers and codecs:

- Corrupt input to the decoders: what is decoded was written by the compressor.
- In zstd: the optimal parser (`zstd_opt.c`), the row-based match finder, long-distance
  matching, external sequence producers, dictionaries searched in place
  (`dictMatchState`) in the match finders, the third last offset in the fast strategies,
  which never use it, the setters of parameters, `ZSTD_copyCCtx`, static decompression
  contexts, stable output buffers. Literals, sequences: more than 2048 sequences in a block
  (three-byte counts and the low-probability rule), output rooms too small for a section,
  symbols of equal large counts in Huffman's sort.
- In lz4: `lz4hc` (the Makefile does not build it), the decoder's fast loop (not in
  the arm64 clang build).
- The scatterlist copies of the drivers.

Three facts met while modelling, which no property is about:

- `ZSTD_cwksp_bump_oversized_duration(ws, 0)` in `Z/compress/zstd_compress.c:2076` asks
  whether the workspace is too large for nothing at all, which is always so: every frame
  counts, however well it fits, where `Z/common/zstd_internal.h:254` speaks of a workspace
  that is continuously too large. After 128 frames the first frame that needs a third
  of the workspace or less replaces it. The model does the same.
- `ZSTD_copyCCtx_internal` (`Z/compress/zstd_compress.c:2456`) does not look at the result of
  `ZSTD_resetCCtx_internal`; the model's `BeginFrameByCopying` is the other caller, which
  does.
- In lz4, `LZ4_prepareTable` clears the table for every input of 4 KB and more, and for
  every one-shot call with 32-bit indices. Stale entries of an earlier page can only
  meet the driver's pages when those are smaller.

## What could come next

Every safety property that a run checks, and that the prover can reach, is proved. What
would add to this project lies in the model: the optimal parser and the row-based match
finder beside `ZstdFast` and `ZstdLazy`, dictionaries searched in place, and corrupt
input to the decoders. The match finders' `FoundTells` and the sections' `LiteralsArrive` and
`SequencesArrive` could be stated of recursive functions in place of RECURSIVE operators, as
`ZstdBlocks` and `ZstdContext` do with folds; what would then be needed is an invariant for
each of their loops.
