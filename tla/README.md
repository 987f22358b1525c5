# Memclave in TLA+

Memclave is an in-memory enclave for UPMEM DPUs. A trusted loader (TL) that
stays on the DPU loads encrypted *subkernels*, one after another; up to 24
hardware threads ("tasklets") run the one that is loaded. A message subkernel
talks to the host, three more perform a key exchange, and the others are the
PrIM benchmarks ported to this setting.

This directory models the loader, the subkernel runtime and the synchronisation
of the benchmarks, checks the models with TLC and proves theorems about them
with TLAPS. Paths below are relative to the repository.

## 1. Inventory

| part | where | state | operations | interacts with |
|---|---|---|---|---|
| TL: loading | `src/core/core_load.S`, `core_mem.s`, `core_util.s`, `core_crypt.c`, `aead.c`, `core_scan.c`, `core_wram.s`, `core_iram.s` | image in MRAM and its copy `__ime_scratch_a`, IRAM, WRAM below and above `__ime_persist_start` | `ime_replace_sk`: thread check, wipe, push, tag, verify, decrypt, scan, load WRAM, load IRAM, pop, resume | called by every subkernel; reads `g_load_prop` |
| TL: threads | `core.s`, `core_thrd.s` | run bit and pc of every thread | boot, park, check, resume, fault | the runtime, which ends the tasklets |
| TL: ChaCha20 | `chacha.S` | run bits 24..27 as a counter, thread I/O words | a block under the system key (thread 22) or under a key of the caller | TL decryption, runtime cipher |
| TL: counter | `core.s:49-99` | four 32-bit words in thread 23 | next value; fault on overflow | runtime AEAD (IV) |
| TL: statistics | `core_stats.S` | - | timing output of test builds | - |
| Poly1305 | `src/poly` | 130-bit accumulator in limbs | add, multiply, reduce | TL and runtime AEAD |
| runtime: entry, exit | `src/ime-rt/boot.s`, `ime.c` | `__ime_tasklet_count`, its lock, SDK mutexes, `g_load_prop` | start and stop of tasklets, mutex reset, key wipe, call of the TL | TL threads and loading |
| runtime: barrier | `src/ime-rt/barrier.c` | count, done, leader, lock | `ime_barrier_wait` | NW, MLP, chacha-bench |
| runtime: cipher | `src/ime-rt/aead.c` | buffer in WRAM or MRAM, local block | `ime_chacha_*`, `ime_aead_*` | ChaCha20, Poly1305, counter |
| messages | `src/msg` | `__ime_msg_buf` | wait for the host; PING; LOAD_SK | host, TL |
| key exchange | `src/keyexchange` | `g_xchg_io`, `g_load_prop.key` | stages 1 to 3, each loading the next | host, TL, messages |
| first-stage loader | `src/fsl` | system key, index of the DPU, tags of the four images | seals the images of the key exchange and message subkernels, hands the secrets to threads 22 and 23, installs the TL | host, TL |
| tasklet barrier | `src/*/support/mc_sync.h` | sense, arrive slots, in one version init_done | `mybarrier_init`, `mybarrier_wait` | every benchmark |
| handshake | `src/{SEL,UNI,SCAN-*}/support/mc_sync.h` | mailboxes with epoch stamps | `handshake_init`, `handshake_sync` | SEL, UNI, SCAN |
| benchmarks | `src/<APP>/main.c` | partition of the input, partial results, for NW, MLP and BFS a command word | one or two kernels each | barrier, handshake, SDK mutex, host |
| barriers of their own | `HST-L/main.c`, `mbench/main.c` | group slots and sense; epochs | wait | their application |
| tools, experiment | `tools`, `scan.py`, `tpm_expt` | - | packing of images, host driver, attestation scripts | - |

What is hard about this system:

- *Bare-metal concurrency.* Threads share WRAM with no hardware atomics but the
  SDK mutex. The two barriers, the handshake, the tasklet count and the run-bit
  loop counter are all home-made.
- *Order and partial failure.* A load is a pipeline of nine steps over shared
  memory, in place, with a fault possible after each; secrets must be gone at
  some points and still there at others.
- *Timing.* The thread check relies on delay loops; barriers and prefix kernels
  rely on who reaches a line first.
- *Numbers.* Tails of buffers, lengths that DMA cannot move, counters built from
  bits, limbs with carries.
- *Protocols.* Subkernels call one another; the host may answer with anything.

What makes each part correct is stated as properties in section 3; the list of
hazards with their lines, and the property that watches each, is in
`PROJECT.json`.

## 2. Modules

The trusted loader and the runtime:

| module | models | state and actions against the code |
|---|---|---|
| `Rendezvous` | abstract: what `barrier.h:29-34` promises | tasklets gather, a full batch is released in one step, one member wins |
| `ImeBarrier` | `ime-rt/barrier.c` | variables are the fields of `ime_barrier`; one action per critical section (`Enter`, `SeeFull`, `CountDone`, `Lead`/`Follow`, `SeeAllDone`) and the unlocked `Reset` |
| `TaskletLife` | `boot.s`, `ime.c`, `core_thrd.s`, `core.s:14-47`, the resume loop | run bit and pc of each thread, whether its `r23` is -1 (`lneg`), count, lock; one action per critical section, `stop` or `boot` instruction and delay loop, and one each for the wait for the host and the way back from it (`SigReturn`) |
| `Loader` | `ime_replace_sk` and all that call it: `boot.s`, `msg`, `keyexchange` | one action per function the pipeline calls and per way a subkernel ends; memory by what it holds, WRAM in the two regions that `__ime_persist_start` may tell apart, MRAM with the scratch memory among the addresses |
| `FirstStage` | `fsl/main.c`, `boot.S` | one action per image sealed and per step of the hand-over to threads 22 and 23, beside the steps of those threads |
| `Counter` | `core.s:45-99`, its caller in `aead.c:104-108` | registers of thread 23, the I/O words, the polled word; one action per group of instructions of thread 0 or 23 |
| `ChachaRounds` | the loop control of `chacha.S` | `Program` is a table of the run-bit instructions; `Execute` interprets it |
| `ChachaCrypt` | `ime_chacha_crypt` of `ime-rt/aead.c` | `Read`, `Write`: one block by one tasklet; then the same call again to decrypt |
| `Aead` | the calls built on it in the same file | one action per pass over a buffer; sender, channel and receiver |
| `Poly1305` | `poly.c`, `poly.S` | one action per block; the limb arithmetic as operators |

The benchmarks:

| module | models | state and actions against the code |
|---|---|---|
| `SenseBarrier` | `mybarrier_*` of `support/mc_sync.h` | one action per access to the volatile object; constants select the version under MLP (`InitFlag`) or the other one; `late` remembers who had not read sense at the first flip |
| `GroupHistogram` | `HST-L/main.c` | extends `SenseBarrier`, whose algorithm `groupbar_wait` repeats; clearing and counting bin by bin between its waits |
| `EpochBarrier` | the barrier of `mbench/main.c` | one action per access to the epochs; an announcement that the initialisation clears is `Lost` |
| `PrefixSelect` | `SEL/main.c` and its handshake | one action per access to a mailbox, the epoch, the partial count; `overtaken` remembers who had yet to read the count when it was replaced; a transfer of length 0 moves `Wide` elements |
| `UniqueRounds` | `UNI/main.c` | the same rounds, with `overtaken`; a message, with its stamp, is one value |
| `PrefixScan` | `SCAN-SSA`, `SCAN-RSS` | both kernels on all DPUs and the host's sum in between, with `overtaken`; a handshake call is one step |
| `Transpose` | `TRNS/main.c`, `main_kernel2` | each access to a tile or to the done bits is an action |
| `Frontier` | `BFS/main.c` | per DPU and tasklet: sweep of the words, edges, mutex and read-modify-write of a bitmap word |
| `Wavefront` | `NW/main.c` | per block: load, compute, write back row by row |
| `MatVec` | `gemv/main.c`, `MLP/main.c` | per pair of rows: offsets, reads, shift, write |
| `BlockShares` | VA, RED, HST-S | per block, in the units that DMA moves (`Moved`, `LeftOver`), then the merge and the write |
| `BlockSearch` | BS | per probe of the bracket |
| `WindowSearch` | TS | per block of windows |
| `SparseRows` | SpMV | per nonzero: the tile of the input vector, its number (`inTile`) and its content (`inVector`); per row: the tile of results |

`MC*` are instances for TLC and `*Proofs` hold the theorems. `MCKernels` puts
one instance of each module of the second table, and of `Counter`, `Aead`,
`Poly1305` and `FirstStage`, side by side: its variable `kernel` says which of
them a behaviour belongs to, the variables `m1` to `m14` are shared, and each
property speaks of its kernel. A DPU has one program at a time, so nothing is
lost by it. The instances there are theorems about take their parameters from
constants of `MCKernels`, with an assumption each (`TrnsAssumption` and so on:
the operator `Sized` of the module); `MCKernels.cfg` gives the values for TLC.

How they compose. `TaskletLife` and `Loader` are two views of `ime_replace_sk`.
The first has the threads and takes the load as one step (`Load`); what it
proves, that no other thread runs then (`LoadIsExclusive`), is why the second has
tasklet 0 only. `ImeBarrier` implements `Rendezvous` (property `Promise`, by a
refinement mapping), and NW and MLP take `ime_barrier_wait()` as one step of all
tasklets for that reason. The other benchmarks take `mybarrier_wait()` as one
step; `RoundIntegrity` of `SenseBarrier` is why that is right while nobody is
late: between the last arrival and a return no tasklet touches anything but the
barrier. In the version whose slots start at 1 a tasklet may be late, and is one
wait behind from then on; what an application then computes is followed in
`GroupHistogram`, which has the barrier's own steps, and in no other module.
`Aead` takes a
pass over a buffer as one step, which `Sealed` of `ChachaCrypt` justifies, and a
value of the counter as fresh, which `IVsAreDistinct` of `Counter` does.

Definitions with the comment "Slip" are plausible bugs: the mutated form of the
definition that follows them. `PROJECT.json` names for each property a slip that
violates it.

### Abstractions and assumptions

- SDK mutexes are correct, so a critical section is one step. Volatile accesses
  are sequentially consistent: the DPU is an in-order single-issue processor
  with no cache.
- `boot` and `clr_run` set and clear a run bit and branch on its *old* value;
  `boot` of a running thread does nothing else. This is how the comments of
  `core_thrd.s` and the loop of `chacha.S` use them; the ISA is not in the
  repository.
- **Delay loops** (`TaskletLife`, `FirstStage`). The loops of
  `core_thrd.s:11-14` and `:22-25` outlast the few instructions on which a thread
  is certain to stop (`AboutToStop`), and nothing else: a thread elsewhere in its
  subkernel may run on across them, and the check then faults. `Delay1` and
  `Delay2` are waits for exactly those threads. The
  delay of the first stage for threads 22 and 23 may be too short; it checks
  afterwards that they have stopped, and faults if not.
- **Late tasklets** (`SenseBarrier`, `GroupHistogram`). The version with no
  `init_done` sets the slots to 1, which is what a first wait announces, so the
  first wait of tasklet 0 never waits (`mc_sync.h:43`). A tasklet that has read
  sense by the time tasklet 0 flips it is in step with the others. One that has
  not is in `late`: its k-th wait meets the (k + 1)-st of the others and its last
  one is never answered. The modules assume nothing about who comes when; the
  properties say how far a late tasklet falls behind (`Lag`, `RoundIntegrity`)
  and that the waits of all others end (`Returned`, `Through`). The applications
  presuppose that nobody is late, and the loader helps: it resumes the others
  before tasklet 0 goes on, and tasklet 0 has the initialisation to do. Modules
  that take `mybarrier_wait()` as one step inherit that. With `init_done` (MLP)
  nobody is ever late (`Punctual`); there `Sound` is an assumption about the
  constants and not about time.
- **Lost announcements** (`EpochBarrier`). mbench clears its words while the
  others spin for 100 iterations, after which they announce themselves. An
  announcement that is cleared is never repeated and all wait for ever (`Lost`);
  until then no round opens without all.
- **Overtaken tasklets** (`PrefixSelect`, `UniqueRounds`, `PrefixScan`). No
  barrier lies between the reads of `message_partial_count` (`SEL/main.c:106`)
  and its replacement by the last tasklet (line 112). A tasklet that reads it
  afterwards places its block too far, in the scans adds its round once more. The
  modules let it happen and remember who it was (`overtaken`); the properties
  say that nothing else is wrong for it: no later round, no total, and no place of
  another tasklet.
- **Transfers of length 0** (`PrefixSelect`). `SEL/main.c:108` writes even if a
  tasklet keeps nothing. A length is coded less one (`core_wram.s:7,26`), so this
  moves the longest transfer, `Wide` elements, over the places of the tasklets to
  its right. `Exposed` are those it may hit: they keep their places only if they
  write after it, and the property does not speak of them. UNI asks first
  (`UNI/main.c:144`).
- **Units of DMA** (`BlockShares`). VA, RED and HST-S have elements of 4 bytes,
  DMA moves 8. Of an odd length the last element is not moved: VA does not add
  it, RED and HST-S count what the block before left at its place in the cache
  (`LeftOver`), and HST-S does not write an odd last bin. `EachElementOnce` says
  exactly that. A length of one element is coded like one of length 0; sizes
  that leave a last block of one element are not in `Sizes`, and one bin is
  written since the longest transfer covers it.
- **Whole rounds** (`PrefixSelect`, `UniqueRounds`, `PrefixScan`). The input is a
  multiple of `BLOCK_SIZE * NR_TASKLETS`, so that all tasklets call the barrier
  equally often.
- **Prompt stop** (`Counter`). Thread 23 clears the polled word and then stops;
  `boot` of a thread that still runs does nothing. The model lets it stop before
  thread 0 calls again, one instruction against a return, a block of the cipher
  and a call. `Step` is the number of values of half a word, 2^16 in the code.
- The statics of a subkernel are 0 when it starts: `ime_wipe_user` and the load
  see to that (`NoDataLeftBehind`).
- `TaskletLife`: a fault halts the DPU, so the wait for the host is one step
  (`WaitForHost`) after which the thread starts at pc 0 with `r23` at -1 and goes
  back into `main` (`core.s:19`, `:44-47`). At power-on the registers are what an
  earlier program left, so any of the other threads may have -1 there; the first
  boot sends such a thread into the `main` it had, the second loop of the check
  finds it running and faults, or finds that it has stopped. The scan refuses
  instructions that change the run bits of other threads, so subkernels have
  none.
- `Loader`: an image is a record of what the steps can tell of it (its role, the
  key it verifies under, clean of refused instructions, magic word, size, whether
  its persistent section is larger than `g_load_prop`). The cipher is perfect: an
  image opens under its key and under no other. The key of zeros that
  `boot.s:23-29` leaves is a key like any other (`zero`), and an image may be
  sealed under it; what is in its place at power-on (`old`) matches no image, and
  the key that a client agrees on is not zero. `exchange` and `userKey` say what
  the two persistent objects hold. The stages share one boundary, as each has
  `g_xchg_io` and nothing else besides `g_load_prop`; an application has either
  that boundary or the higher one. Of the addresses a message may name, one is
  the scratch memory and one overlaps it: writing an image there tears the other.
  The host may exchange images at the sites in `HostSites` and send any message
  while the DPU waits for it, and at no other time.
- `ChachaRounds`: the quarter rounds are one step. `MaxRounds` follows a pass
  that runs on for one round more than it should. A user key is used only after
  a block under the system key, since the loader decrypted the subkernel; this
  is what leaves the run bits at 9, on which the user path relies.
- `ChachaCrypt` and `Aead`: a unit of data is 16 bytes; its content is the set of
  streams that it is exclusive-ored with, so that applying one twice cancels. A
  tag is what it authenticates. Messages of `Aead` have at most four units or a
  multiple of four, because of finding 3. The channel changes one thing (`Ways`).
- `Poly1305`: `LimbBits` scales the limbs, from 32, and with them the prime; the
  highest limb is not bounded.
- Data of the benchmarks is where it comes from: a tile is its old place, a sum
  the bag of what was added, a product the list of its terms. A comparison with
  the right bag or list is then a comparison with the right result, whatever
  the numbers are.
- The hosts of BFS, NW, MLP and the scans are not in the repository: the models
  have the counterpart the kernels expect (marked external in the map).

## 3. Runs

| run | instance | checks | shows |
|---|---|---|---|
| `barrier` | four callers of a barrier of three | `BarrierInv`, `ResetIsSafe`, `Promise`, `EveryBatchReturns` | batches of three, one winner each, though stragglers of one batch meet the next; whoever is counted returns |
| `tasklets` | 4 threads; each subkernel uses 1 to 4 | `LifeInv`, `LoadIsExclusive`, `ResetIsSafe`, `MainsComplete`, `NoSpuriousFault`, `NextSubkernelStarts` | the loader works alone; the forced mutex release is safe; a return waits for all tasklets; the next subkernel starts |
| `loader` | ten images (five genuine, an application that keeps data and is sealed under the key of zeros, four refused); the host exchanges the message subkernel and writes on and over the scratch memory | `LoaderInv`, `OnlyVettedCodeRuns`, `ImagesAreSealed`, `NoDataLeftBehind`, `KeyEndsWithMain`, `FaultHasCause`, `ReturnReachesMsg` | all checks passed by what runs, for this load; sealed images at rest, but for one loaded from the scratch memory itself, which stays there in plaintext and cannot be loaded again; an image over a part of the scratch memory is refused; lifetimes of data and key; no fault without a cause |
| `loader_exit` | genuine images | `ExitClearsSecrets` (violated) | finding 1 |
| `rounds` | 2 tasklets, 3 blocks under the system key, any number under user keys, one at a time | `RoundInv`, `TenRounds`, `EveryCallReturns` | ten double rounds per block, from any run bits at power-on |
| `rounds_parallel` | 2 tasklets at once | `TenRounds` (violated) | finding 2 |
| `stream` | 1 tasklet, 0 to 8 whole blocks, strides 1 to 3 | `StreamInv`, `Sealed`, `Restored` | each block once under its own counter; decryption restores |
| `stream_tail` | 1 tasklet, any multiple of 16 bytes | `StaysInside` (violated) | finding 3 |
| `stream_stride` | 2 tasklets, stride 2 | `SealedTogether` (violated) | finding 4 |
| `kernels` | below | below | every benchmark computes what it should, save what the properties name, and ends; both barriers hold; no IV repeats; what is opened is what was sealed |
| `histogram` | 3 tasklets | `ClearedBeforeCounted` (violated) | finding 5 |
| `poly` | limbs of 3 bits, key 3, accumulator 0, 2 blocks | `Reduced` (violated) | finding 6 |

The run `kernels`, property by property:

| property | kernels and instances | shows |
|---|---|---|
| `BarriersHold` | both versions of `mybarrier_wait` with 4 tasklets and 4 rounds; mbench with 3 and 3 | nobody leaves a round that others have not entered, a late tasklet being one round behind; slots and sense agree with the tasklets |
| `PrefixesAreRight` | SEL, 3 tasklets, 2 rounds, 0 or 2 elements kept of a block, longest transfer of 4; UNI, 3 tasklets, 2 rounds, blocks of two elements; SCAN-SSA and SCAN-RSS, 2 DPUs of 2 tasklets, 2 rounds | output in order, no mailbox of another round accepted; equal neighbours dropped across blocks, tasklets and rounds; a block gets what lies before it, no more and no less; a tasklet that is overtaken spoils what it writes itself, one that keeps nothing the places behind it, and nobody spoils a total |
| `TilesArrive` | TRNS, 2 tasklets, 2 x 4 tiles | one mover per tile, no cycle abandoned, every tile in its place |
| `LevelsAreDistances` | BFS, 2 DPUs of 2 tasklets, 8 nodes, three graphs | between turns the levels are distances in the graph |
| `Filled` | NW, 2 tasklets, 3 x 3 blocks, two jobs | the matrix of a job is complete |
| `ResultsStay` | BFS, NW | a level or a cell once computed is never spoilt by another tasklet |
| `CountedOnce` | VA, RED, HST-S, 3 tasklets, blocks of 4, 0, 7, 16 or 27 elements, 1, 3 or 5 bins in chunks of 4; HST-L, 3 tasklets, 4 bins | every element is counted once, in its bin, but for the odd last element and the odd last bin that DMA does not move; in HST-L, if nobody was late, no bin is counted in before all are clear |
| `RowsAreRight` | gemv and MLP, 2 tasklets, 0 to 10 rows of 1, 4 or 5 elements; SpMV, 3 tasklets, 0 to 10 rows | each product is of the right elements, whatever the alignment and whichever tile is kept |
| `SearchesFind` | BS, 2 tasklets, arrays of 2, 3 and 13 elements in blocks of 2; TS, 2 tasklets, shares of 4 and 12 windows, queries of 4 and 8 | the bracket keeps a block and the value; hits are published; the closest window is found |
| `Congruent` | Poly1305, limbs of 3 bits, two blocks, keys and accumulators around the boundaries | the accumulator is right modulo the prime, even where it is not reduced |
| `IVsAreDistinct` | counter, 2 DPUs, 3 calls, words of 16 values, starts before each carry | no IV twice, on any DPU |
| `CipherIsSound` | cipher calls, 2 messages of 1, 4 or 8 units, in place or not, unchanged or changed on the way | what is opened is what was sealed; a refused message leaves the buffer as it was; no two uses of one stream |
| `HandedOver` | first stage, images of 0, 1 or 3 pages | the loader accepts each image and finds key and index in their registers |
| `WaitsEnd` | the barriers, HST-L, mbench, counter, SEL, UNI, SCAN | every spin ends, in every round, but the last wait of a late tasklet and, in mbench, the waits after a lost announcement |
| `KernelsEnd` | BFS, NW, gemv and MLP, TRNS, BS | the kernels end, also those that take turns with the host |

A property that speaks of several kernels is a conjunction of named properties
of their modules. `PROJECT.json` names one slip for it; the other slips in the
modules violate the other parts.

Why the bounds are enough. The barrier with one caller more than it needs lets a
batch form while members of the last one are still reading `leader`; its state
does not grow with the number of rounds. Four rounds of the sense barrier make
both values of `sense` occur twice. Four threads have a first, a middle and a
last thread in each loop, and subkernels that leave some unused. The loader has
one image for every way to be refused, and the host changes a site with a fixed
role, one without, and one of which a load leaves only a part. In a handshake a first, a middle and a last tasklet differ; in the
second round each mailbox holds the stamp of the first and a sum that may have
been replaced too early, and the longest transfer of SEL reaches over the places
of two neighbours. A 2 x 4
transposition has fixed tiles and longer cycles on which both tasklets meet. The
graphs let two tasklets find one node, and two nodes of one word, at the same
time. Three blocks in a row give NW a diagonal with an inner block and both
halves more than one diagonal. The sizes of the partitions include 0, one, less
than a block, an odd number, and more than one round for each tasklet. The proofs
of section 5 remove these bounds for all modules but `Poly1305`. Every run checks for
deadlock but `rounds_parallel`, where a pass beyond `MaxRounds` is not followed.

Fairness. The DPU issues instructions of running threads in turn, so each thread
is weakly fair. `TaskletLife` takes the mutex with strong fairness: tasklet 0
pauses 1000 iterations between two polls (`ime.c:20`) and every other tasklet
takes the mutex once, so a waiting one finds it free again and again. `ImeBarrier`
also assumes that callers call again, as NW, MLP and chacha-bench do in each
round, and that a spinning caller is promised nothing beyond the barrier's
reopening: with more callers than `init` the others may fill it each time. In
`loader` the load and what a subkernel does of its own are fair and the host is
not: it may stop answering. In `TaskletLife` `main` returns, however often it
waits for the host before (strong fairness of `ReturnFromMain`), and a host that
is asked answers (`WaitForHost` is one step); that a subkernel does wait is not
assumed. In `kernels` every tasklet is weakly fair (`Moves`), and so are the steps that all
tasklets take together or with the host (`Meeting`): there, what is said about
the end of BFS, NW and MLP supposes a host that answers.

## 4. Findings

1. `loader_exit` - `keyexchange/stage3.c:31` says that leaving `main` clears all
   data in WRAM, key material included. The exit clears `g_load_prop` and the
   loader wipes below `__ime_persist_start`; the shared secret in `g_xchg_io` is
   above it and stays.
2. `rounds_parallel` - `aead.h:78-79` offers the stride so that threads can
   decrypt in parallel. The run bits are global to the DPU; when two threads
   leave their loop at once, one finds bit 27 cleared by the other, takes the
   counting path, and does an eleventh round.
3. `stream_tail` - `aead.h:13` asks for a multiple of 16; the last transfer is
   sized `len - i * 16` with `i` counting 64-byte blocks, so a length that is not
   a multiple of 64 (and above 64) writes up to 48 bytes behind the buffer.
4. `stream_stride` - with a stride every tasklet still starts at block 0, so the
   tasklets change the same blocks and leave the ones in between in plaintext.
5. `histogram` - `HST-L/main.c:116-125` waits twice so that the bins are clear
   before tasklets count. `groupbar_init` (`:46-47`) sets sense to 0 and the slots
   to 1, which is what a first wait announces (`:56-57`): tasklet 0 of a group
   passes its first wait alone and may count into bins that another clears
   afterwards.
6. `poly` - `poly.c:13` says of the test for the reduction that it assumes a
   value below 2^130, and `:26` that values stay below it. The multiplication
   folds what is above back once per partial product, and the last addition can
   leave a value of 2^130 or more. The test compares the highest limb with 3,
   finds 4, and the accumulator stays as it is. In limbs of 32 bits about one
   value in 2^126 leads there. `Congruent` shows that the value is still right
   modulo the prime; the bits that become the tag are not.

Three comments or choices of the code were met that are not precise though
nothing goes wrong. `barrier.c:54-57` says nobody queries the barrier after
`done` is at its maximum; a follower still reads `leader` then, and the reset is
safe because it finds 0xFFFF or a tasklet of a later batch, never its own id
(`Promise`). `core.h:49` says that the user key is wiped after use; it is wiped
when `main` returns, as `ime.h:9-14` says (`KeyEndsWithMain`). And the counter
faults when its fourth word overflows, after 2^112 calls, while the three words
that become the IV would repeat after 2^80; no DPU gets that far.

## 5. Proofs

All theorems but one are of the form `Spec => []P`, `Spec => [][A]_v` or
`Spec => R!Spec`, for every value of the constants that the named assumptions
admit. `StepTransposes` is a fact about numbers.

The loader and the runtime, and the barriers:

| module | theorems | assumption beyond the constants' types | argument |
|---|---|---|---|
| `ImeBarrierProofs` | `BarrierInvariant`, `ResetSafety`, `LeaderIsUnique`, `KeepsPromise` | - | `BarrierInv`: `count - done` is the number of tasklets between entering and counting themselves done, nobody is past the wait before the batch is full, the leader field names a member still inside. With `count = init` and `done = init` the set of those is empty: the reset is safe. Refinement: `Enter` maps to `Gather` or, for the last one, `Open`; `Follow` and `Reset` map to `Leave`; the rest stutter |
| `SenseBarrierProofs` | `SenseInvariant`, `RoundsAreKept` | `Sound`: slots that start at the value of sense go with `init_done` | each other tasklet is `Behind`, `Ahead` or `Freed` relative to tasklet 0, one that was late counted one wait further (`Lag`), which fixes its slot and local sense, except for the slot of one that is behind before the first flip; slots passed by the scan match |
| `TaskletLifeProofs` | `LifeInvariant`, `ExclusiveLoad`, `SafeReset`, `AllMainsComplete`, `FaultsAreCaused` | - | the count is one more than the number of others yet to be counted down (`CountOK`); a regular exit leaves only stopped or stopping threads (`ExitOK`); the check walks down the threads leaving each parked (`CheckOK`); only a thread that has run the `main` of this subkernel, or at power-on of an earlier one, has `r23` at -1, and it is not parked before it has used it (`WaitsOK`) |
| `LoaderProofs` | `LoaderInvariant`, `OnlyVettedCode`, `KeyLifetime`, `FaultsHaveCauses`, `ImagesStaySealed`, `NothingLeftBehind` | - | what is known grows with each step of the pipeline: which image it is and what it has passed (`Vetting`), which sites are open, where only the scratch memory can be open between two loads (`Sealing`), and whose data is left in each of the two regions of WRAM (`Wiping`); `keyed` tracks `userKey` |
| `ChachaRoundsProofs` | `RoundInvariant`, `TenDoubleRounds` | `Serial` | the run bits as a binary number against the rounds done, at each instruction; 9 between passes |
| `ChachaCryptProofs` | `StreamInvariant`, `SealsEveryBlock`, `RestoresTheBuffer` | `Solo` (one tasklet), `Whole` (whole blocks), `EachBlock` (every stride is 1) | blocks before `i` have their new form, the others the old |
| `RuntimeProofs` | `StageHandsOver` (first stage) | pages are counted in naturals | the tag that is stored is that of the blocks in front of it plus those sealed; the calls of one page join to those of the image (`BlocksJoin`), so the sequence the loader verifies is the one that was sealed |
| | `CounterInvariant`, `IVsNeverRepeat` (counter) | `Step` is even, at most `Step / 2` DPUs, at most `Step^5` calls | three words are the digits of a number that grows by `Step` with each call, modulo the range of three words; it cannot come round within `Step^5` calls. The lower half of the first word never changes, and tells the DPUs apart |
| | `CipherSound` (cipher calls) | there is a longest message, and none is empty | unit by unit, what a pass has been over is under the stream of its own counter, and the tag is over what was there; the values of the counter that a call uses are above those of all calls before |
| | `PrefixesStayRight` (SEL, UNI, SCAN) | at least one tasklet and, but for SEL, one block for each; SEL: a block has at most as many elements as the longest transfer; UNI: no block is empty or contains the sentinel, which the comment of `UNI/main.c` says of it | a round has three parts between its barriers. In the first all stamps are of earlier rounds; in the second the chain of handshakes has come to some tasklet, the boxes up to it hold the stamp of the round and what lies before their owner, and no box behind it has this stamp (`SelectInv`, `ScanInv`, `UniqueInv`); in the third each tasklet has what it needs, and those that have not used the count when it is advanced are in `overtaken`. What the others have written stays: in SEL and UNI an overtaken block lies behind all that its round should write, where only later rounds have their places and write over it, and the long transfer of a tasklet that keeps nothing reaches only those that are `Exposed`. The count is the sum over the blocks before the round: for SEL a number, for the scans a set of blocks, each once (`ScPlus`), and for UNI the length of the input so far without its repetitions, which grows by each block less its first element if that repeats the last one (`UnPlus`) |
| | `EpochInvariant`, `BarriersAlwaysHold` (mbench and both versions of `mybarrier_wait`) | at least one tasklet | in mbench the epoch of a tasklet says how many rounds it has entered, the release epoch is that of a round all have entered, and one whose announcement was cleared stays before the first of them; for `mybarrier_wait` the lemmas of `SenseBarrierProofs`, whose `Sound` holds of both versions |

The other benchmarks, all in `KernelProofs`:

| theorems | assumption | argument |
|---|---|---|
| `StepTransposes`, `MoveInvariant`, `EveryTileArrives` (TRNS) | at least one tasklet, row and column | `StepTransposes` is arithmetic: the expression of the source takes element `q * columns + r` to `r * rows + q`. From it the successor is a permutation of the tiles. `MoveInv`: a tile that is claimed is in its place or on its way in the hands of one tasklet, and one that is not still holds what it held; no cycle is abandoned before its last tile is claimed |
| `SearchesSucceed` (BS and TS) | BS: the array is sorted and has at least a block; TS: the slice is a multiple of the work of all tasklets, queries of whole blocks | BS: the first and the last block of the bracket are in the array and the value, if it is there, is between them; each probe keeps that and shortens the bracket. TS: the minimum so far is that of the windows before `i`, in each share; the shares cover the slice |
| `MatrixInvariant`, `MatricesAreFilled` (NW) | at least one tasklet, block and repetition | `MatrixInv`: every cell of a finished block, and every row of a block that is copied back so far, has its value; what a copy writes beside its block is either the value already there or a cell of a block that comes later. Blocks of one diagonal have different rows and columns, so their tasklets are apart; the three neighbours a block reads are of the two diagonals before |
| `SearchInvariant`, `LevelsAreRight` (BFS) | the nodes of a DPU are whole words; at least one DPU and tasklet | `SearchInv` is a conjunction over the DPUs: a step of one leaves the others' conjuncts alone (`BfsStep`). In a sweep the next frontier is what is left of the ring of the last level, word by word; while the neighbours are collected, the mutex keeps a loaded word equal to the one in memory, and an edge that has been looked at ends in a node that is visited or in the next frontier. At the barrier all edges have been looked at, so the frontiers together are the next ring (`BfsFound`) |
| `RowsAreComputed` (gemv, MLP, SpMV) | at least one tasklet; a read is an even number of elements, a row has at least one; SpMV: tiles of at least one element | `ProductInv`: a tasklet has written the rows of its share before `i` and holds, of the pair it is at, the rows before `pos`; an odd row starts one element into what was read, and `offset` says so. `RowsInv`: the tile in the cache is the one its number says (`CacheOK`), `sum` is the list of the first `nz` products of the row, the tile of results holds the rows since the last full one, and the shares of the tasklets lie one behind the other (`SpShares`) |
| `ElementsAreCounted` (VA, RED, HST-S, HST-L) | at least one tasklet, element of a block and bin; blocks and chunks of whole units of DMA, no last block of one element; in HST-L two waits and slots starting at 1 | `CountInv`: the blocks of the tasklets partition the input (`VaOwner`); all indices are even (`VaEven`), so only the block at the end is odd, and a tasklet has counted of its blocks before its index what `TimesBefore` says (`VaTimes`); the copies of a bin add up to that (`VaSums`), and a bin that is merged is not merged again. `HistogramInv`, on top of `SenseInv`: stripes are cleared between the two waits, nothing is counted before the second one returns, and if nobody was late all stripes are clear then, by `RoundIntegrity` |
| `ResultsAreKept` (BFS and NW) | both of the above | only a sweep gives levels, and only to nodes of the frontier, which have none; only a copy changes cells, and one that has its value is not written with another |

The invariants are needed in this strength because the properties are not
inductive: `ResetIsSafe`, say, is about where tasklets are, and a step of a
tasklet can only be judged by what the counters say about all of them.
`LevelsAreDistances` speaks of the moments between two turns, and says nothing
of what happens from one to the next.

Induction over data. The induction theorems of the library take an operator as
parameter and cannot be used here. Where an argument needs an induction all the
same (that `Ball` is a function on the naturals, that a bracket has a smallest
candidate, what a sum or a sequence made step by step is), it takes a least
counterexample: lemmas `Least`, `Largest` and `Induction`, from the
well-foundedness of `<`. A recursive function has its values because a function
with those values exists (`Sums`, `StepByStep`) and satisfies its equation.

Only model-checked:

- the liveness properties (`EveryBatchReturns`, `NextSubkernelStarts`,
  `ReturnReachesMsg`, `EveryCallReturns`, `WaitsEnd`, `KernelsEnd`), which are out
  of the prover's reach;
- `Congruent`, which is about limb arithmetic modulo a number: products of
  variables that the SMT solver does not decide;
- the strides 2 and 3 of `stream`.

## 6. Not modelled, and why

- *Statistics* (`core_stats.S`): timing output of test builds, which the code
  says is not for production.
- *Tools and the TPM experiment*: straight-line programs and shell scripts, with
  no loop, wait or retry; what they promise is what the tools they call promise.
- *The cryptographic mathematics* (quarter rounds, curve arithmetic, hashing, the
  random generator): a matter for test vectors, and mostly of mbedtls. Of
  `Poly1305` the final addition modulo 2^128 is left out.
- *Parts of benchmarks*: `main_kernel1` of TRNS moves a tile within the memory of
  one tasklet (its formula is `StepTransposes`); the DMA transfers mbench measures
  share nothing; the merge of groups of HST-L does nothing with the one group of
  the source. The small test subkernels exercise one function each.
- *Code that is not built*: `main_mlp.c`, `main_gemv.c`, the `main_bkp` versions,
  and `HST-L/support/memclave_mutex.h`, which only they use.

Much of the repository is none of the system's own logic, and the share of lines
the models stand for has to be read with that: of 19,891 lines 8,755 are two
copies of `mbedtls_config.h`; `support/mc_sync.h` has fifteen copies that differ
in a few lines, of which one of each version is modelled; and the headers
`timer.h`, `params.h` and `common.h` belong to the hosts of the benchmarks.

## 7. Plan

What would come next, most important first.

1. `Congruent` as a theorem: the limbs of `Poly1305` as one number and each step
   of the multiplication as an equation modulo the prime, with the products of
   limbs named so that what is left is linear.
2. One abstract prefix sum that `PrefixSelect`, `UniqueRounds` and `PrefixScan`
   implement, in place of three invariants of one form.
3. `ChachaCrypt` for every stride.
4. `EpochBarrier` and `SenseBarrier` as refinements of one round barrier, and the
   applications with the steps of the barrier in place of its promise, so that
   they follow a late tasklet as `GroupHistogram` does.
5. Inputs that are no multiple of `BLOCK_SIZE * NR_TASKLETS`, should a host be
   added that pads them or does not: the barrier of SEL then waits for tasklets
   that have left.
6. The merge of HST-L for more than one group.
