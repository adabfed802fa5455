# Verification of the KawPoW miner

TLA+ models of the miner in this repository, the TLC configurations that check
them on small instances, and TLAPS proofs of the theorems that hold for every
value of the constants. Paths are relative to the repository root (`src/...`
means the directory that holds this repository's own `src/` as `src/src/`).

    tlc -workers 4 -config MCKawPowHost.cfg MCKawPowHost
    tlapm KawPowHostProofs.tla

1. Inventory
2. The modules and how they correspond to the code
3. What each run checks
4. Bounds and fairness
5. What is proved
6. Where the code does not do what it says
7. What is not modelled
8. Plan

## 1. Inventory

The program is a stratum client with one receive loop (the *main thread*) and
one *mining thread* per configured CUDA device. The main thread owns the socket's
reading side and the job; the mining threads own a GPU each and write shares to
the same socket.

    main() ── owns ──> Config, KawPow, Stratum   (destroyed Stratum first)
    Stratum::run (main thread)
       poll/recv ─> line buffer ─> handle_message ─> process_single_message
                                                        │ mining.notify
                                                        v
                              KawPow::stop_mining, set_job (join, assign, spawn)
                                                        │ one std::thread per device
                                                        v
    kawpow_cuda_search(device): get_dag ─> loop { kernel launch, read result }
                                                        │ share
                                                        v
                              KawPow::submit_share ─> Stratum::submit ─> send(sock)

| component | state | operations | hard behaviour | what makes it correct |
|---|---|---|---|---|
| Mining engine, host side (`kawpow_host.cpp`, `kawpow.h`) | five job fields, `continue_mining`, the vector of threads, `stratum_client` | `set_job`, `stop_mining`, `start_mining_threads`, `mining_thread_main`, `submit_share`, destructor | job fields shared without a lock, read through `c_str()` pointers for a whole search; joins skipped when the flag is down; destruction order in `main` | a share goes out under the job it was found for; every thread is joined, once; every call returns; nothing is used after its destruction |
| Nonce search (`kawpow_kernel`, loop of `kawpow_cuda_search`) | result slot, mix buffer, `current_nonce` | launch, claim, write mix, read back, submit, advance | thousands of GPU threads on one slot; only the nonce is claimed atomically; 0 means "nothing" | shares are solutions with their own mix hash, once each; a launch with a solution yields a share |
| DAG cache (`get_dag`) | map of entries, its mutex, an epoch, pointer and mutex per entry, device memory | `try_emplace`, lookup, hit, replace, failure paths | two levels of locking, a map read without its lock, threads that share a device, allocation failures half-way, failures nobody looks at | a search has the DAG of its epoch; made once; no leak; no use after free |
| Receive loop (`Stratum::run`) | buffer, `buffer_offset` | poll, recv, cut into lines, carry over, reconnect | lines in any number of pieces, several at once, a full buffer, a connection lost in the middle of a line | lines are handled whole, once, in order; none is left waiting; connections are not mixed |
| Pool session (`connect`, `subscribe`, `authorize`, `submit`) | `sock`, state of the connection | connecting, handshake, reconnecting, sending shares | mining threads send on `sock` while the main thread closes and replaces it; send blocks, fails or raises a signal | the handshake comes before the session's shares; no share of a replaced job; a lost connection is noticed; no deadlock of send and join |
| Message splitting (`handle_message`) | positions, brace counter | find start, count, complete, incomplete | several, nested and cut-off objects in a line; strings | exactly the complete objects, once, in order |
| Message dispatch (`process_single_message`) | `current_target`, `session_id` | notify, set_target, responses, errors | malformed messages reaching rapidjson's assertions; state kept over a reconnection | job, target and session id follow what the pool has asked; a malformed job does not interrupt mining; only values of a wrong type end the process |
| Share encoding (`Stratum::submit`) | — | hexadecimal texts of nonce, header and mix | the header is converted to hexadecimal although it is already | the pool can read back what was found |
| Target arithmetic (`kawpow.cu`) | — | 256-bit division, parsing, formatting, comparison | carries, word and byte order | a nonce is accepted exactly if its digest is at most target / difficulty |
| Stand-alone validator (`kawpow_validator.cpp`) | — | hashes and compares inputs built into it | — | a demonstration, no part of the miner |
| DAG layout (`get_kawpow_dag_size`, `generate_dag_kernel`) | — | sizes, launch, indexes | 32-bit products, the last block of a launch | every item made once, in its own place, inside the allocation |
| Logger (`logging.h`) | `log_mutex`, `std::cout` | a temporary per line | the lock ends before the line does | lines are not mixed |
| Configuration (`config.cpp`) | pools, devices | `load` | missing members | defaults are in range |
| Process (`main.cpp`) | the three objects | start, exceptions, return, `exit(1)` | static and automatic destructors under running threads | nothing is used after its destruction |
| KawPoW hash functions (`kawpow.cu`, `keccakf1600.c`) | — | Keccak, FNV, KISS99, ProgPoW mixing | — | arithmetic; not a subject for a model checker |
| Unused code (`kernel.cu`, `hashing.cpp`, `cuda_miner.h`) | — | never called | — | — |
| Vendored code (`src/base`, `src/3rdparty`, third-party headers) | — | — | — | — |

The list of what is hard to test, line by line, is `hazards` in `PROJECT.json`;
every property below is there for one or more of them.

## 2. The modules and how they correspond to the code

Each component has one module, and `MiningEngine` states what one of them
promises another; `MC*.tla` and `*.cfg` hold its instances,
`*Proofs.tla` its theorems. `PROJECT.json` (`map`) names the source lines of
every definition. Definitions whose comment begins with "(Faulty)" are not part
of any specification: each is an action as a plausible bug would have it, used
to see that a property can fail.

**`KawPowHost`** — class `KawPow` and the control of `kawpow_cuda_search`. The
main thread's program counter `main` walks through `stop_mining` (`StopMining`,
`JoinThread` once per element, `ClearThreads`), `set_job` (`AssignField` once per
field, `EnableMining`) and `start_mining_threads` (`SpawnThread`). The
assignments are separate steps because mining threads might read between them;
whether they do is the question. `th[d]` is where device d's thread is:
`ThreadStart` (arguments evaluated; block number by value, strings as
pointers), `GetDag` (reads the seed), `Upload` (reads header and target),
`CheckContinue`, `RunBatch`, `SubmitShare`, `SendReturns`. A field holds the job
its value came from, so a mixture of two jobs is visible in `seen` and `shares`.
`RunEnds` and `DestroyStratum` are the end of `main`.

**`MiningEngine`** — the engine as the session sees it, and the promise
`KawPowHost` keeps: each device works on the present job or rests, a share is
offered under the job it was found for, the job changes while nobody works.
`KawPowHost` implements it (`ImplementsEngine`) with `work` the job a thread's
first field came from, `offer` the job id that `Stratum::submit` is reading.
`StratumSession`, whose engine is a reduced one, stays within the same promise
(`UsesEngine`): what it takes for granted is what the host side does.

**`SearchKernel`** — one search. `Launch`, `ReadNonce`, `Report`, `Advance`,
`LoopEnds` are the host loop; `Enter`, `Claim`, `WriteMix` the accesses of a GPU
thread to the result slot, in any interleaving; `StopMining` clears the flag at
any moment. The hash is a set `solutions`, chosen initially
and arbitrarily, nonce 0 included. No error code of CUDA is looked at:
`LaunchFails` is a launch that does nothing, `DeviceLost` an error that sticks to the
context, after which launches and copies do nothing (`ReadNonce` then leaves the 0
that `h_result_nonce` starts with, `Report` a mix hash nobody wrote and a slot
nobody emptied). `failed` is a history variable.

**`NonceSearch`** — what that search promises: nonces launch by launch, and of each
launch one share of its own (`Yield`) or, if it has no solution or failed, none
(`Pass`). `SearchKernel` implements it (`ImplementsSearch`), a launch lasting from
`Launch` until its share is submitted.

**`DagCache`** — `get_dag` for several threads, with CUDA's allocator as an
external set of addresses per device that may be reused after a free, with what was
written there, and may refuse. `LockMap`/`Emplaced` are step 1 of the code and
`LookedUp` step 2; `LookupCrashes` is the outcome the data race on the map allows.
`Hit` is the early return; `Miss`, `FreeOldDag`, `MallocDag`, `GenerateDag` the
replacement and `LightCacheFails`, `MallocDagFails`, `MallocCacheFails` its error
paths. `GenerateFails` is a copy, a launch or a kernel that fails, which the code does
not look at: the entry is brought up to date all the same (`UpdateEntry`), over what
the address held before or over words that are no DAG. `unmade` remembers where.

**`DagLayout`** — the functions behind `GenerateDag`: the size of an epoch's DAG and
light cache (`DagItems`, `CacheItems`), the launch (`Blocks`, `Lanes`), and the words
a GPU thread reads and writes, with products in 32 bits (`NodeIndex`,
`ItemPlace`, `ParentPlace`). It has no state.

**`DagGeneration`** — `GenerateDag` of `DagCache` in detail, over that layout. The host
goes through `UploadCache`, `Launch`, `Sync`, `FreeCache`, `UpdateEntry`; a GPU thread
through `ReturnAtOnce` (no item left for it) or `StartMix`, `MixParent` (once per
parent, any node of the light cache) and `WriteWord` (once per word, in any
interleaving with the others). A word of the DAG holds the item and the position it
was written for, so a word overwritten or out of place is visible. The copy and the
launch may fail and the device be lost (`LaunchFails`, `DeviceLost`), which the code
does not look at: get_dag then returns, and caches, a DAG that is not there.

**`StratumReceive`** — the loop of `Stratum::run`, byte by byte. `Receive(n)` is
poll and a recv of n bytes with the terminating NUL; `HandleLine` one turn of the
inner loop; `MoveRest` the memmove; `ReceiveNothing` and `ReceiveFails` the other
branches, with `Reconnect` (connect, subscribe, authorize, `buffer_offset = 0`)
or `End`. A byte is named by its connection and position, so that bytes lost,
repeated or mixed are visible.

**`LineStream`** — what that loop promises, without a buffer: `Handle` handles the
next whole line of the present connection, `Reconnect` forgets what is left of
it. `StratumReceive` implements it under `next <- taken - buffer_offset +
line_start + 1`.

**`StratumSession`** — the connection's life. `socket` is the state of what `sock`
names: `none` (closed descriptor), `created`, `dialing` (non-blocking connect),
`up`, `closing` (the pool has ended it), `reset` (an error is pending) and `broken`:
the error has been reported, or it is the EPIPE that answers a message sent to a pool
that had closed. `Delivered`, `Discarded`, `Refused` and `Killed` are what send does in
each (TCP on Linux, external): a pending error is returned once, to whichever call
comes first, `send` of any thread or `recv`, and only a send after that raises SIGPIPE.
Jobs are numbered in the order in which they are announced, and `announced` has the
connection each came on, so that the next job of the same connection is another job.
The engine is reduced to what `KawPowHost` shows of it: `SetJob` waits for every thread
to return and starts them all.

**`MessageSplit`** — `handle_message`'s two loops on a line of characters, with the
objects of the line by JSON's grammar as the reference.

**`MessageDispatch`** — extends `MessageSplit` by what happens to the objects found:
`Parse` or `ParseError`, and then one action per outcome of
`process_single_message`: `Notify` (with `StopMining` for a clean job, and `SetJob`),
`SetTarget`, `NameSession`, `LogOnly` and `Abort`, an assertion of rapidjson (this
build does not define `NDEBUG` and so keeps them). `NextLine` and `Reconnect` are
the receive loop. A message is a record of five members with typed values, as
rapidjson types them: a number is an int (`GetInt` returns), one that only a uint64_t
holds (a block number may be that) or any other, 1.0 among them; `GetInt` asserts on
the last two. `log`
is a history variable: the messages so far that ask for something, by the
protocol (`AnnouncesJob`, `SetsTarget`, `NamesSession`), not by the code's tests.

**`SharePath`** — from a difficulty to a share's text. `ParseMaxTarget`, `DivideWord`
(one turn of `operator/`) and `UploadTarget` are the host's; `LoadOperands`,
`CompareWord` (one turn of `is_less_or_equal`) and `CompareEnds` the kernel's;
`Submit` the formatting of `kawpow_cuda_search` and `Stratum::submit`. Words, digits
and radix are parameters, with 8, 8 and 16 in the code.

Interaction: `MiningEngine` is between `KawPowHost` and `StratumSession`, and
`SendReturns` in `KawPowHost` is discharged by `JobTaken` in `StratumSession` for a
pool that reads. `SearchKernel` is `RunBatch` and `SubmitShare` of one thread in
detail, and `SharePath` says which nonces are its `solutions`; `DagCache` is `GetDag`
of all threads, and `DagGeneration` its `GenerateDag`. `StratumReceive` delivers the lines that `MessageDispatch` handles,
whose `StopMining` and `SetJob` are `KawPowHost`'s calls.

## 3. What each run checks

Runs that pass:

| run | instance | properties |
|---|---|---|
| `host` | 2 devices, 2 jobs, clean or not, in any order and number | `ShareOfOneJob`: the job id and header of a share and all that its search read come from one notify. `ThreadsOnlyWhileEnabled`: skipping the joins when the flag is down is sound. `JobFrozenWhileMining`: no field is assigned under a running thread. `NoThreadAbandoned`: no joinable thread is dropped. `StopWindsDown`: once the flag is down each step of a thread brings it nearer to its join. `CallsReturn`: every call and the shutdown come to an end. `ImplementsEngine`: all of it is a `MiningEngine` |
| `search` | 3 GPU threads, mix hashes of 2 pieces, 3 launches, every set of solutions, any failure of a launch or of the device | `ValidShares`: what is submitted is a solution with its own mix hash, whole; `NoShareTwice`; `NoLaunchWasted`; `ImplementsSearch`: all of it is a `NonceSearch` |
| `dag` | threads on devices 0, 0 and 1, two epochs, room for two DAGs on device 0 and one on device 1, one failure of an allocation or a generation | `SearchHasItsDag`: a search has the DAG of its epoch, but for freed memory after a failure and for a DAG whose own generation failed; `GeneratedOnce`, `NoDagLeaked`; `NoMutexLeftBehind`: every way out gives the mutexes back; `GetDagReturns`; `TypeOK`, which bounds the keys of the map |
| `generation` | DAGs of 3, 4 and 5 items of 2 words, numbers below 8, blocks of 2 GPU threads, any parents, any failure | `AccessesInside`: nothing outside an allocation is read or written, however the indexes wrap; `CacheOutlivesReads`: the light cache is freed after the last read; `WholeUpToWord`: get_dag returns with a whole DAG exactly if it is not larger than the indexes can count |
| `receive` | a buffer of 4, streams of up to 4 bytes, 2 connections | `RefinesLines`, `NoLineLeftWaiting`, `LineHandled`, `BlamedForLongLine`: a living connection is given up only for a line that does not fit; `TypeOK` says that the NUL falls inside the buffer |
| `session` | 2 mining threads, 2 connections, 2 jobs on either or both of them, a send buffer of 1 | `HandshakeFirst`; `NewestJobOnly`: a share goes out only while its job is the one that is set; `LossNoticed`, `JobTaken`; `UsesEngine`: a job is replaced, by one of the same connection too, while no device works |
| `messages` | every line of up to 6 of 4 kinds of characters, then lines of one or two objects; 39 messages, 2 connections, 3 messages with an effect | `SplitsPlainObjects`; `StateFollowsLog`: job, target and session id are those the pool's messages so far ask for; `NeverLeftIdle`: a message without a job does not stop mining; `RightTypesNeverAbort` |
| `share` | numbers of 2 words of 4 binary digits, 16 targets, 4 divisors, every digest | `DivisionRight`, `ComparisonRight`, `SolutionsMeetTarget`, `ShareReadBack` |

Runs that end in a counterexample, one for each disagreement of section 6:
`host_lifetime`, `dag_dangling`, `session_sigpipe`, `share_header`.

The type invariants are theorems (section 5). Only those of `receive`, `messages` and
`dag` are run as well, the first because it bounds what recv may write, the last because
it says whose keys the map has.

`HandshakeFirst` and `NewestJobOnly` deserve a word. The mining threads are not
stopped when a connection is lost. Their shares, of a job of the old connection,
go out on the new one as soon as its socket exists, before subscribe and
authorize. What holds is weaker than one would wish: shares of a job announced
on a connection follow the handshake on it (`HandshakeFirst` speaks of those only),
and the shares of a job end when the next is set, the second of a connection as well
as the first, because set_job joins every thread before it assigns.

## 4. Bounds and fairness

Bounds are constants and guards, marked `bound` where they are tested.

- `KawPowHost` has none but the sets: jobs may arrive for ever, and the state
  holds only the present job, the shares (at most one record per job) and the
  threads. Two jobs suffice for a mixture, two devices for a join that waits
  while another thread submits.
- `SearchKernel`: three launches allow a share in the launch before and in the one
  after; three GPU threads allow one that claims, one that loses the claim and
  one that enters too late; two pieces allow a mixed mix hash. The proofs lift
  these bounds.
- `DagCache`: two addresses are the old and the new DAG, and let a freed one be handed
  out again with the old DAG in it; the second device has room for one, which is
  enough, for a DAG is freed before the next is allocated. With two threads on a
  device, one more on another and two epochs every pair of steps of get_dag occurs,
  on one entry and on two. One failure leaves both a dangling entry and a DAG never
  made; the proofs have any number.
- `StratumReceive`: a buffer of four holds a byte of one line, a newline, a byte of the
  next and the NUL; four bytes per connection overfill it. Two connections allow
  a rest to be carried over wrongly. The proofs lift these bounds.
- `StratumSession`: two connections are an old and a new one; two jobs replace each
  other on one connection or across the loss of it; one of them at a time waits to be
  received. A send buffer of one makes the second sender block; `MaxMessages` only ends
  the finding of shares. The proofs of safety lift these bounds.
- `MessageDispatch`: six characters hold two objects, one nested in another, a
  string, a brace in a string, and a cut-off object. After the first line the
  pool sends lines of one or two empty objects, which parse to any of the messages
  of `MCMessageDispatch`: two of every kind that has an effect, and the malformed
  ones that take another branch each. Three messages with an effect are a
  target, a job and a target, or a job between two. The proofs lift these bounds.
- `SharePath`: two words are one that decides and one that is carried into; four
  binary digits make two bytes of a word, so that byte order, word order and
  leading zeros all show. Every digest is tried. The proofs lift the bounds.
- `DagGeneration`: with items of two words and numbers below eight, three items leave
  room, four fill the numbers and five wrap; blocks of two leave a thread without an
  item at three and at five. Two parents are one that is read and one that is read
  after it. The proofs lift these bounds.

Fairness. `KawPowHost`, `DagCache` and `StratumSession` assume that the operating
system runs every thread that can run: weak fairness of each thread's steps.
A kernel launch ends (the kernel has no loop without a bound), so `RunBatch` is
among the fair steps. A mutex need not be fair: a thread takes each mutex once
per job. `SendReturns` is fair in `KawPowHost`; `StratumSession` replaces that by
the assumption `WF_vars(PoolReads)`, that the pool reads what it is sent, and it
is the only thing assumed of it: with a pool that stops reading for ever, `send` and
with it the join and the main thread wait for ever, in the code as in the model, and
neither `CallsReturn` nor `JobTaken` says otherwise. `Killed` is fair there because a
signal, once raised, is delivered. No fairness is assumed of jobs, of shares, of
failures or of the pool's closing. `StratumReceive` assumes that the main
thread runs and that handle_message returns, which is `CallsReturn`.
`SearchKernel`, `DagGeneration`, `MessageDispatch` and `SharePath` check safety only.

Deadlock is checked in every run; the states where the program has ended are
given a stuttering step (`Exited`, `Ended`, `Done`, `Crashed`), so that any other
state without a successor is an error.

## 5. What is proved

By TLAPS, for every value of the constants that satisfies the module's ASSUME.

**`KawPowHostProofs`** — any number of devices, any set of jobs. `TypeCorrect`;
`HostInvariant`, the inductive invariant; from it `ShareSafety`,
`NoThreadWithoutFlag`, and the action properties `FrozenWhileMining`,
`NoneAbandoned` and `WindsDown` (for `StopWindsDown`), and `HostImplementsEngine`: every step is one of `MiningEngine` or
leaves its variables alone. `ShareOfOneJob` is not inductive: it must be known that the
fields hold one job whenever threads may be there (`JobInProgress`), that what a
thread has read so far is what they still hold (`SeenIsCurrent`), that threads
in the vector are joined from the front and are all there are
(`HandlesInOrder`), and that the vector is empty whenever the flag is down and no
join is going on (`HandlesWhileEnabled`). The last is what makes the skipped
joins of stop_mining sound.

**`SearchKernelProofs`** — any width of a launch, any length of a mix hash, any
number of launches, every set of solutions, any failures. `SearchInvariant`; from it
`TypeCorrect`, `SharesAreValid`, `SharesOnce`, `LaunchesCount`, and
`SearchImplementsNonceSearch`: every step is one of `NonceSearch` or leaves its
variables alone. The invariant says that
a non-empty slot belongs to one thread, which is either writing its mix hash or,
in a launch that nonce 0 does not take part in, has written all of it
(`SlotInv`); that every launch behind the counter that holds a solution other
than 0 has been reported or has failed (`CoverInv`), by way of lemmas on quotients;
and that a launch that failed is behind the counter, or is the present one and then
has no thread that runs and a slot that is empty or cannot be read (`FailInv`).
Without the last a failed launch could be taken for one without a solution, or yield
the share of another. `ShareInv` is `ValidShares` without the exception for a share
whose mix hash is still to be copied.

**`StratumReceiveProofs`** — any buffer of at least two bytes, any stream.
`ReceiveInvariant`, `TypeCorrect`, `NoneLeftWaiting`, `LivingKept` (for
`BlamedForLongLine`), and `ReceiveImplementsLines`: the loop implements
`LineStream`. The invariant says that the buffer holds the last `buffer_offset`
bytes taken from the present connection, in order, and that while the loop waits
there is no newline among them; a full buffer is then an unbroken stretch.

**`DagCacheProofs`** — any number of threads, devices, epochs, buffers and
failures. `DagInvariant`, `DagTypeCorrect`, `SearchesOwnEpoch` (for
`SearchHasItsDag`), `NothingLeaked`, `MutexesReturned` (for `NoMutexLeftBehind`),
and the action property `NeverTwice` (for `GeneratedOnce`). The invariant says that a thread at work on an entry holds its
mutex (`LockInv`); that an entry is replaced only while it is not of the job's
epoch and searched only while it is (`EntryInv`), which keeps replacing and
searching apart although searching holds no mutex; that the old DAG is not
allocated any more when the new one is (`MemoryInv`); and that an entry nobody is
replacing, if it names allocated memory whose last generation has not failed, names a
DAG of its epoch, and does name allocated memory while nothing has failed (`LiveInv`).

**`DagGenerationProofs`** — any epoch, any sizes, any number of GPU threads, any width
of words that is a multiple of an item. Of the functions: `ItemsMadeOnce`: up to 256 GiB
each item is made by one GPU thread of the launch. `ItemsApartUpToWord`: items lie apart
and inside the allocation if and only if the DAG has at most 2^32 words; the constants
of the code reach that at epoch 1920. `CacheReadsInside`, `SearchReadsInside`: no kernel
reads outside what it is given. Of the threads: `TypeCorrect`, `AccessesStayInside`,
`NoReadAfterFree` (for `CacheOutlivesReads`) and `DagIsWhole` (for `WholeUpToWord`). The
invariant says who can be where at which place of the host (`PhaseInv`), that only
threads with an item are at work (`WorkInv`), and that in a DAG of at most 2^32 words
what a thread has written so far stays written, while in a larger one nobody reaches
word 2^32 (`FillInv`). That others do not disturb it is `WriteKeeps`: two places are
equal only if row and column are (`OnePlace`), and then the same is written. The
proof needs items of more than one word: the count of items is cut to 32 bits, and
with items of one word a DAG of exactly 2^32 would have none. It also takes the number
of nodes of the light cache, cut in the same way, not to be 0, which epoch 65472 would
be the first to make it.

**`StratumSessionProofs`** — any number of mining threads, jobs and connections.
`TypeCorrect`, `HandshakeComesFirst`, `OnlyNewestJob` and `SessionUsesEngine`. The
invariant ties the place of the main thread to the state of the socket
(`MainAndSocket`), says that a job announced on the present connection means its
handshake is over (`JobAndShares`), and that what is then still up has received
subscribe and authorize (`HandshakeSent`); and that jobs are received in the order in
which they were announced, each once, the one that is set being among those received
(`JobOrder`), without which the next job could be the present one again, and a job
of an old connection one of the new (`JobsKnown` says the like of what the pool has
received).

**`MessageDispatchProofs`** — any messages, any number of them, lines of any length.
`TypeCorrect`, `StateIsOfTheLog`, `RightTypesAreSafe`, `MiningGoesOn`, `ObjectsAreSplit`. The invariant
says that between messages the state is what the log leaves, and while one is
being processed what the log without its last entry leaves (`LogInv`); the lemmas
`TargetAdded`, `JobAdded` and `SessionAdded` say what one more entry changes, and
that the tests of the code accept what the protocol means by a job, a target and a
session id. `ObjectsAreSplit` (for `SplitsPlainObjects`) has an invariant of its own:
what was handed on so far are exactly the objects that end before `pos`, nothing is
open there, and inside the matching loop `brace_count` is what is open before `end`
and nothing was balanced since `start` (`HandedOn`, `Matching`).

**`SharePathProofs`** — any number and length of words, any radix, target, digest
and any divisor up to Base. `TypeCorrect`, `DivisionIsRight`, `ComparisonIsRight`,
`SolutionsAreRight`, the statement that a nonce is accepted exactly if its
digest is at most the target divided by the difficulty, and `ShareIsReadBack`. The lemmas say what the
positional notation of the model denotes (`NumberSplit`, `NumberOfDigits`,
`NumberOfParts`), by induction over sets of numbers from the well-foundedness of
the naturals; the invariant says that the quotient's upper words are the quotient
of the target's upper words (`Dividing`), that the text on the device denotes it
(`TargetUploaded`), and that the words passed by the comparison are equal
(`Comparing`). That a share is read back rests on `BytesReadBack`, for which `ShareAssumption` takes nonces to fit their width and mix
hashes to be bytes, as `uint64_t` and `uint8_t` do in the code.

Only model-checked: all liveness (`CallsReturn`, `GetDagReturns`, `LineHandled`,
`LossNoticed`, `JobTaken`), which is out of the prover's reach together with
ENABLED. Every safety property of the passing runs is a theorem, and two of them are
the half of a liveness property that can be proved: `StopWindsDown`, that each of the
threads `CallsReturn` waits for is a bounded number of its own steps from its join, and
`NoMutexLeftBehind`, that a mutex `GetDagReturns` waits for is held by a thread that
waits for no other.

## 6. Where the code does not do what it says

Each is a run whose counterexample TLC finds; `findings` in `PROJECT.json` quotes
the lines.

- `host_lifetime`: `main` destroys the Stratum object before the KawPow object
  that joins the mining threads, so a share can be submitted through a dangling
  pointer when `run` ends.
- `dag_dangling`: an allocation that fails after the old DAG was freed leaves the
  entry naming it.
- `session_sigpipe`: a send on a connection whose reset has been reported already, or
  that the pool had closed and then answered by a reset, or on the new socket before it
  is connected, raises SIGPIPE and ends the process that was about to reconnect. (The
  first send after a reset that comes by itself returns ECONNRESET and is only logged.)
- `share_header`: the job's header, hexadecimal text already, goes into a share as
  the hexadecimal codes of its characters, under a comment that says it is
  rebuilt as a hexadecimal string.

Further deviations are in the models as they are in the code, and are named by
the properties that hold in spite of them:

- The map of DAG caches is read without the mutex under which another device's
  thread inserts. `DagCache` has the race (`LookupCrashes`), which can occur only until
  every device has had its first job; no property excludes it, for it does occur.
- A copy of the light cache, a launch or a kernel that fails is not noticed in get_dag:
  the DAG that was not made is cached for its epoch, and an older one may be there
  (the exception of `SearchHasItsDag`; `WholeUpToWord` has it in detail).
- 0 means "nothing found", and nonce 0 is searched: its share is lost, and a second
  solution of that launch finds the slot free, so that two mix hashes are written
  over each other (the exceptions of `ValidShares` and `NoLaunchWasted`).
- A line that fills the buffer makes recv return 0, which is taken for the end of
  the connection (`BlamedForLongLine` says that nothing else does).
- Braces in strings are counted (`SplitsPlainObjects` excludes such lines; their
  pieces are parse errors or objects of their own).
- A response whose id is null, a string, or a number that no int holds (3000000000, or
  1.0), an error whose code is none that an int holds (20.5), or a method that is no
  string ends the process. `RightTypesNeverAbort` counts as right only ids and codes
  that are whole and fit an int, as those do that the miner itself sends; a block number
  may be anything.
- A target set by the pool after a job is not applied to that job
  (`StateFollowsLog`), and none of them is ever compared with: the search
  overwrites it by a constant (`SolutionsMeetTarget`).
- Up to the end of a lost connection's job, its shares go out on the new
  connection, before the handshake (section 3).

Read in the code and outside every model: the DAG words that kawpow_kernel reads
go into `dag_lookup_state`, which nothing reads, so no share depends on the DAG;
the odd words of its mix hash are constants, since only even indexes are mixed
in.

## 7. What is not modelled

- The hash functions and the contents of light cache and DAG: arithmetic on words
  whose only effect on control is whether a nonce is a solution.
- The grammar of JSON, of URLs, and the texts of subscribe and authorize. A
  message is what the code reads of it.
- Configuration (`config.cpp`): read once, before any thread exists, without state
  of its own; what it can yield (repeated devices) is a constant of the modules. That
  `getPools()[0]` is read of a list that may be empty (`src/src/stratum.cpp:109`) is a
  hazard outside every model.
- The stand-alone validator (`kawpow_validator.cpp`): a demonstration whose inputs are
  built into it. It compares 32 bytes whatever the target has; its target has 57 digits,
  which makes 29, the last of them of one digit. What it answers is undefined, and no
  other input reaches it.
- The logger: its lock covers the prefix of a line only, so lines of several
  threads mix; nothing depends on the log.
- The static destructors that `exit(1)` in connect runs under running threads: in
  `StratumSession` the process ends there.
- `initialize_kawpow_constants`, `kernel.cu`, `hashing.cpp`, `cuda_miner.h`: never
  called.
- Vendored code, which is all but about 1600 lines of the tree (`src/base`,
  `src/3rdparty`, the third-party trees under `src/include`): the miner calls
  rapidjson and little else of it. The map therefore covers most of the miner's own
  control and next to nothing of the tree as a whole.
- Errors of the CUDA calls that set up the search, after get_dag and before the loop:
  the code does not look at them. In the loop a launch may fail and the device may be
  lost; one copy that fails by itself, on a device that goes on working, is not modelled.
- Memory models: GPU and CPU accesses are sequentially consistent. The one race the
  C++ standard leaves undefined and the code contains, on the map of DAG
  caches, is a nondeterministic outcome (`LookupCrashes`).

## 8. Plan

The order followed was that of importance: `KawPowHost`, `SearchKernel`, `DagCache`,
`StratumReceive` with `LineStream`, `StratumSession`; then `MiningEngine` between two of
them, `MessageDispatch` over `MessageSplit`, `SharePath`, `DagLayout`; then `NonceSearch`
over `SearchKernel` with its failures, and `DagGeneration` over `DagLayout`; each with its
proofs.

Worth doing next: an abstract `get_dag` that `DagCache` implements, one device at a time
and without its two levels of mutexes, and the set-up of the search's buffers between
get_dag and the loop. Everything else that is left is in section 7.
