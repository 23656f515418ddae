# AOS_LAB in TLA+

Specifications, model-checking runs and proofs for the programs of this
repository: loaders and demand pagers for ELF executables (`AOS3`), a network
file system over FUSE, UDP and scp (`AOS2`), and a set of memory-access
measurements (`AOS1`). File names below are relative to `src/`.

## 1. Inventory

### Demand pagers: `AOS3/dpager.c`, `AOS3/hpager.c`

*State.* The protection and contents of the loaded program's pages (kept by the
kernel), the program headers `phdr`, the descriptor `fd` of the executable, the
counter `totalsize`.
*Operations.* `main` reads the headers, installs `segv_handler` for SIGSEGV,
builds a stack and jumps to the entry point without mapping anything. Every
first touch of a page faults; the handler finds the segment of the address,
maps one page (dpager) or `PREFETCH` pages (hpager, addresses at or above
`0xa100000`) with `MAP_FIXED`, reads the file's part with `pread`, and sets
the protection of the first page. The kernel then runs the instruction again.
*Interaction.* The program and the handler share the address space; the only
call between them is the fault. The kernel's own accesses (a `read` into an
untouched buffer) do not fault but return `EFAULT`.
*Hard.* The handler runs between any two accesses, in an order the program
decides; it maps over what is there; the results of `pread` and `mprotect` are
not looked at; the boundaries (end of the file's part, segments that begin
inside a page) are arithmetic no test of the repository reaches.
*Correct when* the program sees the memory its file describes, whatever the
order of its touches: no store undone, no stale or foreign byte, no access
against the segment's flags, no access the headers allow left faulting forever.

### Eager loaders: `AOS3/apager.c`, `AOS3/loader.c`

*State.* The address space, the loop's counter, the address `atphdr`.
*Operations.* A loop of `main` maps, for each PT_LOAD header, the file's pages and
zeroed pages behind them; `apager` clears the rest of the last file page and
calls `mprotect`. *Hard:* `MAP_FIXED` over what an earlier header left; the rounding
of the two sizes; a failed `mmap` is printed and the loop goes on.
*Correct when* every segment is in place, with its rights, at the jump.

### Initial stack: `main` and `build_stack` of the four loaders

*Operations.* `main` reads the headers and writes `argv[1]` over the last part of
`argv[0]`; `build_stack` maps a stack, clears it, and copies `argc`, the arguments, the
environment and the auxiliary vector. *Hard:* `memset` clears beyond the stack it
mapped; the two strings of the `strcpy` lie next to each other and may overlap; a
name without a `/`. *Correct when* the program finds its environment and its
vector, and nothing else is overwritten.

### Datagram protocol: `AOS2/client_fs.c` (`send_through_net`), `AOS2/server_fs.c`

*State.* At the client, a new socket per call; at the server, one socket, one
thread, and the handler it is in.
*Operations.* A call sends an opcode, a path and, for some operations, more,
each in a datagram of its own, then waits for one to three replies. The server
reads an opcode, dispatches, and the handler reads its arguments from the same
socket, runs a system call and answers the sender of the last datagram.
*Interaction.* All clients send to the one socket; nothing ties a datagram to
its call, nothing is sent again, nothing times out.
*Hard.* Datagrams of different clients mix; a loss shifts what follows; both
sides must count the datagrams of every operation, in success and failure, the
same way; a client can be killed in a call; `strtok` can end the server.
*Correct when* a call takes effect once, with its own arguments, and returns
its own result.

### Open files: `AOS2/client_fs.c` (`xmp_open`, `xmp_read`, `xmp_write`, `xmp_release`)

*State.* The server's files, a copy of each opened file in `/tmp` named by a
hash of its path, the mount's open handles, its open descriptors.
*Operations.* `open` copies the file in with scp and opens the copy (and never
closes it), `read` and `write` use the copy, `release` copies it back, whether
anything was written or not. The kernel sends RELEASE some time after `close`.
*Hard.* Copies grow stale; a late RELEASE meets a new open; scp is not atomic,
runs next to other mounts', may fail, and its status is dropped; the
descriptors run out; a call waits for its answer without a timeout; `hash_path`
gives some pairs of paths one name in `/tmp` (`/ab` and `/bA`).
*Correct when* users who keep off each other's files see plain files, and what
was closed is sent back.

### Name-space operations: `client_fs.c`, `server_fs.c`; `AOS2/src/bbfs.c`

*State.* The tree that is handed on (of the server below `ROOTPATH`, for bbfs of a
directory of the same machine); for bbfs the descriptors and directory streams in
`fi->fh`. *Operations.* Each handler prefixes its path and runs one system call. libfuse
stands between: it gives a file that is deleted or replaced while it is open a secret
name and deletes it at the last release. *Hard:* what becomes of an open file's name,
and how much of that shows; descriptors opened and closed along three paths (open,
mknod, opendir); a directory stream that is never rewound; arguments that are changed on
the way; a refusal that is answered with success.
*Correct when* the mounted tree behaves as a POSIX tree, but for weaknesses one can
list.

### Measurements: `AOS1/open_read_perf.c`, `comp.c`, `test.c`

*State.* A group of performance counters, a mapping, the four words of the
pseudo-random generator, a forked competitor for memory. *Operations.* Open the
counters, map, fork, flush the cache, reset and enable, walk over the memory
sequentially or at random, disable, read, kill the competitor. *Hard:* signed words,
arithmetic shifts and the sign of `%`; the wrap of the walk; `malloc` whose NULL is
compared with `MAP_FAILED` only; error exits after the fork. *Correct when* the walk stays in
its memory, what is printed counts the walk and nothing else, and nothing is
left running.

### The rest

| Code | Why it is not modelled |
|---|---|
| `AOS2/src/client_fs.c`, `AOS2/src/server_fs.c` | the prototype: its one remote operation, getattr, takes the opcode's value for an address and does not work; all other handlers are those of `bbfs.c` |
| `AOS2/fusexmp.c` | FUSE's example with the beginnings of a remote getattr; does not compile |
| `AOS2/src/log.c` and headers | formatting |
| `AOS2/client.c`, `server.c`, `network.c`, `EXP3.c`, `testcode.c` | a UDP greeting, a traffic generator, tests |
| `AOS3/gemm.c`, `hello.c`, `touchsome.c`, `testsimple.c`, `*.asm` | programs to load |
| the other programs of `AOS1` | copy, map or print; no control of their own |

## 2. Modules

| Module | Models | Kind |
|---|---|---|
| `Pages` | pages, headers, rights: what the four loaders share | operators |
| `ProgramMemory` | what a loaded program may rely on | abstract specification |
| `DemandPager` | `dpager.c`, `hpager.c` | detailed; implements `ProgramMemory` |
| `EagerLoader` | the loops of `apager.c`, `loader.c` | detailed |
| `InitialStack` | `main` and `build_stack` | detailed |
| `AtomicCall` | what a caller of `send_through_net` may rely on | abstract |
| `UdpRpc` | the datagrams of `client_fs.c` and `server_fs.c` | detailed; implements `AtomicCall` |
| `PlainFiles` | what users expect of file contents | abstract |
| `FileSessions` | open, read, write, close, release with scp copies | detailed; implements `PlainFiles` |
| `Trees` | directory trees and what Linux allows on them | operators |
| `PosixFiles` | a mounted file system, up to listed weaknesses | abstract |
| `PassThrough` | the name space and the open files of bbfs and of the network file system | detailed; implements `PosixFiles` |
| `Xorshift` | `simplerand`, `%`, words as sets of bits | operators |
| `MemAccess` | `open_read_perf.c`, `comp.c`, `test.c` | detailed |
| `MCDemandPager`, `MCEagerLoader`, `MCInitialStack`, `MCUdpRpc`, `MCFileSessions`, `MCPassThrough`, `MCMemAccess` | small instances | model checking |
| `PageProofs` | lemmas about `Pages` | proofs |
| `DemandPagerProofs`, `EagerLoaderProofs`, `UdpRpcProofs`, `FileSessionsProofs`, `PassThroughProofs`, `MemAccessProofs`, `InitialStackProofs` | theorems | proofs |

The components of the network file system meet in three places. `UdpRpc` says
of a call only whether it succeeds; `PassThrough` takes a call for one step,
which `ImplementsAtomicCall` entitles it to for one client and no loss;
`FileSessions` has the contents of open files and their copies, `PassThrough` their names:
there a copy may hold anything (weakness `copies`). The
stack that `InitialStack` builds and the memory of `DemandPager` and
`EagerLoader` are disjoint.

Definitions whose comment begins with "Slip" are plausible mistakes; no
specification uses them. They are there to show that each property fails when
the code is wrong in that way.

### DemandPager

One access of the program is `pending` at a time. `Load`, `Store` and
`SyscallRefused` are the hardware and the kernel; `segv_handler` has three
outcomes, one per way out of the function: `HandlerExits` (null pointer, or
`mmap` failing), `HandlerGivesUp` (no header serves the address: return, and the
same fault again), `HandlerServes` (`MapAndFill`: the `mmap`, the `pread` of
`CopySize` bytes, the `mprotect` of the first page only). The handler is one
step because the program, single-threaded, is stopped while it runs. `prot`
being `{}` means not mapped. `Prefetch = 1` is dpager; `Prefetch = 3` with a
threshold is hpager: the two handlers differ in nothing else.

Abstractions: pages are a few bytes; `pread` reads all it is asked for or nothing
(hpager's run lets it fail), and `mprotect` of the page just mapped succeeds: neither
result is looked at by the code; `totalsize` stops at `MaxTotal`; instruction fetches
are accesses of kind X. The page tables' rule that a readable page may be fetched from
on some machines is left out: `Rights` gives exactly R, W, X. The pager's own text and
data and the stack lie outside `Addr`.

The handler does not build what ELF prescribes: it counts `p_filesz` from the
start of the segment's first page. `LoadedImage` is what it builds, `ElfImage`
what the format asks for; theorem `TailGap` bounds the difference (the last
`PAGE_OFFSET(p_vaddr)` bytes of the file's part read as zero) and
`DpagerImplementsElf` shows there is none for page-aligned segments. In the
executables of `AOS3` the code and the data at `0xa100000` are aligned; the small
read-write segment between them (`0xab6120` in `simple.exe`) is not, nor is the
data of `test1.out`, which the handler does not load at all.

### EagerLoader

`SkipHeader` and `LoadHeader` are one round of the loop, `Enter` the jump. `LoadHeader`
is the whole body: `MapFile` (the `mmap` of the file's pages; in apager the `memset` of
`FileTail` and the `mprotect`), then, if `p_memsz > p_filesz`, `MapBss`. Each `mmap` may
fail (at most `MaxErrors` in a run): it is printed and the rest of the body still runs,
which may fault (`crashed`) where nothing is mapped or not writable. `program` chooses
between apager and loader, which differ in the rights of the first mapping, in the
clearing and in the `mprotect`; after a failed `mmap` the `mprotect` changes what lies
before the first hole (`UpToHole`). Only `loader` passes `atphdr` on as AT_PHDR;
`apager.c:95` passes 0, so `HeadersFound` speaks of `loader` alone. The properties hold
for headers as the System V ABI wants them (`WellFormed`: ascending, each with pages of
its own, offset and address alike modulo the page size): that is what linkers write. A
header with no bytes in the file is passed over by the code even if it has a `.bss`; the
model does so too. `loader.c` leaves the file's next bytes in front of `.bss`;
`ExpectedByte` says so rather than calling it zero.

### InitialStack

`ReadHeaders`, `CopyName` (the `strcpy`), `MapStack` (the `mmap` and the `memset`),
`PutArguments`, `PutVariable`/`EndEnvironment`, `PutAuxiliary` and `EnterProgram` follow
`main` and `build_stack` from top to bottom. The function stands in four copies
(`apager.c`, `loader.c`, `dpager.c`, `hpager.c`) that are alike but for `atphdr`; each
definition is mapped to one of them. Memory is modelled where code writes beside
what it should: the strings the kernel passed, one behind the other (`StrCpy` copies
byte by byte from the front, onto what may overlap; C leaves this undefined,
and this is what a copy in ascending order does), and the large mappings, in units
of 64 MB, which the kernel places one below the other. Character codes are
numbers, addresses an offset from `StringBase`. A fault before the jump
ends apager and loader; in dpager and hpager the handler is installed by then,
finds no header, returns, and the instruction faults for ever (`looping`).

`PutArguments` loses `argv[2]`, the first argument the user gives the program, and leaves a
zero in the last place: the C code copies `argc - 2` pointers from `argv[2]` on, then
puts `argv[1]` over the first. No text of the repository says otherwise, so it is
modelled and no property calls it wrong; `EnvironmentFound` shows that what comes
behind is found all the same, since `argc` and the address agree.

### UdpRpc

`Sends`, `Takes`, `Gives`, `Follow` are, per operation, the datagrams the client sends,
how many the handler reads, what it answers and how many more replies the client waits
for: the protocol is nowhere written down but in these two switches. `Call`, `Send`,
`Recv` are the client, one datagram a step; `ServerReadsOpcode`, `HandlerReads`,
`HandlerExecutes`, `HandlerCrashes` the server. What a handler does to the file system
is reduced to `ok`. A datagram read as something it is not may be anything its bytes may
hold (`ReadAsOpcode`, `ReadAsJoined`, `TakenForSuccess`): a path begins with '/' and is
never an opcode, a file mode can be any. Datagrams reach the server in one queue; UDP
could also reorder them, which on the single link this was written for it does not. A
mount is one client, since it is started with `-s` (`AOS2/README`). Each call has a
socket of its own, and the model takes its address for new: the kernel chooses the port,
and might choose that of a closed socket again while an old answer is under way; this is
left out.

`executed` and `answers` are history variables; `Atomic` maps them to what the
server ran and what the calls returned, each with whether it was the call's own.

### FileSessions

`OpenCall`, `FetchBlock`, `OpenCopy` are `xmp_open`: the call, scp block by block while
other mounts go on, and the `open` whose descriptor leaks. `ReleaseCall` and
`StoreBlock` are `xmp_release`. `Close` is the kernel's: it returns to the user and
leaves the RELEASE for later, in any order with new opens. A value in a block records
the path and block it was written to, so that mixing files is visible: `Key` is
`hash_path`, under which paths may share a name in `/tmp`. `FetchFails`, `StoreFails`:
scp breaks off after any number of blocks. `Hangs`: OPEN and RELEASE wait in `recvfrom`,
and if the answer, or a datagram of the request, is lost or went to another call
(`UdpRpc`), the mount's only thread waits for ever. An answer that does come is taken to
be the right one; a refused OPEN changes nothing and is a stuttering step. Lengths are
left out.

### PassThrough, Trees, PosixFiles

An action of `PassThrough` is one call of a user: what the kernel checks, what libfuse
makes of it, and the handlers that run. `fs` chooses the file system. What both do alike
is one action (`Mkdir`, `Unlink`, `Rmdir`, `Link`, `Rename`, `Chmod`, `Access`,
`Readlink`); what they do differently is one each (`Mknod`/`MknodServed`,
`Symlink`/`SymlinkServed`, `Truncate`/`TruncateLocal`, `Open`/`OpenServed`,
`Read`/`ReadServed`, `Write`/`WriteServed`, `Opendir` with `Readdir` and
`Releasedir`/`ReaddirServed`). Every action that the tree or the descriptors do not
allow is `Refuse`. `fds` is bbfs's descriptor table; a descriptor is the lowest free
one. `Unlink` and `Rename` contain libfuse's renaming of open files (external, modelled
from what the handlers are called with), `Follow` its table of paths, `Release` its
deletion of the secret name. libfuse does so for both file systems. A secret name is an
entry of its directory like any other, and a listing shows it; users do not use it.
`OpenServed` asks whether the server can open the file; it may still fail, for want of a
copy. What is read from the copy is any value, a write to it may fail, and `Release`
sends any value back, or none (`Returned`). `Trees` says when Linux allows a change and
what it makes of the tree, for both modules.

`PosixFiles` has no paths for open files, no descriptors and no tree of secret names: a handle
stays with its inode. The weaknesses are what a user of the two file systems can
notice:

| Weakness | Where in the code |
|---|---|
| `hides`: a listing may show secret names, at most one for each open file; a rename onto another name of one open file removes the first name | libfuse without `hard_remove`; `bb_readdir` and `xmp_readdir` give every entry on |
| `once`: an open directory can be read once, then it seems empty or gives a left-over `errno` | `bb_readdir` never rewinds and tests for NULL before the first entry |
| `regular`: every node is created as a regular file; if another was asked for, the call is said to have failed all the same | `xmp_mknod` of `server_fs.c:240`; the kernel, which finds another type than it asked for, answers EIO |
| `rooted`: a link's target has `ROOTPATH` in front | `xmp_symlink` of `server_fs.c:357` |
| `local`: truncate acts on the client's machine | `xmp_truncate` |
| `mute`: a directory one may not list seems empty | `xmp_readdir` |
| `copies`: an open file is read and written in a copy that may hold anything, and comes back at the release or not | `xmp_open`, `xmp_read`, `xmp_write`, `xmp_release` of `client_fs.c` |

bbfs has the first two, the network file system `hides` and the last five; with these,
and no other, the refinement holds. So a name that was deleted, or replaced, while the
file was open does not come back with the release, and nothing of the file stays behind.
Permissions are one bit a file; the directories on the way to it are always passable.
Contents of a file are a small set.

### Xorshift, MemAccess

A word is the set of its one-bits, so that shifts and xor are set operations of every
width and the sign is membership of one bit; `ShiftRight` of a negative word brings in
ones, as C's `>>` of `long` does with the compilers used. `Remainder` is C's `%`, by
Horner's rule from the top bit. `MemAccess` follows `main` of the three programs; the
generator is copied by the fork. `Access` is one round of `do_mem_access` (512 lines),
`Flush` one of `do_mem_flush`, `Compete` one access of the competitor;
`BecomeCompetitor` is `comp.c`, which never returns. Whatever can fail may fail:
counters, mapping, `fork`, `msync`, `getrusage`, `get_mem_size`. Without `MMAP_ALLOC`
the memory comes from `malloc`, whose NULL is compared with `MAP_FAILED` only
(`open_read_perf.c:283`); nor is that of `flush_mem` looked at (317): main goes on
without memory, and the first access ends it (the lowest gigabyte is taken to hold
nothing the program could write a whole working set to). What the counters count is
abstracted to rounds of the walk. If `fork` fails, `kill(-1, 15)` signals every process
of the user: outside the model.

## 3. Runs

| Run | Checks | Bounds |
|---|---|---|
| `dpager_aligned` | `TypeOK`, `TotalIsResident` (no page read twice), `ImplementsElfImage`, `WellBehavedCompletes` | two aligned segments, `.bss` from inside a page over two more |
| `dpager_wild` | `ImplementsLoadedImage`, `NoStoreLost`, `TextIntact`, `PagesOwned` | the layout of `simple.exe`; null pointer, stores to code, holes |
| `hpager` | `LossIsPrefetch`, `PrefetchHarmless`, `TotalIsBounded`, `WellBehavedCompletes` | same layout, prefetch 3, `pread` may fail |
| `loader` | `TypeOK`, `SegmentsInPlace`, `SegmentsProtected`, `OnlySparePages`, `LoaderSurvives`, `HeadersFound` | both programs, pages of 2 bytes, 19 addresses, every pair of small segments, one failing `mmap` |
| `stack` | `EnvironmentFound`, `HeadersSurvive`, `OtherStringsKept`, `ExecFnWhole` | loader names with one, two and no `/`, program names from empty to longer than the loader's, up to three more arguments, up to two variables, three vectors |
| `rpc_single` | `TypeOK`, `ImplementsAtomicCall`, `EveryCallReturns` | one client, two calls of any of the 15 operations FUSE handlers call, one loss in a call of `LossyCalls`, large directories |
| `rpc_mixing` | `MixingShows` (a call run with another's arguments leaves some call waiting), `AnswersToOwnDatagrams` | two clients (symmetric), two calls each of OPEN and RENAME, one loss, one client killed |
| `names` | `TypeOK`, `DescriptorsInUse`, `ImplementsPosixFiles` | both systems; three paths in two levels, the root and two inodes, two files and one directory open, two descriptors, two secret names, regular files and fifos; inodes and handles symmetric |
| `access` | `TypeOK`, `NeverNegative`, `AccessesInside`, `PrintsTheWalk`, `SweepsLeaveNoGap`, `CompetitorStops` | 64-bit words, 256 KB, 60 rounds, 128 KB flushed (512 KB in the code) in at most 6 rounds, 60 accesses of the competitor |
| `sessions_discipline` | `ImplementsPlainFiles` | two mounts, two paths with one name in `/tmp`, two handles each, two blocks |
| `sessions_failures` | `TypeOK`, `ClosedIsReleased` | two mounts, two paths with one name in `/tmp`, scp may fail, calls may hang, two descriptors |
| `sessions_reader` | `ReaderReleaseIsStub` is violated | two mounts, one path |

Every run allows the system to stop (`CHECK_DEADLOCK FALSE`): programs exit or
jump, a call may hang, and the bounds on calls and opens run out.

*Why the bounds are enough.*
- Pagers: pages are independent but for prefetch,
  which reaches two pages up; each executable has more pages than that, a page
  wholly of the file, one partly, one wholly `.bss`, and a page shared with a
  hole. Two bytes a page give an offset inside a page and its boundary. The
  theorems remove the bounds for all but `WellBehavedCompletes`.
- Loader: a mapping can only meet the segment before it and the spare page between the two;
  two segments at every distance and every pair of offsets are that. The theorems remove
  the bounds.
- Stack: names one shorter, as long, and several longer than what they
  overwrite; an argument and a variable behind to be overwritten. The theorems remove
  the bounds.
- Datagrams: two calls are what a
  loss or a stale reply needs to reach the next call; two clients what mixing
  needs; three datagrams of one call are the longest argument list.
- Names: two inodes and two levels give a file with two names, a replaced file, a directory moved
  with its entry, and a deleted directory that is still open; two descriptors are
  fewer than the two files and one directory that want them. States that differ only in `last`
  count as one (`VIEW`): no action reads it, and TLC checks every step, those to known states included. The theorems remove the
  bounds.
- Sessions: two
  mounts make a lost update, two handles a reopening, two blocks a torn copy, two paths of one name a
  collision.
- Access: in 60 rounds every bit of the four words up to the sign has been set by a
  shift; 256 KB are eight working sets, so that the walk wraps several times; with 128 KB
  the flush begins at byte 0, 512 and 1024 and wraps, twice in its six rounds. The
  theorems remove the bounds for all but `CompetitorStops`.

*What the runs exclude, and why.* READLINK is not among `LossyCalls`: when its result is
lost the client takes the link's text for the result, and any text may then look like a
failure; the call can return a wrong result. `rpc_mixing` is for calls whose datagrams
cannot be taken for opcodes; a mode, a time or the buffer of READLINK can. These are
properties of the code, not of the model: with such a datagram in the mix the server can
execute an operation nobody asked for. That a RENAME runs with another client's path
does happen in the run, and no property denies it: `MixingShows` says that then some
call is left without its answer, until a client is killed and takes its call with it.
`sessions_discipline` has no transfer that breaks off: it would tear the file. `hpager`
does not keep `NoStoreLost` nor, in any order of touches, `ImplementsLoadedImage`: a
prefetch wipes pages above that were stored to. `LossIsPrefetch` says exactly how far
that goes, and `PrefetchHarmless` which programs never notice: those that touch their
high pages upwards.

*Finding.* `sessions_reader`: `xmp_release` is described as a stub that could be left
out (`client_fs.c:616`); in the run a mount that only read a file puts its old
copy over what another mount has written and released in the meantime.

### Fairness

`DemandPager!FairSpec`: weak fairness of the hardware and of `HandlerServes`. The kernel
delivers the signal and restarts the instruction; the handler is sequential code.
Nothing is assumed of `Issue` (the program may stop), nor that `mmap` ever fails.
`UdpRpc!FairSpec`: weak fairness of the server and of each client's send and receive:
both are processes the scheduler runs, and a `recvfrom` with a datagram queued returns.
Not of losses or restarts. `FileSessions!FairSpec`: weak fairness of a request under way
(`Working`: scp and the system calls behind it end), and strong fairness of each
`ReleaseCall`: a mount works off the requests of the kernel's queue first in, first out,
so that a RELEASE which is again and again next to be served is taken up, though the
thread is busy with others in between. It is not assumed to be answered: one of the
outcomes of `OpenCall` and of `ReleaseCall` is `Hangs`, after which the mount takes no
request, and `ClosedIsReleased` excepts such a mount as it does one that has exited.
`MemAccess!FairSpec`: weak fairness of `CompetitorDies` alone: the kernel delivers a
signal, or the fault of a process that has no memory. `EagerLoader`, `InitialStack` and
`PassThrough` state safety only and assume none.

## 4. Theorems

For every value of the constants, from the named assumptions of the modules
(types, and for the loaders what the ELF format says of headers):

| Theorem | For | States |
|---|---|---|
| `TypeCorrect` | both pagers | `[]TypeOK` |
| `DpagerPages` | dpager | `[]PagesOwned` |
| `DpagerTextIntact` | dpager, `pread` works | `[]TextIntact` |
| `DpagerKeepsStores` | dpager, fetches from code only | `NoStoreLost` |
| `DpagerImplements` | dpager, both conditions | `ImplementsLoadedImage` |
| `TailGap` | both pagers | where `LoadedImage` and `ElfImage` can differ |
| `DpagerImplementsElf` | dpager, both conditions, aligned segments | `ImplementsElfImage` |
| `HpagerLosses` | hpager, any `Prefetch` and `Threshold`, accesses the headers allow, fetches below `Threshold` | `LossIsPrefetch` |
| `HpagerHarmless` | same, any accesses | `PrefetchHarmless` |
| `DpagerReadsOnce` | dpager, accesses the headers allow, file parts that `MaxTotal` can count | `[]TotalIsResident` |
| `HpagerReadsBounded` | hpager, as `HpagerLosses` | `[]TotalIsBounded` |
| `LoaderTypes`, `SegmentsStay`, `RightsStay`, `SparePages`, `NoOtherFault` | apager and loader, any failing `mmap` | `TypeOK`, `SegmentsInPlace`, `SegmentsProtected`, `OnlySparePages`, `LoaderSurvives` |
| `HeadersAreFound` | loader, whose AT_PHDR is `atphdr` | `HeadersFound` |
| `EnvironmentIsFound`, `HeadersAreKept`, `OtherStringsAreKept`, `ExecFnIsWhole` | the four loaders, any command line, environment and auxiliary vector | `[]EnvironmentFound`, `[]HeadersSurvive`, `[]OtherStringsKept`, `[]ExecFnWhole` |
| `RpcTypeCorrect` | any number of clients, calls, losses, restarts | `[]TypeOK` |
| `NoStaleAnswers` | same | `[]AnswersToOwnDatagrams` |
| `OneClientIsAtomic` | one client, not killed, any calls; losses only where they leave a call waiting (`LossesOnlyHang`) | `ImplementsAtomicCall` |
| `SessionTypes` | any number of mounts, paths, handles, blocks, descriptors | `[]TypeOK` |
| `DisciplineHidesCopies` | same, any collisions of `hash_path`, users who keep the discipline (`DisciplinedSpec`), scp works | `ImplementsPlainFiles` |
| `DisciplineKeepsAlive` | same, scp may fail | no mount exits |
| `NoDescriptorLost` | bbfs (the network file system has none here), any tree and number of descriptors, files, directories | `[]DescriptorsInUse` |
| `PathsLead` | both file systems, any tree and number of files, directories and handles | `[]TypeOK` |
| `UsersSeePosix` | same | `ImplementsPosixFiles` |
| `NumbersArePositive` | words of any width from 20 bits on | `[]NeverNegative` |
| `MeasurementTypes`, `PrintedIsTheWalk` | any number of rounds | `[]TypeOK`, `[]PrintsTheWalk` |
| `AccessesStayInside`, `NoGapInSweeps` | same, any memories larger than a working set, words of any width from 20 bits on | `[]AccessesInside`, `SweepsLeaveNoGap` |

The arguments.

*Pagers.* `TypeOK` alone is inductive. `PagesOwned` is the invariant the rest
needs: a mapped page belongs to one segment and has all the rights of that
segment, so an access a segment allows never faults on a mapped page, and a
fault on one is always against the flags. With it a fault on a mapped page can
only be of a page without W (a store to code), or a fetch from data, which
`FetchesAreFromCode` rules out; so `MapAndFill` never touches a page that can have
been stored to, which is `NoStoreLost`. `TextIntact` (such a page, filled again,
holds the same bytes) then makes a repeated fault invisible, and a first fault
turns a page of the view from "its image" into the image: every handler step is
a stutter of `ProgramMemory`, every hardware step its namesake.
`FetchesAreFromCode` is a condition on the program, without which the theorem
is false: a fetch from a data page fills it again from the file. `LayoutAssumption` (no
two segments share a page) is what the linker scripts see to.

*Prefetching.* The invariant is `PrefetchedPages`: a page that is there has the rights
of its segment (a fault of its own) or is readable and writable and lies above
`Threshold` (prefetched). So an access the headers allow, other than a fetch,
never faults on a page that is there (`FirstTouch`); `FetchesAreLow` excludes the fetch, which
prefetched pages, without X, would refuse. `FaultEffect` divides the bytes into
those of the page that faulted, those of the pages it `Reached`, and the rest;
that a range of whole pages bounds pages as it bounds bytes is arithmetic
(`MultipleBoundsPages`). A loss is then in a page reached, hence above a first touch. For
`HpagerHarmless` a page reached is, unless the fault overreaches, absent and of the
same segment (`LayoutAssumption`), so what is read into it is its image: the fault is a stutter of
`ProgramMemory`.

*Totals.* `MapThenSumSet` is recursive, so first: there is a function with its recursion
(`SumExists`), and any two agree (`SumSame`); the sum does not depend on the order in
which the elements are taken (`SumAdds`), by a counterexample of least cardinality.
`TotalFacts` and `TotalGrows` are then all that is used of sums. A page faults for the
first time when it is absent (`FirstTouch`, `OnePageMore`); dpager then reads just its
part of the file (`FaultReads`), and hpager at most `Prefetch` times it, which
`ReadsPaid` adds up. Both need a program that keeps to its headers: one that stores to
its code has the page read again at every fault. `MaxTotal` caps the counter in the
model; for `TotalIsResident` the cap must not be met.

*Loaders.* `LoaderInv` is the conjunction of the properties with `AddressKept`
(`atphdr` is that of the first loaded header). The work is arithmetic
(`Geometry`, `BssReach`): the file's mapping ends on the page where the zeroed one
begins, and that ends with the segment's last page or one page further, never
two. `FilePart` and `BssPart` say what the two mappings change; since
headers ascend with pages of their own, neither touches an earlier segment,
only perhaps its spare page.

*Initial stack.* `StackInv` follows `build_stack` stage by stage: what has been written so far is
the prefix that was passed, what comes behind is still zero (`Cleared`). Each pointer is
the address of a string, hence not zero, so counting and looking for zeros end where the
lists end. The strings lie one behind the other from `StringBase` on; where one begins
is shown by a least counterexample. `StringsInv` says that `strcpy` writes from the last part
of `argv[0]` up to at most the zero of the name it copies: since source and destination are that far
apart, it reads a character before it writes over it, `argv[0]` becomes the directory and
the name, and the third string is never reached.

*Datagrams.* `RpcTypes` bounds the argument list of each operation by `Takes`. For
`NoStaleAnswers`: every reply queued or received at the socket of a call answers a
run whose last argument came from that call (`PendingToCall`), because `Call` makes
a new socket; `executed` only grows, so this stays true of what has returned
(`AnswersToCall`).

For `OneClientIsAtomic` the client, the server and the queues between them are in one of
five phases (`Alone`): `Resting`; `Asking`, where the datagrams the server has, those
queued and those not sent yet make up the request in order; `Starved`, where one is lost
and whatever handler is entered waits for more than will come; `Answering`, where what
the run sent is in the client's hands or queued; `CutShort`, where a reply is lost and
the client waits for ever. A run happens in `Asking` alone and a return in `Answering`
alone, so each has the call's own arguments. `LossesOnlyHang` excludes the losses after
which the call returns something wrong: of a reply of READLINK, READ or WRITE, and more
than one of READDIR. It holds of the run `rpc_single`.

*Files.* `SessionsInv` adds to the types that an open or closed handle, and a
transfer back, always has a copy (`HandlesCopied`, `RequestsSound`): otherwise
`release` would send nothing.

Under the discipline (`DisciplineInv`) a path has at most one mount that uses, fetches
or stores it (`Exclusive`), and that mount's request is in step with the server
(`RequestsInStep`): the blocks scp has moved are the same on both sides. What users see
of a path is the copy of the mount that has it open or is still to send it back, and the
server's file otherwise. A fetch into a copy in use by the same mount brings what is
there already; the end of a store leaves both alike; so requests are stutters of
`PlainFiles` and reads and writes its actions. Paths that share a name in `/tmp` share a
copy, but no two of them are in use on one mount (`OnePerName`), so what a fetch or a
write does to the copy of another path is not seen: that path is shown from the server
until it is opened, and then fetched whole. A call that hangs moves nothing. The theorem
is false without each hypothesis: with two mounts at one file updates are lost, two open
paths with one copy mix, and a failing scp tears files.

*Descriptors.* `FdInv` says in four parts that the tables have their shape, that
what is open has a descriptor open on it (`HoldersServed`), that no two share one
(`NoneShared`) and that every descriptor in use has a holder (`NoneLost`). Calls on names
may change paths of open files (an unlinked file gets a secret name) but no
descriptor (`SameFiles`); open and opendir take the least free one, which exists because < is
well-founded on Nat (`LowestIsFree`), so it had no holder.

*Names.* `Sound` is the invariant: the names make a tree (`IsTree`: a name's directories
are there, and no directory has two names), the path libfuse has of an open file leads
to it (`Leads`), and a secret name lasts only as long as a handle has it
(`SecretsHeld`). So at most as many secret names are taken as files are open, less the
one that needs it, and by counting one is free in its directory: this is why
`PassThroughAssumption` asks for as many as there are handles (libfuse draws them from
32-bit numbers). A move carries its subtree (`Sound` after `Rename`), with it the paths
of the files open there; what it replaces, if open, is first moved to a secret name. For
`UsersSeePosix` the abstract tree is the one without the secret names: their inodes are
those of open files, so an inode is collected in both systems or in neither, and a
listing is that of the abstract tree with some of the secret names, of which each is the
path of an open file that no other has (`UsersList`). Each call that takes effect is
then its namesake; a call that is refused has no effect in either, and `PosixFiles` says
nothing of when one may be refused (a directory that seems empty may still hold a secret
name). The one change where hiding shows is a rename of one name of an open file onto
another: POSIX keeps both, libfuse moves the second aside and the first replaces it.
What netfs's release sends back it sends to the path libfuse has, which leads to the
file (`ReturnedIs`). `StreamsInv` says that the network file system keeps no directory
open.

*Measurements.* A word shifted right keeps its sign, so a word xored with its own
right shift has none: every word the generator makes is positive (`NegInv`), for main and
for the competitor's copy. `MeasurePlace` ties `count` to `outer` while the counters
run and to `Rounds` after.

`Remainder` is defined by Horner's rule over the bits; that there is such a function and
that it stays below the modulus is by the least bit where it would not. With `NegInv` a
random base is then between 0 and `MaxBase`, and a sequential one advances by whole
working sets until the next would not fit; the flush goes by fewer bytes than that and
turns back long before its end (`PlacesInv`).

*Only model-checked.* Liveness (`WellBehavedCompletes`, `EveryCallReturns`,
`ClosedIsReleased`, `CompetitorStops`) is out of the prover's reach. `MixingShows` is a
safety property, but its proof would have to follow every way in which datagrams of two
calls can mix; it is left to TLC, for two clients. `ReaderReleaseIsStub` is the violated
one. Every other property of the runs is a theorem.

## 5. Not modelled, and what could come next

Hazards of the code that no property covers:

- a file renamed while it is open: its copy in `/tmp` is found by the hash of the
  new path (`client_fs.c:630`). `FileSessions` has contents and no rename, `PassThrough` names and
  copies that may hold anything; composing the two is the next step worth taking;
- a file that two mounts have open, two open files with one hash, a second open while a write waits to be sent back, an scp
  that breaks off: updates are lost and files torn, by the code; `Disciplined` says who never meets them;
- buffers of fixed size: `MAXLINE` bytes for a path and `de_arr` for a directory
  (`server_fs.c`); lengths of paths and files are nowhere in the models;
- `int` differences of `long` addresses in the loaders, which fit for the
  executables of `AOS3`;
- the lost `argv[2]`;
- `kill(-1, 15)` after a failed fork;
- the step of `do_mem_access`: the comment beside it says "8 cache lines" (`open_read_perf.c:140`, `comp.c:139`), the
  code steps 512 lines; `do_mem_flush` steps 512 bytes, which are 8. A comment and the code disagree; the model has
  the code's step, and `SweepsLeaveNoGap` holds for both;
- that another client's path may end up in a RENAME, that a missing argument ends the server, that a call may wait for ever:
  what `UdpRpc`'s properties say is what remains true then.

Operations left out: chown, utime, statfs, fsync and extended attributes of the two
file systems; permissions of the directories on a path; the contents of
`AT_RANDOM` and `AT_PLATFORM`; option parsing and printing.

Proofs that could follow: the refinement of `AtomicCall` for several clients whose
datagrams do not mix; for READ, WRITE and READLINK what the code does guarantee after a
loss.
