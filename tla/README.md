# Verification of trfs, a tracing stackable file system

trfs (`fs/trfs`) is a wrapfs-style stackable file system for Linux 4.6: every
operation is forwarded to a lower file system, and twelve of them are recorded in
a trace file. `hw2/trctl.c` chooses at run time which calls are traced,
`hw2/treplay.c` prints or replays a trace. This directory holds TLA+
specifications of the code, TLC configurations that check them, and TLAPS proofs.

## 1. Inventory

| Part | State | Operations | Interaction |
|---|---|---|---|
| Traced file operations (`file.c`) | `sb_info->mask`, `sb_info->record_id`, trace file, the handler's locals | open, read, write, release | run by any thread, without any lock of trfs |
| Traced inode operations (`inode.c`) | the same, and lower directory inode locks | create, link, unlink, symlink, mkdir, rmdir, mknod, rename | lock the lower parent (`lock_parent`, `lock_rename`), call the lower file system, trace, interpose, unlock |
| Trace control (`trfs_unlocked_ioctl`) | `sb_info->mask` | ALL, NONE, HEX, RET | called by trctl while handlers run |
| trctl | local copy of the bitmap | show, all, none, hex value, list of +/- options | one ioctl per change |
| treplay | position in the trace, one global descriptor, buffers kept from record to record | options, read record, print, replay | reads what the handlers wrote, calls the file system below `/usr/src/replay` |
| Mount and superblock (`main.c`, `super.c`) | `s_fs_info`, `mount_path`, lower `s_active` | module init/exit, mount, read_super, kill_sb, put_super, statfs, remount | creates and frees the state the handlers use |
| Lookup, dentries, inodes (`lookup.c`, `dentry.c`, `super.c`) | lower paths of dentries, lower inodes, inode cache | lookup, interpose, iget, revalidate, release, evict | called by the VFS and by create, mkdir, ... |
| Open files (`file.c`, `mmap.c`) | `trfs_file_info` (lower file, lower vm_ops), f_pos and i_size on two levels | open, flush, release, llseek, readdir, read_iter, write_iter, mmap, fault, fsync, fasync, ioctl | run by threads that share descriptors, and by the completion of asynchronous requests |
| Other inode operations (`inode.c`) | sizes and copied attributes | setattr, getattr, readlink, xattr, permission | forward with a reference on the lower path |
| NFS export (`super.c`) | inodes without a name | nfs_get_inode, fh_to_dentry, fh_to_parent | goes through `trfs_iget` |

What is hard: nothing protects `record_id`, the mask and the trace file against
concurrent handlers; a record is written in several appends; failures in the
tracing block are not checked and happen with directory locks held; the trace
must be in the order of the effects or a replay is meaningless; trctl updates the
bitmap in several ioctls from a stale copy; every object of trfs holds references on
a lower object and has several ways to come and to go, some of them at once; sizes
and positions exist on both levels and are copied without a lock; treplay has one
descriptor for all files. `PROJECT.json` lists the hazards with their lines and the
properties that look at them.

What makes each part correct:

* tracing: one whole record per traced call, unmixed, numbered without gap or
  repetition, with the values the call returned, in effect order; no record lost
  or overwritten; every call returns and releases its locks;
* trctl: exactly the named calls are switched, the bitmap stays in range;
* treplay: reproduces the tree and the results of what was traced, stops where it
  is told to, and ends;
* mount, lookup: every exit drops what it took, a dentry stands for the lower dentry
  of its name, an unmount ends and leaves nothing;
* open files: the lower file lives exactly as long as it is used, both levels agree.

## 2. Plan

| Order | Module | Content | State |
|---|---|---|---|
| 1 | `TrfsTrace` | the twelve handlers, tracing, mask | done |
| 2 | `TraceLog`, `TrfsTraceLog` | abstract log, and when trfs implements it | done |
| 3 | `Trctl` | trctl processes against the ioctl | done |
| 4 | `TrfsTraceProofs`, `TrfsTraceLogProofs`, `TrfsRecordProofs` | theorems on 1 and 2 | done |
| 5 | `FileTree`, `Treplay`, `TraceReplay` | a file system, treplay, and the two composed: record, then replay | done |
| 6 | `TrfsInterpose`, `TrfsMount` | references of dentries, inodes and lower paths; on top of it the life of the superblock and the module | done |
| 7 | `TrfsFile` | lifetime of the lower file, sizes, positions, asynchronous requests, mappings | done |
| 8 | `TrctlProofs`, `TrfsFileProofs`, `TrfsAgreeProofs` | theorems on Trctl and TrfsFile | done |
| 9 | `TrfsMountProofs` | the reference counts and coherence of TrfsInterpose inside TrfsMount, and the life of the superblock | done |
| 10 | `TraceReplayProofs` | theorems on TraceReplay: the types, `-n` and `-s`, what a full replay leaves and returns | done |

## 3. Modules and how they correspond to the code

**TrfsTrace.** `mask`, `record_id` and `trace` are the shared state; `pc`, `cur`,
`err`, `rec_id` and `holds` are a handler's position, arguments, locals and
lower locks. `effects` and `seq` are history: the calls in the order in which
they reached the lower file system and what the system call returned. `Invoke` is a
system call; `trfs_open` ... `trfs_rename` are the handlers up to the mask test
(locks, lower call, and the early exits of each), `LockRename` the locks of
`lock_rename` but the last, taken one by one, the mutex of two-directory renames
first; `ReadMask`, `ReadRecordId`,
`FilpOpen`, `WriteHeader`, `WritePath1`, `WritePath2`, `WriteContent`, `Bump` are
the tracing block that every handler repeats; `Interpose` is `trfs_interpose` where
it comes after tracing (create, mkdir; in link, symlink and mknod it comes before
and is part of the handler's action); `Return` is the `out` label. Each access to
shared state is its own step. Differences between the handlers are kept: open,
read, write, release and create trace failed calls, the other seven do not; only
the directory operations lock; link and rename build two paths in one buffer,
symlink does not.

Data: a return value is -1 (any errno), 0 or 1 (any byte count); a path is a
name with a length and a directory; the file is the sequence of pieces that
reached it. `dentry_path_raw` is modelled by what it leaves in the buffer
(`Overwritten`). The mask is the set of calls whose bit is set. Failures of the
environment are switched on by `Faults`: failing interposition, `kmalloc`, opening
of and writing to the trace file, a lower link that leaves a negative dentry.
An unchecked pointer error ends in `pc = "oops"`: the task is dead and keeps its
locks. The lower file system, the VFS and `vfs_write` (atomic, as the inode lock of
the trace file ensures) are external. Where `vfs_write` puts a piece follows from the
flags of the open (`OpenFlags`) and from the handler's own offset, which starts at 0
(`Offset`, `WithPiece`): without `O_APPEND` each record would be written over the
first. Offsets are counted in pieces, since only "at the end" and "over others'" differ.
An open with O_CREAT takes the lock of the directory that holds the trace file
(`TfileDir`), also when a handler has lower locks already. A trace file inside a lower
directory that is locked makes the handler wait for itself; such threads are the
exception in `EveryCallReturns`, and the trace file should not lie in the lower tree.

`effects` is ordered by the lower call. For directory operations that is the order
under the lower parent's lock; for operations on open files it is one possible
order, and no property uses it.

**TraceLog / TrfsTraceLog.** The abstract trace: one step adds a whole record with
the next number if the mask has its bit. `TrfsTraceLog` gives the refinement
mapping (a record exists from the mask test on; its number is taken until `Bump`)
and the condition under which it is right: `Serialised` (one thread, or all calls
need a common directory lock) and `NoTracingFaults`. `Serialised` is sufficient;
the run `mixed_records` shows what happens without it.

**Trctl.** Processes that each run one command: `Open` (unchecked), then `Show`,
`SetAll`, `SetNone`, `SetHex`, or `StartOptions`, `ApplyOption`..., `EndOptions`,
then `Close`. The bitmap is a number, since trctl adds and subtracts powers of two.
`retmapval` starts with garbage, as in the code. A negative or too large hex
argument is one above `BITMAP_MAX`.

**FileTree, Treplay, TraceReplay.** `FileTree` is the file system as system calls see it
(names, objects, contents); it is external and used twice, for the lower file system and
for `/usr/src/replay`. `Treplay` is the process: `main_options` (getopt, with `nVal` and
`sVal` uninitialised), `OpenTrace`, `ReadRecord`, `print_record` and one action per case
of `replay_record`; `Done` is the end of the loop body. `fd` is the global descriptor,
`fdtab` the process's table, `path2` and `content` survive from record to record as in
the code; with a full table (`HasFree`) open and create fail. A record is one value,
since `WellFramed` is about the bytes; a path or content whose malloc'ed block has no
zero byte behind it (`Misfit`) may be read back as something else. `TraceReplay`
composes it with users whose calls leave the records that the handlers of trfs leave:
which calls are traced on failure, what create, open and write put in their records,
link's overwritten path, the second read of the user's buffer, and what leaves no record
(`UserUntraced`, and `Unrecorded`: a mknod, link or symlink whose lower call succeeded
and whose interposition failed) or one without its offset (pwrite). The calls are made
one at a time, because the order of concurrent ones is the subject of TrfsTrace.
`deviated` and `hidden` are history.

**TrfsInterpose, TrfsMount.** `dentry`, `inode` are trfs's objects, `link` the lower
dentries, `lcount` and `lpins` the references on lower inodes and lower dentries.
A thread goes through `trfs_lookup`, `new_dentry_private_data`, `LookupLower`
(`__trfs_lookup`), `Interpose`, `IgetFind`, `IgetAlloc`, `IgetInit` (`trfs_iget` cut
where `iget5_locked` drops its lock), `Splice`, `Out`. A lookup that finds nothing below
returns a negative dentry that nobody hashes (`pc` "neg"): the VFS either creates or
links there, still holding the directory (create and link enter at `Interpose`), or puts
it, which ends it (`Dput`); so does a create whose interposition failed, and the next
lookup finds the lower file. `Drop` and `trfs_evict_inode` happen at any time; between the last
`iput` and the eviction the inode is "freeing" and lookups wait for it. The parent's
lock, taken by the VFS, keeps two calls out of one directory. `TrfsMount` adds
`init_trfs_fs`, `trfs_mount`, `trfs_read_super` in three steps and an exit,
`trfs_shutdown_super`, `trfs_put_super`, `exit_trfs_fs`. An option string without a '='
is read past its end (`Tracker`), and what is found there is a trace file's name, no
such name, or an oops. What the code does wrong is
kept and recorded in history variables, so that the properties can say exactly what
it costs: `overput` (the put in trfs_iget's error exit), `nfsgot` (the reference of
`ilookup`), `twins` (two inodes made for one lower inode at the same time, possible
because `trfs_inode_set` sets nothing).
A use of a pointer that is NULL or an error ends in "oops".

**TrfsFile.** `file[f]` is a struct file: descriptor, private data, lower file, lower
vm_ops, the two reference counts, mappings and the two positions; `usize` and `lsize`
are the two sizes. Each call enters with a reference (`Enter`) and returns it
(`Return`). `LowerWrite`, `CopyRead`, `CopyStore` are trfs_write around its tracing
block; `IterGet` ... `IterReturn` are read_iter and write_iter line by line, since
`Complete`, the end of a queued request, may come between any two lines; `kiocb` holds
what the request points at. `trfs_link` saves the upper size, makes the lower call and
stores the saved size; the lock of the upper inode, which it shares with `trfs_setattr`
(`InodeLocked`), keeps no write out. `trfs_setattr`, `trfs_readdir`,
`trfs_file_llseek` and `trfs_mmap` have two or three steps, one per level or per access;
a readdir that fails below at once leaves the VFS to store the old upper position again.
`trfs_flush` and the forwarding of `trfs_unlocked_ioctl`, like every other call, use the
private data and oops on a released file. An int has `IntRange` values.
As in Linux 4.6, getdents does not take the position lock of lseek, pwrite and a second
open file do not take that of write, and io_submit keeps no reference of its own while
it runs `write_iter`. `early`, `size_excuse` and `pos_excuse` are history.

**MC modules** hold the values of the constants. Operators whose comment
starts with "Mutant" are variants of the definition after them with a plausible
bug; no specification uses them. They show that a property depends on the code.

## 4. Runs

| Run | Instance | Shows |
|---|---|---|
| `sequential` | 1 thread, one call per handler, 2 calls, mask changes, failing interposition, negative lower dentry | the recorded err is the returned one, except that a create or mkdir recorded as successful may fail (`RecordedErrReturned`); whole records, of failed and of empty writes too (`AllOrNothing`); every handler, from every exit, refines `TraceLog` |
| `concurrent` | 2 threads, 3 calls of release, mkdir, rmdir, rename in both directions, the trace file in a lower directory, mask changes, fairness | what survives concurrency: whole records or none, whatever the mask becomes meanwhile (`AllOrNothing`), effect order within a directory, no id skipped; calls that wait for two directories, for the rename mutex and for the trace file's directory return, unless one that locks that directory waits for itself (`EveryCallReturns`) |
| `faults` | 2 threads, 3 calls, all tracing failures, a path of 256 bytes | the pieces of a record stay in order among cut records and dead tasks (`PiecesInOrder`), and every failing exit releases its locks (`LocksInHandlers`) |
| `one_directory` | 3 threads, 3 calls that all lock directory d, mask changes | the lower directory lock makes ids unique, records unmixed, and `TraceLog` implemented |
| `trctl` | 2 processes, 10 commands, 3 initial bitmaps | bitmap in range, options exact, only named bits change |
| `super` | 2 threads, 3 operations on 6 names (two hard links in different directories, a missing file, a mount point), 2 mounts, every failure, every kind of wrong argument, fairness | references on lower inodes, lower paths and trfs inodes balance in every state (`LowerInodesBalanced`, `LowerPathsBalanced`, `UpperInodesBalanced`); dentries mirror the lower ones (`Coherent`, `OneInode`); superblock data is there while it is used (`SuperInUse`); calls return; an unmount ends and is clean |
| `files` | 2 threads, 4 calls on a file and a directory, links included, all failures, fairness | `LowerFileBalanced`, `LowerFileInUse`, `NoOops`: the lower file is released after the last user only; `MappedHasVmOps`: the BUG_ON of mmap.c cannot fire; `SizeAgrees`, `PosAgrees`: both levels agree after calls that were alone, which also repair earlier differences; `ClosedIsReleased` |
| `replay` | five kinds of users (sessions on one file, two files at once, names, failures and unrecorded effects; 4 to 6 calls), 7 command lines, fairness | `Reproduced` and `ReturnsSame`: which traces are replayed right; `StrictStops`, `PrintOnly`: what -s and -n never do; treplay ends |

The exceptions that the properties of `super`, `files` and `replay` name are all
needed: without any one of them TLC shows a violation. They are what the code gets
wrong:

* two lookups of hard links at once make two inodes (`twins`); trfs_iget's error exit
  puts a lower inode that was not got, NFS gets one that is not put, a failed igrab
  leaves a locked inode behind;
* overlapping writes, truncations and links (a link writes back the size it saved
  before), a truncation that fails below and a queued
  write leave the two sizes different; overlapping seeks and reads, and an offset
  with bit 31 set, leave the two positions of a directory different;
* a request that completes before write_iter has restored `ki_filp` puts the lower
  file; one that completes before write_iter has returned can take the file from under
  the call;
* a replay goes wrong when two files were open at once, a file was created without an
  open that has O_CREAT (mknod(2), or an open that failed and was repeated without it:
  the replayed create makes no file, only the open after it does), written after a read,
  written with 0 bytes or an error, linked, renamed or symlinked, used through untraced
  calls, when a buffer changed while it was traced, or when a mknod, link or symlink had
  its effect and failed in its interposition, before it was traced. (-n with more than
  one other argument replays all the same; -s may print only, depending on what `nVal`
  held.)

Runs that show where the code differs from `src/hw2/README`:

| Run | Property | What happens |
|---|---|---|
| `mixed_records` | `WellFramed` | the struct of one read lands between struct and path of the other |
| `link_paths` | `PathsRecorded` | link's first path is overwritten by its second |
| `mount_failure` | `MountReturns` | a mount with wrong arguments oopses instead of failing |
| `strict_replay` | `AbortsOnDeviation` | `treplay -s` aborts at an open that returned what it should |

More differences of the same kind are part of the model without a run of their own:
two overlapping reads write the same record_id (`UniqueIds` needs the common lock); a
failed write announces a negative write_len (`WellFramed` has no such call in
`one_directory`); with the trace file in the lower directory that is being locked
(`TfileDir`) a directory operation waits for itself; two trctl processes can undo each
other's switches; create and mkdir are recorded with err 0 before their interposition
can fail (the exception in `RecordedErrReturned`); a trace file that cannot be opened
takes the calling task down with its directory locked (`FilpOpen` to "oops", in
`faults`).

Bounds. `MaxCalls`, `MaxOps`, `MaxMounts` and the `max` of a menu bound the calls of a
behaviour; threads, calls and masks are the constants above. For tracing, two threads
are enough for each race on `record_id` and on
the file: a race is between one thread's read and store, or two of its writes, and
another thread's; the third call lets the counter move backwards and another record
follow. Three directories, one of them the trace file's, give disjoint, equal and
overlapping lock sets; two renames in opposite directions and a call in the third
directory wait for each other in each order. Path
lengths 2, 4 and 256 cover a first path that is longer than, or as long as, the
second, and the buffer's limit. In `super`, two threads and three operations reach
each race of a lookup with another, with an eviction and with a failing create, and
the second mount finds what the first one left; six inodes are more than the names.
In `files` four calls are an open and three others, so that a request can be queued,
the file closed and another call be under way; sizes 0 and 1 and positions 0 to 2 with
an int of four values (2 is negative) tell all cases apart. In `replay`, six calls are
two sessions on one file, four or five reach every way a record can be unfaithful.
The safety results that are proved hold without any bound.

Deadlock is not checked, since users may stop making calls and the bounds end each
behaviour; that no call gets stuck is `EveryCallReturns`, `CallsReturn`,
`UnmountEnds`, `TreplayEnds` and `ClosedIsReleased`.

Fairness. Weak fairness of each thread's steps inside a call: the scheduler runs every
thread that can go on. Nothing is assumed of users, ioctls or the caches of a mounted
file system. Weak fairness is enough because a behaviour has finitely many calls, so
that no thread can be overtaken for ever at a lock (the kernel's inode mutex is nearly
FIFO). `lock_rename` takes its locks one by one; which of the two directories comes
first depends on the tree, so either may, and what keeps two renames apart is the mutex.
In `super` the eviction of an inode, run by the thread that dropped it, and an unmount
that has begun go on; in `files` the device completes requests and the last fput
releases the file, both by the kernel; in `replay` treplay is one process that is
scheduled.

## 5. Proofs

For `TrfsTrace`, all constants that satisfy `ConstantsAssumption` (no bound on threads,
calls, directories or failures):

* `TypeCorrect`: `TypeOK` with **Control**, which ties a thread's `pc` to
  `seq` (an index of its own effect exactly while it runs), to the locks it holds
  (those of its call) and to the operation. Every other proof uses it.
* `LocksCorrect` follows from Control.
* `PiecesOrdered`, `TraceFollowsEffects`: from **OrderInv**. `PiecesInOrder` is not
  inductive: one has to know that the pieces a thread has written are behind its
  position (`PiecesBehind`), that pieces belong to calls that exist
  (`PiecesExist`), and, for the order within a directory, that a thread which
  holds a directory has the last call among those that lock it (`HolderLast`).
  The last one is where tracing before `unlock_dir` matters.
* `NoIdSkipped`: from **IdsInv**. Inductive once one adds that every local `rec_id`
  of a handler in its tracing block also has all ids below it written, and its own
  written when the handler is past the struct. This is why a counter that races,
  repeats and moves backwards still leaves no gap.
* `SerialUniqueIds`, `SerialImplementsTraceLog`: with `Serialised` and
  `NoTracingFaults`, from **SerialInv** (at most one thread is in its tracing
  block, its `rec_id` is `record_id`, ids in the file are below the next number).
  `LogStep` shows that each step is a `Record`, a `SetMask` or a stutter of TraceLog.
* That a piece comes behind all others (`VfsWriteAppends`, which these proofs rest on)
  uses that O_APPEND is among the flags of the open.

* `RecordedErrCorrect` (`TrfsRecordProofs`): from **ErrInv**. `RecordedErrReturned` only
  speaks of calls that have returned; one adds that the header of a running call has the
  `err` it is going to return, and that only create and mkdir interpose afterwards.
* `WholeRecords`: from **WholeInv**, which says for each label which parts of its record a
  running call has written (`SoFar`): a handler that has passed the mask test writes all.
* `SerialWellFramed`, `OneDirectoryWellFramed`: from **FrameInv**. `WellFramed` is about
  whole records, so one has to say where in a record the trace ends (`LastPart`), by the
  label of the one thread that traces. The first needs `Serialised` and no failing write
  to the trace file (`enospc`), and holds until a failed write(2) is recorded; the second
  needs a common directory lock, so that no call is a write.

For `Trctl` (`TrctlProofs`), any number of processes and any commands:

* `OptionsSwitchExactly`: adding or subtracting 2^b when bit b is clear or set changes bit
  b only. The arithmetic is shown for b = 0 and carried from b - 1 to b by halving
  (`Halving` and the lemmas after it); then **ExactInv** follows the loop over the options: the
  bits of the copy are as the last option applied so far wants them.
* `MaskStaysInRange`, `UnnamedBitsKept`: the bitmap in the kernel is stored from copies that
  may be stale, so the invariants (**RangeInv**, **NamedInv**) say the same of every copy
  that can still be stored; a process whose open failed stores nothing.

For `TrfsFile` (`TrfsFileProofs`, `TrfsAgreeProofs`), any finite set of threads and any set
of files:

* `FileTypeCorrect`, `LowerFileCounted`, `LowerFileStays`, `MappedSaved` and
  `OopsOnlyWhenEarly` are one induction, on **FileInv**: none of them is inductive
  without the others. Its core is `RefInv`, who holds a reference on the open file:
  descriptor, mappings, calls, and requests, which take over the reference of the call
  that makes them. `count` is at least their number, and one more when a completion has
  put the lower file in the place of the upper one (`PutLower`): such a file is never
  released, which is why the exception of `LowerFileBalanced` does not spread to its
  next open. `IocbInv` ties a request to its call (where `ki_filp` points at which
  label), `LowerInv` counts the lower file, `MapsInv` and `VmInv` the mappings. Each
  step is one of six kinds (`StepKinds`), and the counts are proved once per kind.
  Cardinalities need `IsFiniteSet(Threads)`.
* `SizesAgree`, `PositionsAgree`: from **AgreeInv**, which follows the one call that is alone:
  `SizeOK` and `PosOK` say what it has done to the two levels at each label, and that no
  other call of the kind runs and no write is queued. A link that is alone stores the size
  it has read, whatever the two levels are. `Minds` is what every step leaves
  alone.

For `TrfsMount` with `TrfsInterpose` inside it (`TrfsMountProofs`), any finite tree of
names, any finite sets of threads and inodes, all failures and any number of mounts:

* All eight safety properties are one induction, `MountInvariant`, on **MountInv**; none of
  them is inductive alone. `CallInv` says for each operation which labels it can be at, what
  it has got there and in what state its dentry is; `Apart`, that two calls the lock of the
  parent serialises are in different directories, is what keeps two of them off one dentry; it
  also keeps a negative dentry for the one call that has looked it up.
  `DentryInv` and `InodeInv` give the states of the objects: `Counted` (who holds an inode)
  needs `HoldsLive` (what is held lives, except for the thread that is setting it), and the
  other way round, because the last iput is recognised by the count. `SbInv` says for each
  phase of the superblock who can be inside, and `Mounting` what a mount has got so far.
* `InodeUnique` needs the same exception one step earlier (`TwinInv`): a thread between
  `iget5_locked` and the setting of the lower inode shares its lower inode with another
  thread there, or with an inode that lives, only if that is in `twins`.
* Each action has a lemma that it keeps MountInv. The frame lemmas before them say when a
  part is not disturbed; `LowersByName`, `LowersBySlot`, `HoldersChange` and `PathsStep` do
  the arithmetic of the cardinalities, once for each way a count can change.
* `TypeCorrect` is a consequence, not a part: in MountInv the counts are any integers, and
  that they are natural numbers follows from what they count.

TLC checked MountInv on the instance of `super` before it was proved.

For `TraceReplay` with `Treplay` and `FileTree` inside it (`TraceReplayProofs`), any paths
and contents, any users' calls with their failures, any command lines and a descriptor
table with room for at least one file besides the trace:

* The lemmas about the operators of `FileTree` (`AddType`, `NamesType`, `OpenedType`,
  `WrittenType`) say that each call gives a tree again and loses no object (`Grown`). So
  the numbers that open files and descriptors hold stay valid, which `TypeCorrect` needs.
* `TypeCorrect`: from **TypeInv**: which records the calls can leave (`Records`; link and
  rename have two paths), and what treplay has when it has got one (`PlaceOK`). That the
  lowest free descriptor exists when one is free (`FreeType`) is the well-foundedness of
  the natural numbers.
* `PrintLeavesTree`: from **PrintInv**, which has to begin before the options are read:
  until then `replay` is false and nothing is replayed.
* `StrictEnds`: from **StrictInv**, with `ReplayedOrCrashed`: each case of replay_record
  returns true only for a result that is the recorded one, or crashes.

* `ReplayReproduces` and `ReplayReturnsSame`: what a replay of a whole trace computes. An
  induction over the trace is avoided by an abstract machine with one file tree and one
  open file (`StepRecord`: one step per record; a create waits for the open after it, a
  read does not move the position). A faithful trace stands for a behaviour of this
  machine, a history H of its states (`Chain`), and **FaithInv** has the two halves:
    * `RecordInv`: while the users work there is such an H, and it ends in the users' state
      (`Matches`): the same tree, but for a file that a create has just made; the same open
      file at the same position, unless something was read since. Each call is shown to
      extend H by one step, or by two for an open that creates (`OpenMatches`,
      `WriteMatches`, ..., `HistoryExtends`), or its record is not faithful
      (`FaithfulNext`, `FaithfulPrefix`), or it has left something that no record shows and
      has set `hidden`.
    * `FollowInv`: when treplay is at record k it is in state H[k], with the one open file
      behind `fd` and nothing else open (`AtState`); `GotInv` says that what was read back
      is what was recorded, `FreshInv` and `ExitInv` what holds before the first and after
      the last record. Each case of replay_record takes H[k] to H[k + 1] (`FollowsStep`)
      and returns what the record says, or is that of a create or a read.
  At the end treplay has the tree of H[Len + 1], which is the users' tree. Since treplay
  never has more than one descriptor open on such a trace, the size of the table does not
  matter.

The attempt to prove `Reproduced` showed that its `Faithful` was too weak: it let a create
be followed by an open of the same file without O_CREAT, which the replay cannot repeat,
and no menu of `replay` had one. `Faithful` now asks for O_CREAT and the menu `Faulty` has
such opens. TLC checked ReplayInv and FaithInv (with H computed from the trace) on the
instance of `replay` before they were proved.

Only model-checked: liveness (`EveryCallReturns`, `CallsReturn`, `UnmountEnds`,
`ClosedIsReleased`, `TreplayEnds`), which is out of reach of the prover, as is every
property under fairness.

## 6. Not modelled

* `remount_fs` (refuses flags), `umount_begin`, `permission`, `get_link`, `fh_to_parent`:
  they forward or wrap a modelled call and keep no state; the slab caches; build files
  and the generated `trfs.mod.c`.
* In `TrfsInterpose`: renaming a dentry, aliases of directories (`d_splice_alias`
  returning another dentry), handles of directories over NFS, changes made directly
  below trfs.
* In `TrfsFile`: data, times, `SEEK_END`, several opens of one file, lower files without
  an mmap method.
* In `Treplay`: modes, the layout of the output, the bytes of a badly framed trace.
* In `TrfsTrace`: contents of writes (they are in `TraceReplay`), times, sizes and link
  counts, the wrap of the int `record_id`, a trace file inside the trfs mount itself
  (each traced open would trace again), messages in the kernel log.
