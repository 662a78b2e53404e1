# A TLA+ model of the PDB library

The repository holds the implementation of program databases (PDB files): a
*multistream file* that stores numbered streams in pages with a two-phase commit, a
*PDB* on top of it with named streams, types, debug information, symbols and line
numbers, a *locator* that finds the PDB of an image, and tools that dump them. These
modules model the parts in which order, failure, sharing or a long sequence of calls
matter. TLC checks them on small instances; TLAPS proves the central properties for
every value of the constants.

Paths below are relative to `src/`; a file without a directory is in `PDB/msf`
(`msf.cpp`, `istream.h`, `mapfile.cpp`), `PDB/include` (`map.h`, `nmt.h`, `nmtni.h`,
`iset.h`) or `PDB/dbi` (all others).

## The system

| part | state | operations | works with |
|---|---|---|---|
| Multistream file, `MSF_HB` (`msf.cpp`) | header, stream table `st`, page list `siPnList`, three page maps (`fpm`, `fpmFreed`, `fpmCommitted`), the file | Replace, Append, Write, Truncate, Delete, NonTransactionalErase, GetFreeSn, Read; Commit, Close, load, create | page maps; byte streams; used by everything above |
| Free page maps, `FPM` (`msf.cpp`) | word array with a virtual tail, rover | nextPn, allocPn, freePn, add, ser/deser | the file |
| Byte streams (`istream.h`, `mapfile.cpp`) | a file handle, a view and its size | Create, Read, Write, SetSize, Detach, Close | the operating system |
| Open PDBs, `PDB1` (`pdb.cpp`) | `s_mpOpenedPDB`, `s_mpOpenedMSF`, counts, modes; signature, age, features | OpenEx2W, OpenValidate, Commit, Close, CopyTo, opens of the parts | MSF, timeout manager |
| Timeout manager (`pdb.cpp`) | queue of closed PDBs, event, thread, timeout | Notify*, SetTimeout, CloseAllTimeoutPDB, ShutDown, CleanupThread | open PDBs, under `s_csForPDBOpen` |
| Named streams, `Strm` (`stream.cpp`, `stream.h`) | a `Strm` per stream: count, mode, event | OpenStreamEx, Release, Delete, data calls | name table, MSF |
| Name table, `NMTNI` (`nmtni.h`) | two maps, a string buffer | addNiForSz, deleteNiSzo, save, reload | Map; GetFreeSn by callback |
| Hash map, `Map`, `ISet` (`map.h`) | domain and range arrays, present and deleted sets | add, remove, map, grow, save, reload, EnumMap | nearly everything |
| Name map, `NMT` (`nmt.h`) | string buffer, hash table; pages that were read | add, find, rehash, convert, save | a named stream |
| Types, `TPI1` (`tpi.cpp`) | records, hash chains, heads of names, blocks | queries and insertion, commit, load by blocks, strings of ids | two MSF streams |
| Type merging, `TM*` (`tm.cpp`) | maps of type indices per object, precompiled header and compiler's PDB | fMapRti, fInit, ClosePdbFrom, copying | two `TPI1`s |
| Debug information, `DBI1` (`dbi.cpp`) | module table, contributions, file lists, debug data, frame data, type servers | OpenMod, DeleteMod, QueryMod*, fSave, clearDBI, OpenDbg | TPI, GSI, modules, MSF |
| Modules, `Mod1` (`mod.cpp`) | symbols, lines, references to globals | AddSymbols, AddLines, Close, QuerySyms, QueryLines, converted reads | DBI, GSI, TM, name map |
| Symbols, `GSI1`/`PSGSI1` (`gsi.cpp`) | hash buckets with reference counts, address map, thunk map | packRefToGS, removeGlobalRefs, addPublic, NearestSym, enumerations, fSave | DBI's symbol records |
| Lines as they were, `MLI` (`mli.cpp`) | files, sections, lines | AddLines, Emit, conversion | modules |
| Source files (`src.cpp`) | names over named streams | Add, Remove, Query, enumeration | named streams |
| Locator (`locator.cpp`) | places searched, caches, the server's options | FCrackExeOrDbg, FLocateDbg, FLocatePdb | PDB1, registry, SYMSRV.DLL |
| Heaps, pools, buffers (`heap.cpp`, `buffer.h`, `pool.h`) | memory | allocation | everything |
| Tools (`cvdump`, `pdbdump`, `pdbtest`) | none | printing | the public interface |

What makes the system hard, and which properties catch it (`PROJECT.json` lists each
hazard with its line):

* **Crashes and failed writes.** A file is readable at every moment, and what it
  reads as changes in one step, although a commit is many page writes. The pages of
  the committed state must stay untouched while a transaction allocates, frees and
  reuses pages. `Loadable`, `Transacted`, `CommittedNotAllocatable`,
  `CheckInvariants`, `NoSharedPage`, `ValidFpmKept`. The owners of streams write
  several of them before a commit, and each write may fail: `CommittedRight`,
  `NamesRight`, `PoolRight`.
* **The exception to copy-on-write.** AppendStream writes in place behind the end of
  a stream, on a page that the committed state may have too; that is sound only
  because TruncateStream copies a partial last page. `CommittedExtentKept`.
* **Boundaries.** The word array of a page map is shorter than the map, map pages
  are skipped at intervals, the file ends at a maximum: `ReservesHold`,
  `DataPagesAccounted`, `ImplementsPageSet`. A byte stream grows ahead of what is
  written, through views that the system may refuse: `StreamsRight`.
* **PDBs that outlive their clients.** A closed PDB waits in a queue; it may be
  reused, reopened in another mode, flushed or closed by a thread that waits without
  a lock. `HandlesCounted`, `ExclusionHolds`, `ClosedInTheEnd`.
* **Waiting.** Threads wait for an exclusive stream on an auto-reset event and may be
  overtaken: `ExclusiveAlone`, `ReleaseNotLost`, `WaiterServed`. Two locks of a DBI
  are taken in two orders, which is a deadlock of PDBs whose types are widened:
  `SymRecsRight` says that it is one of those only.
* **Lookups outside a lock.** Names are turned into streams outside the mutex under
  which streams are deleted. `NamesApart`, `Reverse`.
* **Tables edited in place.** Tombstones, holes filled by the last entry, reference
  counts, merged address maps, swept lists, scopes dropped out of nested scopes:
  handles that share what they opened: right only if a long sequence of calls leaves
  what a simple table would hold. `MapRight`, `ImplementsDictionary`, `GlobalsRight`, `ModTableRight`,
  `PublicsRight`, `FramesRight`, `ModSymsRight`, `LinesRight`, `PdbsRight`.
* **Formats of all ages.** A pool of types in any of seven versions, files in two
  formats, whatever earlier builds left: what is refused, what is converted and when,
  and what the next session finds. `PoolRight`, `TypesRight`, `PdbsRight`,
  `ModTableRight`.
* **Stale state.** Enumerators under removal, heads of names under edits, pointers
  into PDBs given back, positions of a refused DBG. `MapRight`, `EditsLegal`,
  `SchemaKept`, `TypesRight`, `LocatorRight`.

## The modules

### TransStore, Msf: the multistream file

`TransStore` is what the comment at the head of `msf.cpp` (23-61) promises: streams
that change one at a time, a `Commit` that makes all of it durable at once, and an
`Abort` (close without commit, or a crash, and a load) that goes back to it.

`Msf` is the big format of class `MSF_HB` on pages. On disk are `dhdr` (page 0),
`dfpm` (the two page maps) and `dpg` (data pages, each a piece of a stream, of the
stream table, or of the list of the table's pages). In memory are `fpm`, `freed`
(`fpmFreed`), `comm` (`fpmCommitted`), `st`, `stMac` (`st.mpsnsi.size()`), `pnList`
(`siPnList`), `slot` (`bighdr.pnFpm`) and `pnMac`.

| action | code |
|---|---|
| `ReplaceStream`, `AppendStream`, `TruncateStream`, `DeleteStream`, `NonTransactionalEraseStream`, `GetFreeSn` | the methods of the same names, `internalReplaceStream`, `internalDeleteStream`, `snMinFree` |
| `WriteStream`, `WriteStreamPage`, `WriteStreamFails` | `readWriteStream`: entry, one page copied, a failure |
| `CommitTable` | `st.serialize(ser)`: `FSerializeMsf` up to the table's replacement |
| `CommitList` | the rest of `FSerializeMsf` |
| `CommitFpm` | `fpm.add(fpmFreed)`, `serializeFpm` |
| `CommitHdr`, `CommitFlush` | the header write; `pIStream->Commit` and `init` |
| `CrashAndLoad` | a crash or a close at any point, then `load` |

Every method holds `m_cs` from entry to return, so calls do not interleave; a crash
comes between any two of the steps. An operation that writes only pages nobody can
reach yet (Replace, Append, Truncate) is one step, since a crash inside it leaves
the file as a crash before or after it does; WriteStream and Commit change memory or
disk in visible stages and are one step for each.
A failure is a choice: `k` pages were allocated and the first `w` of them written.
A write or extension that fails counts against `MaxFaults`; a file at its limit is
not a fault.

A length is a number of pages and of cells on the last one, a buffer is one byte
repeated, the stream table has a fixed number of pages (`CpnSt`) and its list one,
page writes are atomic, and memory does not run out. The page maps are sets here;
`FpmAlloc` shows what that rests on. The small format is in `MsfOpen`; `CopyToW2` and
reading are left out (what ReadStream returns is `Content`).

`MsfProofs` states the inductive invariant and proves with it.
`MsfPowerLoss` adds the medium below the operating system's cache.

### MsfOpen: a file is opened

`MSF::Open` with its table of open files, opens of streams, the two formats' headers,
and the stream table as it is written and read in each: which page size and format a
file has, what is refused and why, that two names of one file share one `MSF`, and
that a table with holes, deleted streams and its own entry comes back as it was.
`OpensRight`, `TableRight` and `SharedRight` are in `PdbsRight`.

### PageSet, FpmAlloc: the free page maps

`FpmAlloc` has `struct FPM` word by word: `isFreePn`, `fEnsureRoom`, `add`,
`clearAll`, the search of `nextPn` from the rover with the reserved pairs, then
`allocPn` and `freePn` of `MSF_HB`, and `serializeFpm` in both directions with its
stride of `cbPg` pages. `PageSet` is what `Msf` assumes of it: the least free page
is allocated, a page comes back now or after the next commit, a load gives what was
committed. `ImplementsPageSet` is the refinement; `FreeSet` of each map is the
mapping.

### ByteStreams: the file under the multistream file

How a file is opened, created, grown ahead in steps, mapped, moved to the CRT when
the system refuses a view, cut back and closed (`mapfile.cpp`, `istream.h`). What
the system has (room on the disk, addresses for a view, descriptors) is an input.
`StreamsRight`: what was written can be read and what was flushed is in the file,
whatever was refused, and the file gives back what it grew ahead.

### PdbTable: the PDBs a process has open

One variable per table (`msf`, `pdb`, `handle`) and the manager's (`queue`,
`expired`, `timeout`, `thread`, `notEmpty`). OpenEx2W is `OpenFirst`, `OpenShared`,
`OpenAgain` (through NotifyReopen) or `OpenDenied`; Close is `CloseOthersLeft` or
`CloseLast` (NotifyClose). They hold `s_csForPDBOpen` throughout and are one step
each. `WaitNotEmpty`, `WaitTimer` and `CloseTimedOutPDBs` are CleanupThread's two
waits, which hold nothing, and its locked part. `TimePasses` lets the timeout of the
PDBs in the queue run out.

### StreamOpen: named streams

A thread's `pc` says where it is in OpenStreamEx: `OpenStreamEx` is the lookup
outside the mutex (`NMTNI::addNiForSz`, with `GetFreeSn`), `Opens` and `Waits` the
part under it, `Wakes` the event. `Release` is one step, `Delete` and
`RemoveStreamName` are the two calls of `Strm::Delete`, which other threads' lookups
can come between.

### Contents: names, types, symbols (suite `MCContents`)

| module | component | what it models |
|---|---|---|
| `Dictionary`, `HashMap` | `Map`, `ISet` (`map.h`) | linear probing with tombstones, growth at two thirds, `mapThenRemove`, `reset`, save, reload, an enumeration while keys are removed. `HashMap` implements `Dictionary`, a function from keys to values |
| `NameMap` | `NMT` (`nmt.h`) | names added, three versions of the hash, growth and rehashing, conversion from MBCS, a save in several writes any of which may fail, reload |
| `NameMapPages` | `NMT` opened to be read | strings read page by page, and the switch to writing |
| `TypePool` | `TPI1` (`tpi.cpp`) | queries by content and by name, insertion, heads of names under edits, the record and hash streams over several commits with failing writes, loading by blocks of memory |
| `TpiVersions` | `TPI1` | a pool of each of the seven versions: the header, when records are read and converted, which hash values are believed, what a commit leaves; damaged streams |
| `UdtLines` | `TPI1`, `REC` | which record is the definition of a name, the field lists behind a legal edit, where in the source a definition is; the strings of ids, and the room made for them |
| `TypeMerge` | `TMR`, `TMTS`, `TMPCT` (`tm.cpp`) | records of objects, precompiled headers and compilers' PDBs mapped into the two pools, recursively, with failures, and the source lines of definitions |
| `TypeServers` | `DBI1::fGetTmts`, `TMTS`, `Mod1` | which PDB of types a module leads to, how PDBs are found, shared, given back to compilers and reopened, copied into a PDB without merged types |
| `Mismatches` | `DBI1::FTypeMismatchDetection` and its enumerator | of new types with the name of another one, which definitions and which modules the linker is told of |
| `SymChains`, `GlobalSyms` | `GSI1` (`gsi.cpp`) | the buckets in `SymChains`; references from modules' symbols counted, constants and types promoted, removal with deferred unlinking, minimal debug information, save |
| `Locator` | `locator.cpp` | an image or DBG cracked, the DBG of a stripped image, the places a PDB may be at in their order, symbol servers and caches, clients' refusals, two locators in one process |

### Debug information (suites `MCDebugInfo` and `MCFiles`)

| module | component | what it models |
|---|---|---|
| `ModTable` | `DBI1` (`dbi.cpp`) | modules opened, emptied and deleted, the table of contributions with its holes, file lists, addresses asked for after a save |
| `DbiStreams` | `DBI1::fInit`, `fSave`, `clearDBI`, `Dbg1Data` | the numbers of streams given, kept in the header and freed, the writes in their order with failures, commits and crashes |
| `DbgData` | `Dbg1Data` | data of a kind shared by a DBI's clients: positions, clones, binary searches, what a close sorts and saves |
| `LinkNotes` | `DBI1` | what else a linker leaves: its command line, names of edit and continue, sections, machine and flags, over sessions that create, clear, refuse or fail |
| `FrameData` | `DBI1::RemoveDataForRva`, `Dbg1Data` | blocks of code that go, joined and sorted, and the sweep that drops their frames |
| `Publics` | `PSGSI1` (`gsi.cpp`) | publics added, replaced and removed, the address map and its merge with the last session's, thunks, the nearest symbol, enumeration and location |
| `ModSyms` | `Mod1` (`mod.cpp`) | symbols added in several contributions, scopes fixed up, symbols moved to the globals or dropped, references given back when a module is replaced; four kinds of PDB |
| `SymRecs` | `DBI1::fReadSymRec`, `Mod1` | records read by pages by several threads, references made to lead to symbols that were moved when old PDBs are widened, two locks |
| `Mli` | `MLI` (`mli.cpp`) | lines as they were: gathered by file and section, laid out, converted |
| `ModLines` | `Mod1`, C13 lines (`mod.cpp`) | subsections of contributions joined into a module's stream, string tables, files, lines, inlinees, tokens; enumerators over a shared buffer; conversion both ways |
| `PdbMatch` | `PDB1` (`pdb.cpp`) | signatures and ages over sessions that end with a commit, a close or a crash; validation against an image; features; copies |
| `PdbParts` | `PDB1`, `DBI1` | the pools, DBI, symbols, modules and sources that the threads of a process have open of one PDB: counts, sharing, refusals, closing |
| `PdbCopy` | `PDB1::CopyToW2`, `PDBCopy` (`pdb.cpp`) | what a copy, a stripped or a minimal one has: contributions, scopes, strings, frames, publics |

Each of the three suites holds components that share no state: `part` selects one of
them, and the suite's state graph is the sum of theirs. The properties are stated in the
components and gathered in the suite, as conjuncts guarded by `part`; an action property
needs no guard, because the other parts do not move. The components that theorems speak
of are extended, not instantiated: `MCContents` extends HashMap, NameMap, NameMapPages
and TypePool, `MCFiles` FpmAlloc, ByteStreams and DbiStreams, `MCDebugInfo` SymRecs and
FrameData, and what the suite checks of them are the properties that the theorems state.

A call of a component is one step where the code holds a lock throughout or has no
other thread; what fails inside a call is a choice of how far it came. Every module
says at its head what it takes as given. The suites give the constants of their
components values.

## Runs

| run | module | what it checks and shows |
|---|---|---|
| `msf_transacted` | Msf | With room for everything: `TypeOK`, `CheckInvariants` (the code's own check, on every call), `CommittedExtentKept`, `Loadable` and the refinement `Transacted` |
| `msf_faults` | MsfProofs | A file of five or so free pages, one failing write or extension anywhere: `NoSharedPage`, `CommittedNotAllocatable`, `Loadable`, `ValidFpmKept`, `IInv`, `Transacted` |
| `msf_retry` | Msf | *violation* of `Loadable` by a caller that goes on after Commit failed |
| `msf_power_loss` | MsfPowerLoss | *violation* of `MediumLoadable`: the header reaches the medium first |
| `files` | MCFiles | `ReservesHold`, `DataPagesAccounted`, `ImplementsPageSet` (FpmAlloc), `StreamsRight` (ByteStreams), `CommittedRight` (DbiStreams), `PdbsRight` (PdbMatch, PdbCopy, PdbParts, MsfOpen) |
| `pdb_table` | PdbTable | `HandlesCounted`, `ExclusionHolds`, `ClosedInTheEnd` |
| `stream_open` | StreamOpen | `ExclusiveAlone`, `ReleaseNotLost`, `NamesApart`, `WaiterServed` |
| `stream_names` | StreamOpen | *violation* of `Reverse`: a deletion and a new name cross |
| `contents` | MCContents | `MapRight`, `ImplementsDictionary`, `NamesRight`, `IndicesKept`, `PagesRight` (NameMapPages), `PoolRight`, `EditsLegal` (TypePool), `TypesRight` (what names stand for in TypePool; TpiVersions, UdtLines, TypeMerge, TypeServers, Mismatches), `GlobalsRight`, `LocatorRight` |
| `debug_info` | MCDebugInfo | `ModTableRight` (ModTable, DbgData, LinkNotes), `FramesRight`, `PublicsRight`, `ModSymsRight`, `SymRecsRight`, `LinesRight` |
| `string_ids_written` | MCContents | *violation* of `StringRight`: the strings of a list are all written at one place |
| `type_promotions` | MCContents | *violation* of `SchemaKept`: with three definitions of a name, the next session takes another one |

**Bounds.** *Msf*: two user streams of at most two pages of two cells, two byte values,
four calls. Two calls that rewrite a stream, a commit and one more call are enough for a
page to be freed, to become free and to be reused, for an append on a page of the
committed state, and for a crash at each of the points between; loads are not counted.
With `PnMax` 14 nothing runs out, with 9 the table, its list and a stream fill the file.
`Growth` 3 makes the file end inside and at the end of an extension. *FpmAlloc*: words
of 3 bits, a reserved pair every 6 pages, two pages to a full map, 24 pages: every
boundary of the code occurs several times (a word inside a pair's interval, a map of one
and of two pages, the file at its limit), and the allocations go on until the file is
full. *ByteStreams*: a file of up to five pages that grows by four, on a disk that is
full at once, at the least size, after the first growth or never, with views that end in
the first growth or after it. *DbiStreams*: four stream numbers for six owners (one
module), so that a freed number meets a new owner and numbers run out; one failed write.
*PdbMatch*: two sessions and one image, each session ending in any of its ways.
*PdbTable*: two files, two clients, three opens: one PDB in the queue while another is
in use, and a client that comes back to a PDB in a mode that fits or does not.
*StreamOpen*: three threads, so that two wait while one holds or one is overtaken; five
opens, so that a thread comes back. *HashMap*: four keys that collide everywhere, at the
table's end or sometimes, over tables of one to six slots. *NameMap*: four names, one
the other's conversion, hash functions that collide and disagree, one failed write.
*TypePool*: two definitions of one name (three in `type_promotions`), a record in their
chain and a source line; a pair of the offset index every four bytes; all four ways to
open. *TypeMerge*: six objects that make, use, share and fail to find precompiled
headers and compilers' PDBs, pools of five records, two objects open at a time.
*TypeServers*: two modules, every kind of reference, three disks. *TpiVersions*: each
version, and eleven ways in which a pool of the current one or of version 5.0 was
damaged; three types, of which two share a bucket. *UdtLines*: four records of types or
three of lines, five definitions under names that differ in case or have a scope, lists
with the same data members and others; two texts, lists of at most two strings.
*Mismatches*: two modules of three objects, two clients, two sessions. *GlobalSyms*: two
names that differ in case and one in another bucket, three of four records, a module
with up to two of them; with minimal debug information, a symbol is referred to once by
each module; a module without a type map leaves one reference behind. *Locator*: the
scenes `MCScenes`, one or two locators. *ModTable*: two modules, three contributions,
two of them of one module, three lists of files for two modules, counts that overflow at
two. *FrameData*: blocks that touch, overlap and nest, addresses of four bits, three
removals, four places where frames start. *Publics*: two names in one bucket, three
addresses in two sections, three additions, in the creating session too, a table of two
thunks one of which leads to the table. *ModSyms*: five contributions with scopes in
scopes and one that ends too much, three additions, three closes. *SymRecs*: two
threads, three records on three pages, old places of one symbol that are new places of
another; a module is closed once, any may fail to open. *MsfOpen*: two names of a file
and a stream, tables of either format with a hole, with no streams or full. *PdbParts*:
two threads, one or two handles of each kind, which the two can share. *DbgData*: two
keys, two enumerators. *LinkNotes*: one module, three command lines. *Mli*, *ModLines*,
*PdbCopy*: the inputs listed in the suites, each built so that two subsections,
contributions or scopes meet in every order. Deadlock is checked where the system can
always go on (Msf can be reopened) and not where all calls have been made.

**Fairness.** PdbTable: time passes, and the cleanup thread runs when it can (an
operating system thread; each of its waits ends by itself). It is weak fairness: the
lock it takes is held for single steps. Nothing is assumed of clients. StreamOpen:
weak fairness for each thread's next step inside a call, and for the release that a
client owes. Opening and deleting are not fair. That `WaiterServed` holds although a
woken thread can be overtaken depends on the finitely many calls (`MaxOpens`): with
endless newcomers the code promises no more than that no release is lost
(`ReleaseNotLost`, which is independent of the number of calls). The other modules
state no liveness: their calls end, and nothing waits.

Each property is backed by a change of one definition that makes it fail (the
definitions marked *Mutant* in the modules; `PROJECT.json` pairs them).

### What the violations show

* `msf_retry`. Commit adds the freed pages to the allocatable ones before it writes
  the page map and the header (`msf.cpp:1815`). When one of those writes fails and
  the caller goes on, the next operation may write over pages of the state on disk,
  against "All operations are transacted". This concerns failures from `CommitFpm`
  on; after a Commit that failed earlier (table or list) a caller may go on, and the
  other runs and the proofs include that. After a failed `pIStream->Commit`, `init`
  is skipped too.
* `msf_power_loss`. "At this point, all pages but hdr safely reside on disk" (1825)
  holds for a crash of the process, not for a loss of power: nothing is flushed.
* `stream_names`. `Strm::Delete` frees the stream number before it removes the name;
  a new name can get the number in between, and is then the one removed.
* `string_ids_written`. `GetStringForId` advances a copy of the pointer it was given
  (`tpi.cpp:2275`), so each string of a list is written over the one before it.
* `type_promotions`. A type that is asked for again becomes the head of its name, and
  a hash adjuster is kept for the next session unless no type before it in the chain
  has a larger index (`tpi.cpp:1194`, 1220). That is right while all but the head
  descend, as the comment at 1106 says; after two promotions they do not. With 3,2,1
  and promotions of 2, 1 and 2, the last removes the adjuster, and the next session
  makes 3 the head. It takes three definitions of one name: `contents` checks
  `TypesKept` with two, for which one promotion undoes the other.

### What the models also show

These are not runs, but the modules carry each of them as a branch, a constant or a
comment, so that a reader who changes the code can see what changes.

* *Msf.* A failed operation leaks the pages it had allocated until the file is
  rewritten, so that the assertion of `checkInvariants` (1386) no longer holds in a
  debug build; NonTransactionalEraseStream that fails half way leaves the stream with
  pages that are free (`pc = "broken"`: nothing is claimed about going on from there,
  except that the file can be loaded).
* *MsfOpen.* A file with the most streams its format has is saved in a release build (only
  an assertion objects, `msf.cpp:720`) and cannot be opened again, because `load` wants
  one less: `told.file` "full", of which `OpensRight` says nothing. New files get the big
  format, and OpenStream on an empty stream creates a file even for a reader.
* *ByteStreams.* A failed create leaves an empty file that cannot be opened again; the
  ahead-grown size stays after a crash; a read behind the end of a file that was cut
  short extends it when it is mapped.
* *NameMap.* When two MBCS names have one UTF8 form (code pages have characters
  twice), the conversion finds the index of the first (`nmt.h:691`), which by then stands
  for the UTF8 name, and records it for the second; `getNewNIForOld` (`nmt.h:886`) goes
  one step, so that the second index gives the MBCS bytes of the first name. `FormsApart`
  excludes it.
* *PdbTable.* "Allow RS => RE/WS transition" (`pdb.cpp:502`) never happens for WS: the
  multistream file was opened for reading, and MSF::Open refuses to write (`msf.cpp:2335`).
* *NameMapPages, TypePool.* A client that goes on after a failed read or commit is in
  `RetrySpec`, which the runs leave out: `fSwitchToWriteMode` (`nmt.h:328`) has then
  read half of the text, and a header write that failed (`tpi.cpp:1760`) is not
  repeated. Of a commit of types after a failed one, which `Close` makes too
  (`tpi.cpp:1803`), nothing is claimed: a client is taken to drop the PDB, for which the
  write error is set.
* *TpiVersions.* Records of the interim version are never converted (`tpi.cpp:777`), nor
  those of version 5.0 in the file when a header of 7.0 is written over them, against
  the assertion of `tpi.cpp:1667`: `Readable`. A PDB that is committed between the open
  of an interim pool and the commit of the pool has lost the records (`whole`). A writer
  of a pool that is shorter than its header says appends behind the real end, where its
  offsets do not lead ("mended"). `fRehashV40ToPchnMap` cannot be reached.
* *UdtLines.* `fIsModifiedClass` (`tpi.cpp:849`) compares as many type indices as both
  records have, so an edit from a struct to a union and back may change the table of
  virtual functions; who gives a source line again is not told its index (1256).
* *Mismatches.* `MergeTypes` leaves `m_tmdImod` as it was, so with `MergesEarly` the
  wrong module is named; the table of mismatches starts empty in each session, and the
  setters of a context overwrite the one that all enumerations share.
* *PdbParts.* `internal_CloseTPI` (`pdb.cpp:1632`) counts down outside the lock that
  OpenTpi holds (`raced`); modules have no count, so that the first close takes a module
  from whoever shares it (`met`); a shared pool has the mode of its first opener; clients
  are taken to close what they opened of a DBI before the DBI.
* *DbgData.* A writer's Find searches data that only Close sorts; a clone of a writer's
  data has positions of its own, against the assertion of a single reference.
* *LinkNotes.* AddLinkInfoW replaces as many bytes as the Unicode record has, not the
  UTF8 one that it writes, so that a command line of longer letters is cut; the failures of
  QueryLinkInfo on old PDBs leave its stream open; a DBI that is created commits its
  emptiness before it clears `/LinkInfo`.
* *DbiStreams.* `Dbg1Data::Close` (`dbi.cpp:4400`) tells nobody of a failed save: the
  header keeps the number of a stream that is gone, which another owner may get.
  `CommittedRight` says how far that goes: to the owners that are `hurt`, the debug data
  and whoever shares its number, until they are saved under numbers of their own. A PDB
  whose header names a stream that is gone, or one twice, cannot be cleared (`clearDBI`).
* *ModTable.* With `Reopens`, a module opened twice in the session that creates the
  DBI (`dbi.cpp:2883`) keeps the contributions of its first time.
  `SecAddrRightAnyKind` is what QueryAddrForSec would promise without the conditions
  on its callers (`dbi.cpp:1905`).
* *GlobalSyms.* A module that finds no type map (`mod.cpp:2299`) returns TRUE without its
  globals, and the references to its old ones stay in the table for good (`left`): each
  record is counted once for each module that refers to it and once for each reference
  left behind. With minimal debug information `removeGlobalRefsForMod` looks at every
  second neighbour of what it takes out (`gsi.cpp:1021`), so that references of the
  module stay; those of the others are all there (`OthersKept`).
* *Publics.* A public that is replaced or removed in the session that creates the PDB
  stays in the address map (`gsi.cpp:2044`, against 2117-2122): `dead`, with which
  `PublicsRight` says what the map then has. A location that is not among the thunks
  leaves the position there, so that `next` first gives the rest of the thunks
  (`gsi.cpp:2411-2424`, against the comment at 2342-2344): `LocateRight`.
* *ModSyms.* A module refused for a scope that does not end has already packed its
  globals, and its old references are not given back (`mod.cpp:3107-3114`).
* *SymRecs.* In PDBs that are widened, a reader of a record and a reader of a module
  can wait for each other (`dbi.cpp:2764`, `mod.cpp:2029`). A record that is marked as
  converted before its module fails to open (`dbi.cpp:2688`) keeps its old place for
  good, as the client is handed it: `lost`, and no other record is affected.
* *ModLines.* A clone has neither its original's section nor its kind
  (`mod.cpp:3682-3698`): to ask it for the lines of the section it was made in
  dereferences NULL (3837), which clients are taken not to do, and from the next section
  on it gives those that are not of IL. After a read that failed, the next query takes
  the buffer, of which some was read, for the lines (3877). An enumerator that is
  released frees the buffer of the others (3734), which then have nothing they may be
  asked for, and the next query appends the files again (`mod.cpp:3891`).
* *PdbMatch.* With `Rehashes`, a PDB whose signature is a hash of its content can be
  replaced by another with the same signature. A PDB that is cleared, committed and
  not written again still matches its image (`pdb.cpp:870`).
* *TypeServers.* `ClosePdbFrom` (`tm.cpp:132`) closes the PDB of a map and keeps its
  types' handles; when the map is not reloaded, `~TMTS` closes those again after they were
  freed. `ClosedOnce` says that it is these maps only.

## Proofs

Eight modules are checked with TLAPS. Their theorems hold for every value of the
constants that the assumptions named below allow.

| module | theorem | property |
|---|---|---|
| `MsfProofs` | `Invariant`, `TypeCorrect` | `IInv`, the inductive invariant; `TypeOK` |
| | `AlwaysLoadable` | `Loadable` |
| | `CommittedPagesSafe` | `CommittedNotAllocatable` |
| | `AppendInPlaceSafe` | `CommittedExtentKept` |
| | `PagesOwnedOnce` | `NoSharedPage` |
| | `ValidMapSafe` | `ValidFpmKept` |
| | `ImplementsStore` | `Transacted`: Msf implements TransStore |
| | `PagesAccounted` | `CheckInvariants` |
| `FpmAllocProofs` | `Reserves` | `ReservesHold` |
| | `Accounts` | `DataPagesAccounted` |
| | `MapsAreSets` | `ImplementsPageSet`: FpmAlloc implements PageSet |
| `StreamOpenProofs` | `ExclusiveOpensAlone`, `NoLostRelease`, `NamesGetOwnStreams` | `ExclusiveAlone`, `ReleaseNotLost`, `NamesApart` |
| `PdbTableProofs` | `CountsRight`, `ExclusiveModes` | `HandlesCounted`, `ExclusionHolds` |
| `ByteStreamsProofs` | `StreamsKept` | `StreamsRight` |
| `DbiStreamsProofs` | `CommittedReadBack` | `CommittedRight` |
| `DebugInfoProofs` | `ReferencesLead` | SymRecs: `SymRecsRight` |
| | `FramesAreRight` | FrameData: `FramesRight` |
| `HashTableProofs` | `Invariance` | HashMap: `IInv`, the inductive invariant |
| | `MapIsRight` | `MapRight` |
| | `MapIsDictionary` | `ImplementsDictionary`: HashMap implements Dictionary |
| | `NamesAreRight` | NameMap: `NamesRight` |
| | `IndicesStay` | `IndicesKept` |
| | `TextIsRead` | NameMapPages: `PagesRight` |
| | `TypesAreRight` | TypePool: `PoolRight` |
| | `AppendsAreLegal` | `EditsLegal` |

**The file (`MsfProofs`).** Assumptions: `MsfAssumption` (at least one page grows, the
file holds a table, its list and the maps, ...) and `StopsAfterFailure`, that callers
stop using a file after a Commit that failed with the page map or the header;
`msf_retry` shows that `Loadable` is false without it.

None of these properties is inductive. That the file can be loaded is preserved by a
header write only because the new table, its list and its page map have been written
completely and to pages outside the old state; and that they were outside depends on
which pages were ever free. `IInv` therefore says, besides types: what is on disk
(`DiskInv`: the header leads to a list, a table all of whose pages are equal, no
shared page); the table in memory owns its pages (`MemInv`); until the page map is
made, memory and disk are apart (`AwayInv`: no page of the disk's state is
allocatable, `comm` is the disk's map, and a page common to both tables is at the same
place and no shorter in memory, `Linked`); and how far a commit has come
(`TableInv`, `HdrInv`, `FlushInv`). The proof goes action by action: `TableStep` and
`LinkStep` say once what any operation that puts fresh or own pages in a table entry
preserves; `DiskKept` says that writes outside the disk's pages leave it as it
was; each action's lemma supplies the pages. In-place appends and erases, which do
write to pages of the disk's state, are handled by `LinkOK` and by `PutSparesTable`.

**The file as a store (`MsfProofs`).** The mapping takes what the streams in memory
hold to `current` and what the file would reopen with to `committed`. A stream holds
the same as long as its pages do (`SamePages`), so a step that writes outside the pages
of a state leaves that state; an append in place writes behind the end of what the
committed stream has, and only the header write makes the one equal the other, because
`HdrInv` says that the table on its pages is the table in memory. `PagesAccounted` is a
second induction with `NothingFails` (no fault is allowed and the page map has room):
then free, freed and used pages make up all of the file's pages at each call, and
the freed pages are just those the committed state has and the current one has not.

**The page maps (`FpmAllocProofs`).** Assumption: `FpmAssumption`, the parameters of
the code's page sizes. A first part gives for each operation on words which pages it
makes free (`Allocated`, `Freed`, `Room`, `Added`, `WordsBack`) from the arithmetic of
quotients; a second shows that the search finds the least free page, and that it
reserves at most one pair and then ends (`FoundRight`). The invariant `IInv` has to say
where the pairs that are not yet reserved can be: they are the last of the free pages
(`PairsLast`), they lie less than one extension below the end of the file or behind it
(`FileOK`), and the end is odd, so that an extension never ends between the two pages
of a pair. From this follow that the page map, whose pages are `cbPg` apart and end
before the last extension, is written to reserved pages (`MapPagePlace`), and that the
page found is never more than a pair behind the end of the file (`FoundPlace`), which is
what the code asserts. The same is said of the map that would be loaded (`DiskOK`), so
that a load keeps it.

**Waiting and counting.** `StreamOpenProofs`: a thread that waits for a stream nobody
holds has its event set, or a thread between its wake and its second look will pass the
release on; `NamesApart` speaks of behaviours without deletions, and `stream_names`
shows that it has to. `PdbTableProofs`: the reference count is the number of handles
plus one for the queue (`AllCounted`), and the modes of a PDB are the join of those its
clients asked for (`ModesJoined`). `ByteStreamsProofs`: the view, the file and the size
agree up to what was cut (`SeenBy`, `KeptIn`, `Trimmed`). `DbiStreamsProofs`: in each
step of `fInit` and `fSave` an owner that is not hurt has the number alone, its stream
holds what the owner was given, and every stream has an owner, in memory and in the
committed header (`Good`, which takes the set of the hurt as a parameter). Of memory
that is said as long as the client knows of no failure (`Sound`). The theorem assumes
`LooksAtError`, that a client told of a failure does not commit, and nothing about the
failures nobody is told of. `DebugInfoProofs`, first part: what the three conversions
have done to a record depends on its module's mark alone (`RecOK`, `ModOK`), and on
whether its module failed to open, whichever thread is in between (`ThreadOK`).

**The hash map (`HashTableProofs`).** Assumption: `HashMapAssumption`, that hashes are
natural numbers and that the empty key is no key and no value. The invariant says that
each mapping is in the slot where the search for its key ends, that the counts of the
full slots and the limit agree, and that an enumeration has ahead of it the keys it has
still to return. The search is a function of the table and never of how the table came
about: an insertion takes the first free slot that the search passed, a tombstone never
ends a search, and the probes reach every slot, so a table below its limit has room.
Growth puts the mappings one by one into a new table; that the new table never has to
grow itself is shown by the least mapping for which it would. A save and a reload leave
the table as it was, because the order of the slots is kept (`Rank`). That the map
implements a dictionary follows from what `find` finds before and after each call.
Induction over numbers is done here, as in `FpmAllocProofs`, by least counterexample.

**The name map (`HashTableProofs`).** Assumptions: `NameMapAssumption`, that hashes are
natural numbers and that a UTF8 form is ASCII to a second conversion; and `FormsApart`,
that no two names have the same UTF8 form. `NmtInv` relates the map, its stream and what
was committed (`Coherent`). In the map (`Good`), the table has each index of the buffer
once, a free slot, and for each index no free slot before one of its name (`Leads`); what
an index is called after a conversion is part of that, so a rehash, an addition and a
conversion are all the insertion of indices into the first free slot of their way
(`PutIn`). Growth, reload and conversion go over the old table or buffer, which is
induction over numbers again (`RehashOK`, `ConvertOK`). Of the stream it says that its
first part is the map's as far as the map counts it as reloaded (`KeptOK`), after each
write that may fail (`WrittenOK`), and that it is all of the map once it counts as saved;
of what was committed, that the map goes on from it. That is why an index is never
given a second meaning: a commit takes only a stream that holds all of the map.

**Its pages (`HashTableProofs`).** Assumption: `PagesAssumption`, that there is a name
and each has a length, its NUL included. The loop that reads pages is a function of the
page it is at and of the pages that were read; that there is such a function, and that
it reads all pages from the string's first to the one with its NUL (`LoadRight`), is
shown from the last page back. A lookup comes to page i only with all pages from the
string's first to i read, and goes on behind the block of pages that it has. `PagesSpec`
has no second try of a switch to the buffer that failed: the text that the first one
left there is no text.

**The frame data (`DebugInfoProofs`).** Assumption: `FrameDataAssumption`, that the code
of an image lies in the lower half of the addresses, where differences taken as signed
order as numbers do, and that no frame starts at the header, address 0, which marks a
frame that goes. `FrameInv` says that the blocks kept are together the code that went
(`BlocksRight`), however they were joined and grown, and from the first new frame on
that what is in memory is what will be stored (`FramesKept`). Frames are counted, as
several may start at one place. That the sort puts in order and keeps each count is
proved from the places it gives (`SortedIs`, `CountPermuted`). The sweep never goes back,
and is right because both lists are in order: a block it has passed ends before the
frame, and one behind it starts no earlier than the one it stopped at. The blocks
need not be disjoint for that.

**The type pool (`HashTableProofs`).** Assumption: `TypePoolAssumption`, that each
definition has its name's chain and each other record its own, that records have a
size, and that pairs of the offset index are some bytes apart. `TypesSpec` is a client
that gives a pool up once a commit of it failed. `PoolInv` has three parts. Of the
tables (`TablesOK`): each record once, and each index once, in its record's chain. Of the
session (`SessionOK`): the streams have the first records and their hash values, the
blocks and hash values not yet written are all that they lack, and each pair of the
offset index has the place of a record, the first record among them (`PairsOf`). Of the
disk (`DiskOK`): with some such pairs and some adjusters, it has what a commit of the
kept pool writes (`SavedAs`). `PoolRight` alone is not inductive: a load is right only
if the pairs on the disk are places of records, and a commit appends to streams that
other commits began, so both have to be said of the session too. Where records begin
grows with their index (`Offsets`), so the pair at or before an index leads to the record
with that index (`LoadsRecs`). The next session's chains are built by putting each type
before the earlier ones, and then moving the adjusters' types to the front, in whatever
order they come: each index stays once in its chain (`LoadsChains`). What a name
stands for after a load is not part of it: with three definitions it may be another
type, which `type_promotions` shows; with two, `contents` checks `TypesKept`.
`EditsLegal` needs the same invariant: a call puts one type at the front of one
chain, so only that type's name can stand for another type than before, and if the name
had one, the code has compared the two.

**Only model-checked.** Liveness (`ClosedInTheEnd`, `WaiterServed`) and whatever needs
`ENABLED`. The properties of modules whose tables are built by recursion or folds over
sequences (what a name stands for in TypePool, TypeMerge, GlobalSyms, Publics, ModTable,
ModSyms, Mli, ModLines, PdbMatch, PdbCopy, TypeServers, Locator, and the modules of this
kind that share their runs): what a recursive definition computes for every input needs
induction over data, which is out of the prover's reach, and several of them declare
RECURSIVE operators, for which tlapm has no SMT backend.

## Not modelled, and why

* Commits of a file in the small format, `CopyToW2` of the file, compression:
  alternatives of the same logic.
* Running out of memory: the code handles it at almost every line, by returning.
* `OpenInStream`: it opens as OpenEx2W does, but in no table.
* What is in a record whose type indices have 16 bits or whose names have old forms
  (`WidenTi`, `fConvertTypeRecStToSz`): that a record is converted, and when, is modelled.
* The name table's string buffer and its enumeration (`nmtni.h`), and `NMP`.
* `cbind.cpp` (a C interface of one call per method), heaps, pools and buffers, the
  tools, and the declarations of formats: no state of their own, or no protocol.
* `src.cpp` beyond opening and closing (`PdbParts`): names over named streams; its state
  is Map's and Strm's.

## Plan

1. *Done*: the file, its maps, byte streams and opening; the open PDBs and their parts;
   named streams; the tables of names, types of all versions and symbols; the parts of a
   DBI; copies; the locator; the proofs above.
2. Proofs about the parts that need no induction over a fold: LinkNotes and MsfOpen
   (what comes back), UdtLines (`LayoutKept`).
3. `SrcImpl`; the name table's buffer; buffers and bit sets as the refinements of the
   sequences and sets that the other modules use.
