# CINST: a TLA+ model, its checks and its proofs

CINST finds container misuse in Java programs. It instruments the bytecode of a
running JVM, writes a trace of object and container events to `data-<pid>/`, and
turns the trace into a database that query scripts read. This directory models
the parts of `cinst/` whose correctness depends on the order in which threads,
files and processes act. Paths below are relative to `cinst/`.

## 1. Inventory

| Part | State it keeps | Operations | What makes it correct |
|---|---|---|---|
| Trace recorder, `native/recorder.hpp` (objects in `native/native.cpp:25-94`) | per thread and record kind: buffer, position, open file | `add`, `sync`, destructor, `addString` | a file is a prefix of one thread's stream; what is lost, and when, is bounded |
| Object tags, `native/native.cpp:887-1101` | shared environment `jvmti_env[0]`, per-thread cache environment, `global_tag`, `new_called` | `init_jvmti`, `get_tag`, `set_tag`, the `addTag...Record` callbacks | an event is attributed to the object it happened to |
| Container callbacks, `native/native.cpp:513-826` | thread-local `enable`, `is_sampled_container` | ten `addContainerRecord...`, `addContainerLineInfoRecord`, `enableRecord`, `disableRecord` | an operation's two records can be brought together again |
| Pairing, `scripts/build_container_db.py` | cursors into three files | `records()` | each row of `CONTAINERS` joins the records of one operation |
| Address resolution, `scripts/src/addr2id.cpp`, `scripts/include/record_reader.hpp` | `addr_map`, files rewritten in place | `insert`, `query`, `process_...`, `main` | a record gets the id of the object it is about |
| JVMTI agent, `agent/src/agent.cpp`, `client.cpp` | `mode`, `vm_init`, `transformed_classes`, one connection per request | `Agent_OnLoad`, `MethodEntry`, `ClassFileLoadHook`, `VMDeath`, GC callbacks | every class is instrumented once, loading never hangs, the program is not taken down |
| memmove preload, `preload/preload.cpp` | `_gc_start`, per-thread recorders | `memmove`, `set_gc_start` | moves of the collector, and only those, are recorded |
| Field values, `native/native.cpp:270-511` | per-thread `stringMap`, string files | `add(Static)FieldValueRecord...` | a string id denotes one string |
| Build script, `scripts/build_container.sh`, `build_container_db.py`, `csv2db.py` | database, `addr-id.dat` | three programs in a row, a transaction each | a failed or killed stage does no lasting harm |
| TIMELINE loader, `scripts/src/csv2db.cpp` | table `TIMELINE` of the same database | load files by prefix, one transaction | every record is loaded once |
| Loop query, `scripts/RT_query.py` | operations of one container after another | merge gets into loops, pair neighbouring loops | counts exactly the loops that follow one another |
| Other queries, `scripts/*_query.py` | none | one SQL statement each | counts mean what they say |
| Server and Java agent | only as jars | rewrites classes, inserts callbacks | external |
| `benchmarks/`, `scripts/` (top level), `docs/`, sqlite | - | evaluation harness, vendored code | not modelled |

How they interact: the agent asks the server to rewrite each class; rewritten
code calls the JNI callbacks of `native.cpp`, on the thread of the traced
program; callbacks read and write JVMTI tags and append to thread-local
recorders; the preload library appends to its own recorders while the collector
runs; after the process has ended `build_container.sh` runs `addr2id`,
`build_container_db.py` and `csv2db.py` over the files, the user runs `csv2db`, and
the queries read the database.

What is hard about it: callbacks of several threads share environments without
a lock; a thread's verdict about an object is cached for ever; nothing flushes
the buffers of a thread that never ends; kernel thread ids, which name files,
are reused; related records are connected only by time stamps; the tools
rewrite their input and can be killed in the middle of it; the stages after them
go on regardless, and share a database whose lock one of them ignores; class
loading races with the retransformation of classes already loaded. `PROJECT.json` lists these hazards at their lines.

## 2. Modules

| Module | Models | Checked as |
|---|---|---|
| `TraceLog` | the promise of the trace files, as two counters per stream | refined by `Recorder` |
| `Recorder` | `Recorder<Record>` and the life of the threads that own one | `MCRecorder`, run `recorder` |
| `RecorderProofs` | theorems about `Recorder`, the refinement of `TraceLog` among them | tlapm |
| `FieldValues` | value mode: field value callbacks, `stringMap`, string files | `MCFieldValues`, run `fieldvalues` |
| `FieldValuesProofs` | theorems about `FieldValues` | tlapm |
| `TagStore` | `init_jvmti`, tags, every callback that reads one | `MCTagStore`, runs `tagstore`, `tagstore_null` |
| `TagStoreProofs` | theorems about `TagStore` | tlapm |
| `ContainerTrace` | container callbacks of one thread, and the pairing | run `container` |
| `ContainerTraceProofs` | theorems about `ContainerTrace` | tlapm |
| `AddrMap` | `addr2id`, with the heap and the records it reads | `MCAddrMap`, run `addrmap` |
| `RecordFile` | `transform_local` and the reading loop of the loader, word by word | run `recordfile` |
| `Addr2idProofs` | theorems about `AddrMap` and `RecordFile` | tlapm |
| `GcPreload` | `set_gc_start`, the GC callbacks, `memmove` of all threads | `MCGcPreload`, run `gcpreload` |
| `GcPreloadProofs` | theorems about `GcPreload` | tlapm |
| `Pipeline` | `build_container.sh` with its three programs, `csv2db`, two queries | `MCPipeline`, run `pipeline` |
| `LoopDetect` | `RT_query.py` | run `loops` |
| `DatabaseProofs` | theorems about `Pipeline` and `LoopDetect` | tlapm |
| `Agent` | `agent.cpp` and `client.cpp` | `MCAgent`, runs `agent`, `agent_readme` |
| `AgentProofs` | theorems about `Agent` | tlapm |

`Pipeline` is the composition: trace files, the list of allocations and the
database are the variables its programs share. It takes from `AddrMap` that an
unbroken run resolves what it can, from `RecordFile` that a rewritten file is
replaced up to some record, and from `ContainerTrace` that the rows of one build
are the records of the trace; what it adds is that the programs fail, are killed,
run again and meet one another. The tracing side is connected by what it records:
`Recorder` shows which part of a stream reaches its file, `ContainerTrace` starts
from such files (its `ThreadEnds` and `ProcessExit` are the two ends `Recorder`
allows), `TagStore` shows which addresses and times records carry, `GcPreload` which
moves do, and `AddrMap` starts from such records.

Operators named `X_Something` directly before a definition `X` are slips a
change to the code could make; the project's mutants put them in the place of
`X` and each then breaks the property it is listed with.

### Recorder

`buffer[t][k]` is `_buffer` up to `_pos`, `fout[t][k]` says that the file is
open, `file[k][n]` is the file `<k>-<n>-<pid>`. Records are abstracted to
(thread, number of the `add` call), because the class never looks at them.
`Construct` is the constructor of the thread_local objects; the kernel hands
out any id no running thread has. `Add` is `add()` with the `sync()` it may make,
`Destroy` the destructors at the end of a thread, `ProcessExit` the end of the
process, which runs no destructor. A `sync` of a full
buffer hands `std::ofstream` 4096 records at once, far more than the stream holds
back, so its bytes are in the file; what a destructor writes is closed by it.

### FieldValues

Everything here is thread-local except the files, which are named after the
kernel id, so the model follows the threads that get one id, one after the
other. `memory[s]` is the Recorder of stream `s` (buffer, rows that wait in
`fstrout`, which files are open), `disk[s]` its record file and its string file;
both remember the thread that wrote them. A stream is the five flags `concate()`
makes a file prefix of. A number is stored modulo its width (2 * `Half` values for 32
bits, 4 * `Half`² for 64, so that the proofs can speak of every width), a float as its bit
pattern; a string record holds its id modulo `IdSpace`, the row in the string
file the whole id. `std::ofstream` holds rows back until one does not fit, then
writes all of them; the argument `fits` of `NewString` chooses. Records carry,
beside the stored data, what they were made of (`of`, `id`, `by`) for the
properties to compare.

### TagStore

One step makes at most one access to shared state. `InitCheck`, `InitStore` and
`InitCapable` are the three accesses of `init_jvmti` to `jvmti_env[0]`; the other
1024 slots are never used afterwards and left out. An environment is named after
the thread whose `GetEnv` made it. `GetEnv` may fail at each of its three calls, which
`init_jvmti` only logs: `InitStoreFails` leaves NULL in `jvmti_env[0]`, also over the
environment another thread already uses, and `UseNull` is whichever thread goes
through it first; `OwnEnvFails` is a failure for a slot or a pointer of the thread's own.
The history variable `failed` keeps who failed, and `EnvBeforeUse` says that nothing else
leads to a NULL environment. The result of `AddCapabilities`, which the code drops too, is
taken to be success. A failed `GetTag` (no capability yet, null
reference) leaves `local_tag` alone, which is 0 in the first case and
uninitialised in the second; a null lookup therefore delivers -1 or any earlier
tag. `Allocate` and `Reach` are the traced program: any thread may name an object as
soon as it is allocated, since a constructor may leak `this`; the history
variable `escaped` keeps the objects for which that happened before
`addTagNewRecord`, and the properties that need it make an exception of them. Most
callbacks read the clock last; PUTFIELD reads it on entry and AASTORE between its two
lookups (`Stamp`), so that the NEW callback of a leaked object can come in between and the
record be older than it: for PUTFIELD with either object, for AASTORE with the holder.
`Refs` are the references the program stores and passes, with or without null. The flag `enable` is left to `ContainerTrace`.
The branch `if (tag == 0)` of the PUTFIELD and AASTORE callbacks is dead:
`get_tag` never delivers 0.

### ContainerTrace

All state is thread-local and files are per thread, so one thread is enough.
`stack` holds the operations in progress; `Exit` is the callback at the end of a
container method, `Return` the callback of its call site. A callee may be of a
class without instrumentation (`plain`), a call site may have no callback, an
exception (`Unwind`) skips one. The second half is `records()`: `ForSkips`,
`ForTakes`, `WhileMoves` and `Yield` are its branches, `read` is
`ContainerBufferSelector.read`. `MaxTies` readings of the clock may give the time of
the one before.
`is_right_after`, which nothing reads, is left out.

### AddrMap

`addr_map` is a function from addresses to sets of (time, id) entries with the
flag `unique` for the variant that ignores time. It is built record by record:
`at` is the place in the files, `insert_new_records` and `insert_gc_records` are the
bodies of the two reading loops, `process_new_file` and `process_gc_file` go to the next
file, `build_addr_map` from the NEW files to the gc files and from those to the data. `memmove` stamps its records
with `Epoch + clock`, since it reads CLOCK_REALTIME. The initial state chooses
whether records hold heap addresses, which are reused and move, or tags. Heap
addresses are above all ids; tags are small numbers like ids. Both are assumptions on
the traced JVM: `native.cpp:125` keeps 32 bits of the address shifted by 3, so the model's
addresses are these 32-bit values, and they differ for different places only while the
heap lies below 32 GB; that they exceed all ids means that the heap begins high enough. `main` may be started
`MaxRuns` times over the same directory and be killed while it reads, among the
data files, or at any record of the NEW files. Directory order is the same in
every run, as it is for a directory whose files are only rewritten.

### RecordFile

A word is (record, place in the record, replaced or not). `Read` is `fread` of a
block with the transformers, `Write` the seek back with `fwrite` and `fflush`. A
read that meets the end of the file leaves the position behind a last part of a
record, so that the seek back, which counts whole records, is off by that part:
the model does the same and the properties say how far the damage goes. `Killed`
stops the writing of a block after any word.

### GcPreload

`AddEvent` is `event_recorder.add` in `set_gc_start`, `SetFlag` the assignment after
it; between the two, and between the four steps of `memmove` (the real move, the
test of the flag, the clock, the record), every other thread may act. Collector
threads move only between the two callbacks and are idle when the second one
starts, which the JVM guarantees; threads of the program call `memmove` at any
time. Events are stamped by CLOCK_MONOTONIC, moves by CLOCK_REALTIME, which is `Epoch`
ahead of it (a constant: nobody sets the clock meanwhile). `EventsEncloseMoves` therefore
compares them after `Epoch` is taken off, and says that without that every move of the
trace lies after every event. `StreamRoom` is what the `std::ofstream` keeps back.

### Pipeline

Records hold tags, as all container records do (`native.cpp:534`): every object has a
tag and an id, the position of its NEW record, and both are numbers from one range, so
the tag of one object may be the id of another. `query` answers as `addr_map` does, also
when a tag and an id of different objects meet in it after a kill; distinct times of
allocation are assumed. The queries join by number: a row that `addr2id` did not
rewrite counts for the object whose id its tag happens to be. That makes the never-get
report wrong after a first run that was killed before it rewrote anything, and stays so, as
nothing removes rows; `NeverGetRight` therefore asks that every row names its holder or
nobody, and `TagsOnlyAtFirst` says when builds with tags can come about. `Load` lists
what `csv2db` reads, in directory order: records `addr2id` rewrites (PutField, AAStore,
Construct, Use, NEW) and records it does not (gc, Free, Event), which lie in `TIMELINE` with
what was recorded beside rows that hold ids; `LoadsInOneForm` is about the former.
Moves, and what the map makes of them, are in `AddrMap`. `shell` is the stage of `build_container.sh`,
`pos` how far `addr2id` has rewritten. The list is written when stdio likes and at
`fclose`: a kill leaves any number of lines and perhaps a part of one, cut in a column
or inside its last number. A failing stage does not stop the script, since it has
no `set -e`; Ctrl-C does. sqlite has one writer at a time: a Python script takes
the lock with its first INSERT and waits for at most five seconds, the loader
never waits and does not look at the result of `sqlite3_step`. One
`build_container.sh` runs at a time. The tables are kept as the list of committed
transactions, and `NGC_query` and `pre_waste_query` are the two queries on them.
`TYPEMAP` and `FIELD`, which are filled as `CLASSNAME` is, are left out.

### LoopDetect

The rows of the table are chosen one by one, container after container, and go
through both passes of the script. `Loops`, `Long` and `Pairs` define, on the rows
alone, what the report should contain: `Fusable` is the set of pairs of loops over one
container with nothing between them among the rows, `Gets` the set of the gets in their first or
second loops, and the numbers in the report should be the sizes of these sets. The rows are
those of the five operations the query selects (`RT_query.py:67`); `contains` and
`iterator` are traced as well but never selected, so a pair may have them in between.

### Agent

`pc[t]` is the position of a thread in `ClassFileLoadHook`, with one step for the
lookup, the insertion, the request, the answer and, after the hook has returned, the
definition of the class by the JVM. A thread that looks up or
inserts while another inserts meets the unlocked hash table: its insertion may
be lost, an entry overlooked, or the process may crash (`HookCrashes`). A
connection that breaks while a hook waits leaves the class unchanged, hands the
JVM unset memory (`ReceiveFails`), or keeps the thread in the loop of `recv` (no
step). The JVM is external: a retransformation starts from the original bytes, and the JVM
may refuse it, before the hook (`RetransformClasses`) or after it (`Refuse`), which the loop only
logs; a class whose loading is refused can be loaded again. `failed` holds the classes this happened
to or whose bytes did not arrive. `cause` says what aborted the program: `Agent_OnLoad` (in two steps,
around the answer to the hello), the hook and `VMDeath` each make a connection whose
`socket`, `connect` or `send` can fail with a living server too (`ClientFails`), the hello asserts
its status, and results of JVMTI and JNI calls are used unchecked.
The two GC callbacks are in `GcPreload`.

## 3. Runs

| Run | Instance | Shows |
|---|---|---|
| `recorder` | 3 threads, 2 ids, 2 kinds, buffer 2, 4 adds | files are prefixes (`FilesArePrefixes`), an ended thread is complete unless its id was reused, loss is at most a buffer, a writer never rewrites its file; `Recorder` implements `TraceLog` |
| `fieldvalues` | 3 strings for 2 ids, 1 and 2 bit numbers, buffer 1, 3 callbacks, 2 threads with one kernel id | numbers survive the record format, an id never denotes a wrong string before ids wrap, one row per string over the four files, tables of ended threads are complete unless the kernel id was reused |
| `tagstore` | 2 threads, 2 objects, 1 callback of any kind each besides NEW, 13 addresses | a NULL environment is used only after a failed `GetEnv`, records name their objects, no stale "not sampled"; only PUTFIELD records, with either object, and AASTORE records, with their holder, can be older than an allocation, and only if the object leaked; tags never change. Null references are in `tagstore_null` and in the proofs |
| `tagstore_null` | container callbacks with null | **violated**: null is not recorded as 0 |
| `container` | 4 operations, nesting 2, buffer 1, 2 equal time stamps | mispairing happens only between two records that have lost their partner; no pair is missed; the rows are a matching even with equal stamps; the pairing loop ends |
| `addrmap` | 2 objects, 2 addresses or 2 tags, 2 NEW and 2 gc files, 2 moves, 1 other record, 3 runs with kills | ids of unmoved objects are right, also after a second run; a kill costs names and never gives a wrong one, as long as records hold heap addresses |
| `recordfile` | records of 3 words (2 of them addresses), 3 per block, 0 to 7 records and every cut | a file is replaced up to some word at every moment; every whole record gives a row; the loop ends, at a full last block too |
| `gcpreload` | 2 collector threads, 1 of the program, 3 collections, 2 moves each | every move of the collector is recorded once, and between the events of its collection if the offset of the two clocks is taken off its stamp (as recorded, moves lie after all events); strays overlap a collection; loss of events is bounded |
| `loops` | 5 rows over 2 containers, 2 places, indices 0 to 2 | the first pass finds the maximal loops, the result counts the neighbouring ones among the five selected operations |
| `pipeline` | 3 runs of the script, 1 load of 4 records, 1 kill, 4 records of 2 objects, a tag that is the id of the other object | an unbroken `addr2id` can be repeated; the never-get report is right after one complete build if no build took tags for ids, which happens only before the first `addr2id` that ended or after a torn one; the pre-size report counts once per build; a load is a suffix of the records, its rewritten rows all tags or all ids; all programs end |
| `agent` | 2 threads, 3 classes (two of one name), all kinds of options, server may die, calls may fail, 1 class may be refused | instrumentation is complete but for the named race and the classes that failed, one request per name, what can abort the JVM and when; with a server that lives hooks return and the loop ends |
| `agent_readme` | no options | **violated**: the documented command line aborts |

`TypeOK` is checked by the runs of the two modules whose proofs need it. In the
other modules it documents the variables, and only the proofs (section 4) establish it:
it says nothing about the code that the listed properties do not.

All runs switch deadlock checking off: a traced process and a tool that has
ended have no next step, and both end in every model.

Why the bounds are enough for what is asked. Two threads are all that a race on
one slot, one hash table or one cache needs; three threads on two ids give one
reuse with a running bystander. A buffer of one or two records reaches the full
buffer, the first and a later write of the file within three or four adds.
Three strings for two ids wrap around once; three callbacks are enough for a row
in one stream's file and records in another's, before and after a reuse of the
kernel id; with 1 and 2 bit words every value of every type is tried. `AddrSpace` 13
with first tag 10 makes the second object's tag the last one the width allows.
Nesting 2 is `HashSet.add` calling `HashMap.put`; four operations hold a nested
pair with a stray before and after. Two addresses for two objects force reuse,
two moves allow a chain or a swap of owners; one record that is not NEW is enough,
since such records never influence one another; three runs are a killed one, one that
repairs or spoils, and one after it. Seven records in blocks of three end inside
a block, and zero, three and six at the end of one. Two collections suffice for a
stray that is recorded in the later one; the third fills the stream. Five rows
hold two loops of two gets with something between, or at the border of two
containers. In `Pipeline` a kill and three runs allow a torn `addr2id` before or after
one that ended, a failed repair and a rerun; two objects are needed for a list cut between lines, and a
container of each kind for the two queries.

Fairness. `ContainerTrace` and `RecordFile` assume weak fairness of the tool alone, a
sequential program that runs until it ends. `Pipeline` assumes the same of each
program that was started, and nothing of the user; a Python script that waits for
the lock goes on because sqlite gives up after five seconds. `Agent!FairSpec` assumes that a
thread inside the hook goes on, that a living server answers, that the JVM defines the class,
and that the main thread runs its loop; it assumes nothing of class loading, of the end of the
program, or of a broken connection.

### Two disagreements

* `tagstore_null`: `get_tag` (`native/native.cpp:954`) reads an uninitialised
  variable for a null reference, so the record holds 0xFFFFFFFF or an old tag;
  `scripts/null_query.py:44` counts `REF_ID == 0`.
* `agent_readme`: `README.md:38` of the repository starts the agent without
  options; `agent/src/agent.cpp:155` hands the null pointer to `parse_args`
  although line 154 has computed the default.

## 4. Proofs

Every safety invariant and every action property that a run checks is a theorem, for all values of the constants: the bounds of the runs (operations,
threads, adds, kills, nesting, file lengths) are parameters there, restricted only by
the assumptions named in the modules (numbers are natural, buffers and blocks are
not empty, special values such as `NoThread` or `Null` are not ordinary ones; in `AddrMap`
there are finitely many objects and heap addresses are above all ids; in `LoopDetect`
there is a place). Each
proof module has the same plan: an inductive invariant `IInv`, a conjunction of named
parts that TLC checked on the instances of the runs first; lemmas for the operators;
one lemma per action or per part; `Invariance`, that `IInv` always holds; `TypeCorrect`; and
one theorem per property. `Addr2idProofs` and `DatabaseProofs` do this for two modules each;
the invariants are `MapIInv` and `FileIInv`, `IInv` and `LoopIInv` there.

None of the properties is inductive alone. What had to be added says why the code is
right, so it is worth reading:

* `RecorderProofs` (`FilesPrefix`, `ExitedComplete`, `LossIsBounded`, `FilesGrow`,
  `Refinement`). That a sync keeps a file a prefix needs `NothingInBetween` (the buffer
  continues the file exactly where it ends), which another thread's sync keeps only
  because of `DistinctTids`; `LossBounded` needs `BufferBounded`; `FreshThreads` and
  `ProcessGone` say what a thread looks like before its first and after its last step.
  `Refinement` shows that `Recorder` implements `TraceLog`: an `Add` is a
  `Record`, with or without the write of the whole buffer; the destructors are a `Finish`,
  which may empty the file of one earlier thread for each kind; `Construct` is a `Begin`
  and the end of the process a `Kill`.
* `GcPreloadProofs` (`MovesRecorded`, `MovesEnclosed`, `OnlyOverlapping`, `EventLoss`).
  What the flag means (`FlagFollows`), how many collections and events there are in each
  position of the collector (`Counts`), that collector threads are idle outside a
  collection (`WorkersWait`), and what is already certain of the record a thread in
  `memmove` is about to write (`WorkerCalls`, `StrayCalls`): the record is made several
  steps after the move and the test of the flag.
* `TagStoreProofs` (`EnvironmentsSet`, `RightObjects`, `NegativesRight`, `AllocatedFirst`,
  `Stability`). A call in progress carries tags it has read (`TagsKnown`), times it has
  read (`TimesRight`) and a verdict it will cache (`Negatives`); each is a promise about a
  later step. `Private` is the reason a cached "not sampled" is safe: an object
  that does not leak `this` is known only to its thread until its NEW callback is over,
  and `Negatives` that this callback leaves its own thread's cache right. `TagsFresh` is the
  counter, with the width of the address in it; `EnvsFresh` covers environments
  that lose the race in `init_jvmti`. `EnvironmentsSet` and `Stability` hold with `GetEnv`
  failing anywhere: a failed call can take away the environment in use, but its thread is
  then inside `init_jvmti`, one step from going through NULL itself.
* `FieldValuesProofs` (`Survival`, `Resolution`, `Completeness`). `IdsDense`: the map of a
  thread is injective onto an initial segment of the numbers, which is what the code's
  `size()` of the map as the next id relies on. `Met` puts the rows and the records of all
  four streams together; that they agree with the map while the thread runs
  (`MetRight`) is why they agree with one another for ever (`MetAgree`). `OncePlaced`,
  `Opened` and `RowsWritten` follow a row through the stream that holds it back, and
  `HasRow` lists the only two ways in which it can be missing. `Survival` is two's
  complement and the bit patterns, for both widths.
* `ContainerTraceProofs` (`Matching`, `OnlyStrays`, `AllFound`, `FlagTies`). The trace half
  is `WellLogged`: files are sorted, an operation has at most one record of each kind, and
  nothing is recorded between the two records of one operation (`Adjacent`). While the
  thread runs this needs the stack (`StackOrder`, `StackFresh`): between the exit of a
  method and its line info no other operation can record anything, at any depth of
  nesting, also when the clock stands still. `PrefixWell` carries it over the loss of
  buffers. The pairing half (`Matched`) says that the records used are exactly those
  behind the cursors and no younger than those ahead (`InOrder`), that everything ahead is
  younger than the lines behind (`AheadYounger`), and that a line behind whose
  container record exists has its row (`PairedBehind`). `SkipStep` and `YieldStep` are the
  heart: a skipped line had no partner left to lose, and the nearest earlier record is
  the line's own if that exists.
* `Addr2idProofs`, on `AddrMap` (`NewIdsAgreeAlways`, `ResolvedRightAlways`,
  `KilledLosesOnlyAlways`). `Id` says without reference to the tool which id a NEW record
  gets: the number of objects up to it in the order of reading. `Written` is what the tracer
  guarantees, and it survives all rewriting because it speaks of `raw`, the address as first
  written: no object has two NEW records and no two have one time (`Distinct`), the records
  of an object not yet moved have one address (`Stayed`), and the next owner of that
  address comes after the last of them (`Owned`). `Tracing` is what this needs while the
  program runs, and ends with it. `MapRight` describes the map between two reads: every NEW
  record that was read has its entry, every entry is of such a record or of a move, and
  `unique` is off only where two records share the address. Moves have times after all
  others (`Times`), so they never come between an object and its records. `NewForms` and
  `EventForms` then follow addresses through any number of runs and kills: a NEW record
  holds its raw address or its id, and a nameable record its raw address as long as all
  NEW records do (`Unwritten`), its id, or, after a kill and with heap addresses, nothing.
  That ids grow by one needs an argument over all records read; it is a count of sets, and
  where an induction over places was needed, `Least` and `Greatest` take the first or last
  place in question instead.
* `Addr2idProofs`, on `RecordFile` (`Rewritten`, `RowsLoaded`). Before a read whole blocks are rewritten;
  before a write the next block is in the buffer, or the rest of the whole records with
  the position behind a part of one (`BeforeRead`, `BeforeWrite`); the seek back then lands
  on the block's start exactly when there is no such part, which is what `Sound` says.
  `Products`, `Division`, `Quotient` and `Remainder` are the arithmetic of places.
* `DatabaseProofs`, on `Pipeline` (`Rerun`, `Loads`, `Reports`). Unless it was killed among its rewriting of
  tags, the files hold tags only or ids only up to the point `addr2id` has reached (`OneForm`,
  `StillAsRead`): the reason it can be run again although it rewrites its own input, since in one
  form no two objects share a number (`ValApart`, `QueryOnly`). Once a run has ended they hold ids
  for good (`Settled`). `EndedWell` and
  `NamesInPlace` carry a finished stage over to the next one, `LoaderRight` and
  `LoaderCurrent` follow a load that is under way while scripts and `addr2id` run. `Reports`
  then is a statement about the two queries on any list of builds; its last part
  counts pairs of object and build.
* `DatabaseProofs`, on `LoopDetect` (`MergesLoops`, `CountsLoops`). The invariant names the
  rows each operation stands for (`Spans`): a maximal loop of gets with its length, or rows
  of other operations, one stretch after the other without a gap. `SpanAdded` and
  `SpanExtended` are the two things a row can do to them, `LoopIsSpan` and `SpanIsLoop` say that
  operations and maximal loops correspond one to one, which gives the cardinalities.
  `ConstIsGet` is why -2 for "get was not traced" does no harm: then there is no operation
  that could be taken for a loop. For the second pass `Past` says which pairs have been met when an
  operation is in hand; `OnlyNewPair` that a step meets one more at most, and
  `ResRight` that the result counts those met and their gets.
* `AgentProofs` (`Instrumented`, `AskedOnce`, `AbortsExplained`). `OneRequest`: for a name
  no race involved, one thread at most is between the insertion and the request.
  `OneHook` and `TodoLoaded`: a class is in one hook at a time, its loader's or the
  loop's. `SureOnTheWay`: the name of a class that will be instrumented is not in
  `transformed_classes` before the hook that gets the new bytes, and once that hook is
  over the JVM is left with instrumented bytes, and then the code is instrumented, unless
  the class is put into `failed`. `ModeKnown` and `ArmedLate` date the causes of an abort.

Only model-checked: liveness (`PairingTerminates`, `TransformEnds`, `ProgramsEnd`,
`HooksReturn`), since fairness and `ENABLED` are out of the prover's reach. The two runs that
end in a violation need no proof.

## 5. Plan

The system's own code is modelled but for what section 6 lists, and every safety
property the runs check is proved. What would add most:

1. the columns of `TIMELINE` (`sql_map`, `sql_bind`), for the loader;
2. the string streams of value mode in `addr2id`.

## 6. Not modelled

* Record contents other than the identity of objects and times (lines, class
  names, sizes), and so the columns of `TIMELINE` (`sql_map`, `sql_bind`): among
  them the address of a `Free` record, bound as a signed 32-bit number.
* The text of string rows and of the csv files, with their missing escapes, and
  the CSV form of records (`sync_csv`), a build option that is off; it prints floats
  as the numbers of their bit patterns.
* The tables `TYPEMAP` and `FIELD`; the queries other than `RT_query.py`,
  `NGC_query.py` and the count of `pre_waste_query.py`, each one SQL statement over
  the same joins.
* The string streams of value mode in `addr2id`: `main` does not name them, so
  their records keep addresses.
* `decreaseContainerFilterFlag`, `printArgs`, `putInt` and the other helpers of
  `native.cpp` that touch no state anything reads; `ClassPrepare`, `ClassLoad`,
  `MethodExit` and `FieldModification` of the agent, which do nothing.
* The server and the Java agent, of which the repository holds only the jars;
  benchmarks and plotting scripts.
* sqlite, which is vendored under `scripts/sqlite` and makes up nearly all lines of
  the repository (266 000 of 270 000); `Pipeline` models its lock and its
  transactions from how the scripts use them. Of the code of CINST itself, about
  4 000 lines, the modules stand for some 2 350.
