# Calculus: a verification development

Calculus is a package manager in the style of Nix, written in C. A Lua script
describes *derivatives* (a `fetch{}` is downloaded and checked against a hash, a
`derivative{}` is built by a shell script in a jail); the program plans which of
them are missing from the store, and makes them one after the other.

This directory holds TLA+ modules that model the program's core, TLC
configurations that check them on small instances, and theorems checked by
TLAPS. `PROJECT.json` lists components, runs, hazards and, for every definition
that models code, the lines it stands for.

    tlc -config BuildStack.cfg BuildStackProofs.tla      check a run (table below)
    tlapm BuildStackProofs.tla                           check the proofs,
    tlapm FetchersProofs.tla                             and these,
    tlapm BuildersProofs.tla                             and these,
    tlapm CalculusProofs.tla                             and these,
    tlapm JailProofs.tla                                 and these,
    tlapm LeavesProofs.tla                               and these,
    tlapm CommonProofs.tla                               and these,
    tlapm StreamsProofs.tla                              and these

## 1. The system

| component | code | state | operations |
|---|---|---|---|
| script environment | `calculus/luaenv.c` | Lua state, import cache, `library_set`, `teardown_scripts`, the Lua call stack | `import`, `use`, path and file functions, `env_run()` with the `_pre.lua`/`_post.lua` of libraries |
| string pool | `common/string.c` | 64 slots, marks | allocate, `s_pool_mark()`, `s_pool_unmark()` |
| git library cache | `luaenv.c`, `gittools.c` | a directory per remote and commit | `git_commit()`, `git_tag()`, `fetch_sha()`, `fetch_tag()` |
| recipe registry | `derivative.c`, `luaenv.c` | `registered_derivatives` (hash to pointer), `requested_derivatives` | `create_standard_derivative()`, `create_fetch_derivative()`, `request_derivative()` |
| recipe reader | `derivative.c` | the registry, recipe files | `derivative_read_recipe()` (not called yet) |
| build planner | `derivative.c` | `visited`, recursion, out queue | `get_buildstack()`, `resolve_dependencies()`, `buildstack_next()` |
| program | `calculus_main.c` | the plan | script, plan, build loop |
| fetch handler | `build.c` | store, `/tmp/fetched_file` | `fetch()`, `extract_archive()` |
| standard build handler | `build.c`, `fs.c`, `command.c` | store, `/calc/build/<name>`, log | `build_standard()`, `monitor_jail()`, `copy_directory()` |
| jail | `build.c` | mounts of the new root, pipe | `enter_jail()`, `mount_dependencies()` |
| hashing | `crypto.c` | an ingest: chunk, count, intermediate hash | `sha256_append()`, `sha256_appendf()`, `sha256_finalize()` |
| CAR archives | `archive.c` | statics of the reader: state, buffer, counts | `car_hash()`, `car_archive()`, `car_archive_ro()`, `car_extract()` (not called yet) |
| streams | `stream.c`, `stream_aux.c` | status, buffer and cursor of a stream | `sm_write()`, `sm_read()` and the readers and writers of numbers, hashes and texts on top of them |
| string operations | `common/string.c` | buffers, lengths, capacities | setting, adding, trimming, cutting, comparing, each in place, new (`_a`) and from the pool (`_p`) |
| paths | `common/path.c` | the stack of bytes of `p_norm()` | `p_dir()`, `p_file()`, `p_cat()`, `p_pre()`, `p_norm()` (not called yet) |
| mermaid diagram | `calculus_main.c`, `crypto.c` | `mermaid_visited`, the buffer of `sha256_to_hex()` | two walks of the graph |

How they interact. `main()` runs the script (environment, which calls the git
cache and the registry), asks the registry for the requested derivatives, has the
planner walk their graph, and calls `build_derivative()` for each entry of the
plan until one fails. The builders talk to each other only through the file
system: a build finds its dependencies under `/calc/str` because the planner put
them earlier. The planner and the builders also share the file system with every
other invocation of the program; there is no lock anywhere.

What is hard here:

* **several invocations at once**: they share the store, the build directories,
  the git cache and a single temporary download file, and only `mkdir()` keeps
  them apart;
* **crashes and failures**: builders write straight into the store path, and
  `fs_exists()` of that path is what the planner calls "built", so that whatever a
  kill or an error path leaves there counts as done;
* **three processes per build** with one bounded pipe, two exit statuses and
  SIGPIPE between them;
* **order**: of the plan, of dependency lists, of nested library set-ups and their
  teardown;
* **identity**: a derivative is its pointer; interning by hash has to make that
  sound;
* **C's own traps**: arrays whose ownership moves, a null pointer `calloc()` left,
  slots of a pool that keep their buffers, null bytes, buffers that grow, a static
  buffer returned to several callers, padding at a chunk boundary.

What makes each component correct, in the words of the properties that state it:

| component | correct when |
|---|---|
| planner | the plan has every dependency before its users (`PlanClosed`), nothing twice (`PlanOnce`), exactly what is missing (`PlanExact`), and planning ends, whatever others do to the store |
| registry | a handle is its recipe (`HandleIsRecipe`), a store path pins the whole closure (`PathPinsClosure`), the planner's assumptions hold (`PlannerInput`) |
| fetch | nothing unverified is reported as fetched (`FetchedFileVerified`, `ArchivePureAlone`), one extractor per directory (`OneExtractor`), store directories only grow (`DirOnlyGrows`) |
| standard build | what is reported as built exists and is complete (`BuiltExists`, `BuiltWhole`), one copier per store path (`OneCopier`); a running script has its root to itself (`Isolated`, which does not hold) |
| jail | the log is complete (`LogComplete`), success is the script's own (`SuccessIsTheScripts`), the dependency order decides (`ListOrderDecides`), nobody waits for ever (`MonitorReturns` as long as the log is read; `BuildReturns` without that condition does not hold) |
| program | over failures, kills and reruns: dependencies are there when a jail starts (`DepsPresent`), sealed objects never change (`SealedImmutable`), the store's life cycle (`StoreLifecycle`) |
| environment | teardown is complete, once each, users before what they use (`TeardownOrder`), pool slots balanced (`PoolBalanced`), no module or set-up run twice by one path (`RunOnce`; `RunOncePerFile` and `ReuseIsReady` do not hold) |
| git cache | complete libraries stay (`CompleteForGood`); what is handed out is complete (`HandedComplete`, which does not hold) |
| reader | the registry stays closed under dependencies (`RegisteredClosed`), no refusal without a reason (`GivesUpForAReason`); it reads what the name says, into a pointer or null, and leaves the registry its arrays (`ReadsWhatIsNamed`, `PointerOrNull`, `ArraysOwned`, which do not hold) |
| diagram | one line for each derivative needed, one arrow for each dependency (`DiagramRight`) |
| hashing | nothing is lost at any seam and the digest is that of the padded message however it was cut (`DigestOfPadded`) |
| archives | a directory has one identity, archived or hashed (`HashIsOfArchive`), and comes back as it was (`OneBufferRestores`; `ExtractRestores` and, when writes are short, `SuccessRestores` do not hold) |
| streams | a recipe is written unmistakably and inside its buffer, read back as it was or not at all, and the texts read are freed (`RecipeSurvives`) |
| strings | after any calls, the bytes, length, capacity and null byte agree (`StringsSound`); the length is that of the text (`LengthIsOfText`, which does not hold) |
| paths | parts, joins and the canonical form lead where the path leads (`PathMeans`) |

## 2. The modules

| module | models | composed by |
|---|---|---|
| `BuildStack` | `get_buildstack()`, `resolve_dependencies()` | `Calculus` |
| `BuildStackProofs` | its theorems on order, duplicates and exactness | |
| `Registry` | interning and requests, with the Lua functions in front | `Leaves` |
| `ObjectStore` | files and directories as sets of blocks | `Fetch`, `BuildStandard` |
| `Fetch` | `fetch()`, `extract_archive()` | `Fetchers`, `Calculus` |
| `Fetchers` | one or several invocations that fetch | |
| `FetchersProofs` | its theorems, and those on a fetching invocation alone | |
| `BuildStandard` | `build_standard()`, `monitor_jail()`, `copy_directory()` | `Builders`, `Calculus` |
| `Builders` | one or several invocations that build | |
| `BuildersProofs` | its theorems, and that on a build alone and without failures | |
| `Jail` | parent, outer process and builder with the log pipe | |
| `JailProofs` | its theorems | |
| `StoreSpec` | abstract: the life of a store object | refined by `Calculus` |
| `Calculus`, `MCCalculus` | `main()` over several runs, failures and kills, made of `BuildStack`, `Fetch` and `BuildStandard` | |
| `CalculusProofs` | its theorems, the refinement of `StoreSpec` among them | |
| `LuaEnv` | script environment with the string pool | `Leaves` |
| `GitCache` | cache of git libraries | `Leaves` |
| `RecipeReader` | `derivative_read_recipe()` with its recursion | `Leaves` |
| `Mermaid` | `mermaid()` | `Leaves` |
| `Leaves` | checks these four and `Registry` side by side | |
| `LeavesProofs` | the theorems of these five | |
| `Sha256` | chunking and padding | `Common` |
| `CarArchive`, `MCCarArchive` | writing, hashing and reading archives | `Common` |
| `Streams` | a recipe through the streams and back | `Common` |
| `Texts` | what the searching, trimming and cutting functions of strings compute | `Strings`, `Paths`, `Streams` |
| `Strings` | dynamic strings with their buffers | `Common` |
| `Paths` | operations on paths | `Common` |
| `Common` | checks the library's parts side by side | |
| `CommonProofs` | theorems on hashing, archives and paths | |
| `StreamsProofs` | theorems on strings and streams | |

`Leaves` and `Common` are drivers: a variable names the one component that runs in
a behaviour, the others rest in a state with nothing to do. Nothing is lost by
that, as the components they combine have no variable in common.

**BuildStack.** Derivatives are the numbers `1..N` in registration order; since a
dependency list holds pointers that exist already, edges go downwards
(`Registry!PlannerInput` is where that is checked). The C recursion is `stack`;
a frame is a node and the loop index. `Enter` is the head of
`resolve_dependencies()` (visited list, `fs_exists()`), `ResolveRoot` and
`ResolveDep` are the two loops, `Push` the postorder append. `present` is the
store; `Others` changes it between any two steps. `found` is a history of the
positive answers of `fs_exists()`, because the plan's guarantees are relative to
what the walk saw.

**Registry.** A recipe is a record of name, script and dependency handles; a hash
is the term it is computed from (hashing as injective, the assumption every
content-addressed store makes), so a path is a term as well. The two `create`
functions look the hash up, check the tag of what they find and intern or append.
A script is any sequence of calls.

**Fetch, BuildStandard.** The content of an object is a set of blocks `<<n, k>>`:
the k-th part of what derivative `n` should contain; blocks of 0 are wrong bytes.
Open files keep their identity across `unlink()` (`fd` is `path` or `orphan`),
since a second invocation may remove or truncate what the first has open. Every
library or system call has a failing disjunct that takes one from `MaxFaults`, and
goes where the code's `goto` goes.

Of a jail, `BuildStandard` has what others can see or disturb. `enter_jail()` mounts
the build directory on itself (`JailBind`), makes directories in it by their paths
(`JailMkdir`, `Parts` of them, eleven in the code, each of which fails if the entry is
there), makes it its root (`JailPivot`), and makes the rest, the output last, inside
(`JailInside`); then the script writes block after block (`Script`). `fs_rmdir()` takes
one entry away per step and stops at the first error (`RemoveDir`), so that the jails
of two invocations and the removal by either interleave freely: the directories of one
may be made in what the other has mounted, or in the directory that came to stand in its
place. `root` says of each process what it works in, or copies from: what stands at the
`path`, the same after others took from it (`torn`), or a directory that has been
removed (`gone`). `pivot_root()` fails in the last case, as removing a directory takes
the mount on it away; a script whose root goes later runs on and writes to
nowhere. `OpenLog` may fail and is not looked at: then nobody reads what the jail prints, and
a script that prints more than a pipe holds stays where it is (`JailBlocks`), as does
the parent.

`Fetchers` and `Builders` run the loop of
`main()` on top, in any non-empty crowd of processes: one alone, or several at
once; what the code promises only to one is stated under `Alone`.

**Jail.** Output is counted in chunks, the pipe holds `PipeSize`. A write blocks
while the pipe is full, and kills the writer when the reader is closed. The three
processes interleave freely. `DirsMounted = FALSE` is the code as it is;
`TRUE` is as if `mount_dependencies()` mounted directories like files, without
which no script could start and nothing behind that point would be explored.

**Calculus.** One invocation at a time, restarted up to `MaxRuns` times, killed at
any step (`Crash` drops all processes and keeps the disk: the jail's pid
namespace dies with its parent's process group). `FetchStep` and `BuildStep` are
the handlers' own actions by `INSTANCE`, a blocked jail included (`Stuck`); `PlanStep` is the planner's, with
`present` read off the disk. The graph is fixed by the instance (a diamond over a
file and an archive). A standard build whose dependencies are incomplete yields
wrong blocks.

**LuaEnv.** `import()` and `use()` know modules and libraries by a path that they do
not bring into canonical form (the caller's directory, a slash and what the script
wrote), so the keys of the caches are paths, and `Aliases` are the paths that lead to
the same place. Scripts are any sequence of calls, nested by running modules and
`_pre.lua` scripts; an error unwinds to the nearest `pcall()` (`guarded`), or to
the top. `log` is history. Pool slots are tracked because a mark taken by
`env_run()` or `load_library()` must find its slots intact when it is restored.

**GitCache.** A directory goes from absent through created, initialised and
fetched to complete; `mkdir()` is atomic. `Cleanup` removes nothing: the path was
freed and emptied before it is passed to `fs_rmdir()`.

**RecipeReader.** Frames hold the array under construction, 0 for a null pointer. A
file may hold anything: the recipe it is named after, another one, which may lead back
to a file that is being read, half of one, a fetch, or no recipe. Recipes themselves are
acyclic, as they hold the hashes of what they need. A frame keeps its file open while
it reads its dependencies, so that a circle of files ends when `fopen()` fails
(`MaxOpen`).

**Sha256.** `consume_chunk()` appends the chunk to `consumed`; two digests are
equal exactly if the same chunks were compressed. Message bytes are all
different, so a lost, repeated or swapped byte shows.

**CarArchive.** One directory is hashed, archived and extracted again, one action
per entry (`hash_single()`, `archive_single()`) and, for the reader, per byte or
buffer. A path is the sequence of its one-byte components; the header is one byte and
a length two; of the permissions only the write bit is kept. The entries of a
directory are visited in order: the k-th is the one that k - 1 others come before
(`Listing`). `ex` is the reader's
static variables. Its `state` (`extract_state`) and its place `at` in the switch, whose
cases fall through, differ where the code forgets to set the first: that is the
defect of `archive_buffers`. A write may fail or be short; the latter leaves the loop
over the data with bytes over, which are then read as attributes (`SuccessRestores`). A
read error in `car_hash()` is a panic. `after` is what stands in memory behind the buffer.

**Streams.** A recipe is written by the writes of `write_standard_derivative()` or
`write_fetch_derivative()`, one per step, to a buffer in memory or to a file. What
is there in the end may be cut off anywhere, or be another file, and is read by the
steps of `derivative_read_recipe()`. Numbers and hashes have two bytes. Memory
streams are at their end with the last byte, files when a read has gone beyond it
(`EndsNow`). `owned` follows the two texts that the reader allocates.

**Texts, Strings.** A string is its length, its capacity, what is allocated, and the
bytes up to the length and one more; `value` is history, the text that the calls
should have made. `memcpy()` is `Write`, so that a missing null byte shows as a
wrong byte. An operation and its forms for C strings, strings and formats are one
action, with the forms in place, `_a` and `_p` apart, because each of them computes
lengths and capacities of its own. Allocations do not fail (the code panics). A part that
goes past the end of its string is read on over the null byte (`ReadOn`) into the rest of
the buffer, which holds anything; only beyond what is allocated the behaviour is undefined
and the model stops. The string made like that has a null byte in its text, so C finds
its end before its length does (strings that are not so are `Plain`), and it is an
argument of later calls like any other.

**Paths.** The functions are operators, `p_norm()` runs one component per step over
its stack of bytes with null bytes between the names. The properties compare with
`Meaning`: the names from the root that a path leads to. It reads a path character
by character and enters a name when it is over (`Follow`), so it shares nothing with
how the code searches and cuts.

**Mermaid.** The C recursion is `stack`; `hex` is the one buffer of
`sha256_to_hex()`, which is why a frame of the second walk has a copy of its hash.

### The modular contract

At this commit the program does not build anything end to end: a fetch is tagged
as a standard derivative (`derivative.c:132`) and a directory is never mounted
into a jail (`build.c:510`). The run `registry_tags` and `JailUnmounted.cfg` show
the two. All other modules are checked at their own interfaces: `Calculus` and the
planner dispatch by what a derivative *is*, and the jail's later steps are reached
through `DirsMounted`. Mending the two lines changes no other module.

## 3. Plan

Written, in this order: planner and its proofs; registry; fetch; standard build;
program with its abstract store; jail; script environment; git cache; recipe
reader; hashing; archives; diagram; strings; paths; streams. With these every part
of the program that works is modelled. A composition of `LuaEnv` with `Registry`
would add nothing: `Registry` allows every sequence of calls, so also those that
scripts with modules and libraries make.

Every safety property of the planner, the builders, the program, the registry, the
jail and the parts of `Leaves` is a theorem, and of the library those of hashing,
archives, paths, strings and streams. `OneBufferRestores` remains with TLC, see the end
of section 5.

## 4. Runs

Each row is a configuration of the same name unless given; all are finite and
complete explorations. The states are distinct ones; with two workers none takes longer
than three minutes.

| run | module, cfg | instance | states | shows |
|---|---|---|---|---|
| `plan` | `BuildStackProofs`, `BuildStack.cfg` | all graphs of 3 derivatives with lists of up to 2 (repetitions included), all request lists, all initial stores, 2 changes by others | 96k | order, no duplicates, exactness, termination |
| `registry_tags` | `RegistryTags.cfg` | one fetch, twice | | **violation**: false hash collision |
| `fetch` | `Fetchers`, `Fetch.cfg` | a file and 2 archives, 1 or 2 invocations, 1 fault | 886k | verification alone; exclusion together |
| `fetch_mixup` | `FetchMixup.cfg` | 2 archives, 2 invocations, no fault | | **violation**: unverified entries in a directory |
| `build` | `Builders`, `Build.cfg` | 1 derivative of 2 blocks, jails of 2 directories, 1 or 2 invocations, 2 faults | 3.2M | completeness alone; exclusion and the exit code together |
| `build_isolated` | `BuildIsolated.cfg` | 2 invocations, no fault | | **violation**: files are taken out of the root of a running script |
| `program` | `MCCalculus`, `Calculus.cfg` | a graph of 4, 3 runs, 2 faults, 1 kill | 818k | dependencies present, sealed objects immutable, refinement of `StoreSpec`, every invocation ends or hangs on an unread jail |
| `program_residue` | `CalculusResidue.cfg` | a graph of 3, 2 runs, 1 kill | | **violation**: incomplete objects are not planned again |
| `jail` | `Jail` | up to 2 dependencies of any kind, pipe of 2, 4 chunks of output | 34k | log, status, order, termination |
| `leaves` | `Leaves` | 2 script names, a good and a malformed fetch, lists of up to 2, 4 registrations; 3 recipes, 3 open files, 1 file that is not what its name says; 2 processes with 2 libraries, 2 uses, 2 faults; 2 modules, 2 libraries of any shape, depth 4, 4 calls, 2 slots; all graphs of 3 with lists of up to 2 | 716k | registry, reader, git cache, teardown, pool, imports, diagram |
| `common` | `Common` | chunks of 5 bytes, reads of 3, 16 bytes; directories of up to 3 entries, a buffer of 12, 1 fault; recipes of up to 2 dependencies and texts of up to 2 bytes, buffers of 3 and 4, 1 failing call; a pool slot and a string outside, texts of up to 2 of 2 characters and null bytes; paths of up to 5 of 3 characters, joined with up to 2, 3 current directories | 138k | hashing, archives, streams, strings, paths |
| `archive_buffers` | `MCCarArchive`, `CarArchive.cfg` | the same directories, a buffer of 8 | | **violation**: larger archives are not restored |

Beside these stand configurations for what the code does not keep and a call or two are
enough to show, each of a property of the module that TLC finds violated; and one
with more strings than `common` has, which takes some minutes.

| cfg | module | instance | shows |
|---|---|---|---|
| `JailUnmounted` | `Jail` | 1 dependency | `AllMounted`: a directory is not mounted |
| `JailUnread` | `Jail` | 1 dependency, pipe of 3, 4 chunks | `BuildReturns`: a build whose log can not be opened may never return |
| `LuaPaths` | `LuaEnv` | 2 paths of one module, 2 of one library, 2 calls | `RunOncePerFile`: one file is run twice |
| `LuaReuse` | `LuaEnv` | 1 library, 2 calls | `ReuseIsReady`: a library whose set-up failed is taken for loaded |
| `GitHalf` | `GitCache` | 1 process, 1 library, 2 uses, 1 fault | `HandedComplete`: a half-fetched library is handed out |
| `RecipeNames` | `RecipeReader` | 2 recipes, 1 misnamed file | `ReadsWhatIsNamed`: another recipe than the one named is read |
| `RecipeNull` | `RecipeReader` | 2 recipes, all files good | `PointerOrNull`: a null pointer is followed |
| `RecipeArrays` | `RecipeReader` | the same | `ArraysOwned`: the registry's array is freed |
| `CarShort` | `MCCarArchive` | one file, a buffer for the whole archive, 1 short write | `SuccessRestores`: a wrong file and 0 |
| `StringsPast` | `Strings` | 2 pool slots and a string outside, texts of up to 2 | `LengthIsOfText`: a string longer than its text |
| `Strings` | `Strings` | the same | `StringsSound` holds |

**Why the bounds are enough.** Three derivatives give every shape of two edges
that meet or chain; the ordering and uniqueness of plans are proved for all
sizes anyway. Two invocations are enough for each exclusion property, which are
about pairs. Two blocks make an object that can be begun and not finished. Two
directories made by path in a jail (`Parts`) let another invocation come between them
and the first of them be missing under the second. One or
two faults let a failure hit the error path of another. Three runs let the store
go through an interrupted, a repairing and a quiet invocation. A pipe of two with
four chunks can be full twice. Two libraries nest in each other in both orders
and depth four lets them recurse. Two paths of one file are enough to run it twice.
Three open files (`MaxOpen`) are as many as an honest chain of three recipes needs, and one file
with another recipe in it (`MaxBad`) makes the chain a circle. Sixteen bytes are three chunks and one, reads
of three never divide the chunk of five, and the length field of two takes part of
the last chunk, as 8 of 64 do. Of the archives about half fit the buffer; a file and a
following entry are enough to be cut in every state of the reader. A recipe of up
to 12 bytes makes a buffer of 3 or 4 grow twice. A slot with capacities of 0 to
4 is reused too large, too small and exactly fitting; a text of two characters has
a first, a last and an empty part, and can have a null byte in front of another
character. `Strings.cfg` adds a second slot. Paths of five characters have two names with
dots or empty names among them, and with a current directory of two names (equal
ones, so that an off-by-one in finding the one before is not hidden by their
lengths) `p_norm()` has to grow its stack of 2 and to go back to the bottom.

**Type invariants.** The modules with state state one (`TypeOK`); the run `plan`
checks that of the planner, and the inductive invariants of the proofs have those
of the other modules among their parts.

**Fairness.** Where a run checks liveness, each process is plain sequential code
and its calls return: weak fairness of its steps. That assumes that a peer of curl stops
or breaks off, that libgit2 returns and that a build script whose output is read ends;
the program has no timeout for any of these. `Others`, faults, kills and the user have
no fairness, except that the user of `Calculus` starts the invocations the bound
allows. The end of a jail is not assumed where the code does not bring it about: if the
log could not be opened the script may block on its pipe, and the invocation stays
there. So `RunEnds` says that an invocation ends or is `Stuck` in just that place,
`MonitorReturns` is conditional on the log being read, and `BuildReturns`, without that
condition, is violated (`JailUnread.cfg`); for the same reason `Jail.cfg` does not check
for deadlock. All other passing runs do. Scripts are free to call each other for ever, so
`LuaEnv` has no fairness and nothing is said about their end. The recipe reader ends on
any files, circles included, as it runs out of open files: that holds as long as that
limit comes before the end of the C stack (a limit of 1024 files is usual; a
frame of the reader is a few hundred bytes). What
it ends with in that case is a null pointer, not an error about the circle.

## 5. Proofs

`BuildStackProofs` proves for every `N`, `MaxDeps` and `MaxEnv`, hence for every
acyclic graph, every request list and any interference:

* `PlanTypeOK`: `Spec => []TypeOK`;
* `PlanIsClosed`: `Spec => []PlanClosed`, the queue is in dependency order;
* `PlanIsOnce`: `Spec => []PlanOnce`, nothing is queued twice, nor what was seen in
  the store;
* `PlanInvariant`: `Spec => []PlanInv`, what they rest on.

`PlanClosed` and `PlanOnce` are not inductive: nothing in them relates the queue to
the visited list or to the recursion. `PlanInv` adds what the code's author has in
mind: a visited node is in exactly one place, on the stack, in the queue or found
in the store; the nodes on the stack descend strictly (so that the node entered
next can not be on it, which is where acyclicity is used); of the node of each
frame, the dependencies before the loop index are settled, that is queued or found,
or are the node of the next frame. When `Push` takes a frame off, its loop is over,
so all its dependencies are settled and earlier in the queue.

It also proves

* `PlanIsExact`: `Spec => []PlanExact`, a finished plan holds exactly the
  derivatives that the requests need and the store did not hold.

That nothing needed is missing follows from `PlanInv` and from every request being
visited (`RequestsVisited`). That nothing more is planned needs a reason for each
visit. The path from a request to the node would be the obvious one, and would need
an induction over the graph; `Reached` says instead that the visited nodes are in
*every* set that has the requests begun with and, with each node queued or on the
stack, the dependencies its loop has passed. A step that visits a node has just
passed it, so the node is in each of those sets; when the walk is over they are the
sets closed under needing, which are the ones `PlanExact` speaks of. The inductive
invariant is `ReachInv == PlanInv /\ Reached /\ RequestsVisited`.

`FetchersProofs` proves for every set of invocations, every number of derivatives
and blocks and every budget of failures:

* `OnlyOneExtracts`: `RunSpec => []OneExtractor`;
* `DirsOnlyGrow`: `RunSpec => DirOnlyGrows`;
* `FetchInvariant`: `RunSpec => []FetchInv`, what they rest on.

`OneExtractor` alone is not inductive: a second `mkdir()` could succeed if nothing
said that the directory of the first is still there. `FetchInv` says so (`DirMade`),
that only archives are extracted (`ForArchives`), and that a plain file is never a
directory (`PlainIsNoDir`), so that no error path unlinks a directory. All steps but
`MakeDir` and `Extract` are shown to be `Quiet`, that is, to change at most one plain
file and the job of their own process; one lemma then serves them all.

Of one invocation with the machine to itself it proves,
for every number of fetches and blocks and every budget of failures:

* `FetchedIsVerified`: `RunSpec => []FetchedFileVerified`;
* `OnlyVerifiedExtracted`: `RunSpec => []ArchivePureAlone`;
* `AloneInvariant`: `RunSpec => []AloneInv`, what they rest on.

Both speak of what was verified when it has become an object, and a good deal happens
in between. `AloneInv` says where the verified download is meanwhile: from the check
of its hash on the temporary file, or for a plain file the store, holds exactly what
was expected (`Checked`), and nobody else has a call in progress (`NobodyElse`). The
run `fetch_mixup` shows that the last is needed. What was reported stays right as it
is not fetched a second time (`NotAgain`) and a fetch writes no object but its own
(`Local`).

`BuildersProofs` proves for every set of invocations, every number of derivatives and
blocks and every budget of failures:

* `OnlyOneCopies`: `RunSpec => []OneCopier`;
* `DoneExists`: `RunSpec => []BuiltExists`;
* `BuildInvariant`: `RunSpec => []BuildInv`, what they rest on, with type correctness.

`OneCopier` alone is not inductive, as nothing in it says that the `mkdir()` of a second
process will fail: `DirMade` says that the store path of whoever copies is there, and a
directory. All other steps write nothing to it and move a job elsewhere.
That the script of an invocation works in a directory nobody else reaches into is not
among the theorems, because it is not so (`build_isolated`). For `BuiltExists`
the exit code has to be followed through the function (`JobSound`): it is a failure
until the jail has run, and after that it is success only where the object has been
made; and no step of anyone takes an object away (`Kept`). Of one invocation alone, what
is in an output directory, in a buffer or in the store is of its own derivative
(`FilesSound`), and nobody takes anything from the directory it uses (`JobOwn`). Steps
that remove entries from a build directory disturb the jobs of all who use it; `RobTo`
says what is left of these.

Of one invocation with the machine to itself it also proves:

* `DoneIsWhole`: `RunSpec => []BuiltWhole`, as long as no call has failed, an object
  reported as built holds every block of the output.

`Progress` says what has come of the output at each place of `monitor_jail()`; while
`copy_directory()` copies block `k`, the object holds the blocks before it (`Upto`),
and as they are copied in order, the end of the loop is the end of the output. A
call that failed stays on record (`FaultsStay`), so nothing is claimed from then on:
that the code does report an incomplete object after a failed read is one of the
defects of section 6.

`CalculusProofs` proves of the whole program, for every acyclic graph, every request
list and every number of runs, failures and kills:

* `ImplementsStoreSpec`: `Spec => StoreLifecycle`, it implements `StoreSpec`;
* `JailsHaveDeps`: `Spec => []DepsPresent`;
* `SealedStays`: `Spec => SealedImmutable`;
* `StoreStaysClean`: `Spec => []CleanStore`, without failing calls and kills the store
  holds only complete objects, and all that was requested;
* `CalculusInvariant`: `Spec => []CalcInv`, and `CleanInvariant`:
  `Spec => [](CalcInv /\ CleanInv)`, what they rest on.

`CalcInv` joins the three modules. While a build runs, the program works on one
derivative that is not sealed and whose dependencies are in the store. That is so
because it came from the front of a plan in which whatever is missing stands before
its users (`QueueGood`), and it stays so because what came before it was made
(`QueueKept`): a build that succeeds leaves its object in the store (`FetchGood`,
`BuildGood`), and one that fails ends the run. The planner's argument is made once
more here, for a store that does not change during planning, as the prover can not
cite the theorems of a module that is instantiated with other names; of the builders
it needs only that they write no object but the one being made. The abstract state
of an object (`Life`) is then followed through every step; a kill turns the object
being made into residue, or leaves it missing where nothing was written yet.

`CleanStore` says nothing of an object that is half made. `CleanInv` does: as long
as nothing has failed or been killed, it says for each place of `fetch()` and
`build_standard()` what the temporary file, the build directory and the store hold,
for the loops the blocks before the present one, so that no step finds a reason to
fail, and the end of each loop is the whole object. The output of a build is right
as its dependencies are, having been sealed earlier; the requests are followed from
the visited list through the queue to the store.

Of the registry `LeavesProofs` proves for every set of names, scripts and URLs, every length of
lists and any number of registrations, in any order of calls:

* `PointersAreRecipes`, `PlannerGetsItsInput`, `PathsPinClosures`: `Spec =>` always
  `HandleIsRecipe`, `PlannerInput` and `PathPinsClosure`;
* `RegistryInvariant`: `Spec => []RegistryInv`, what they rest on.

`RegistryInv` says that a recipe's dependencies are older than it (`DepsOlder`),
which is why the graph is acyclic; that a hash has the hashes of the dependencies
in it (`HashHoldsDeps`); that no two entries have one hash (`NoTwins`); and that
what a caller was handed is the entry he described (`HandedRight`). Equal paths
then mean equal recipes all the way down.

`JailProofs` proves for every number of dependencies, every size of the pipe and
every amount of output:

* `LogsAreComplete`, `SuccessIsReal`, `OrderDecides`: `Spec =>` always `LogComplete`,
  `SuccessIsTheScripts` and `ListOrderDecides`;
* `JailInvariant`: `Spec => []JailInv`, what they rest on.

The log is complete at the end because at every moment what the script has printed
is what is in the log and in the pipe (`NothingLost`), and the parent stops only at
the end of the pipe. The status is followed from the script through the outer process
to the parent (`PassedOn`). The shell and the `env` that have been found are the
first of the dependencies seen so far (`OrderSoFar`), and the script starts when all
have been seen (`AllSeen`).

`LeavesProofs` proves of the other four leaves, each for every value of its constants and
any length of its runs: `CompleteForGood` of the git cache; `RegisteredClosed` and
`GivesUpForAReason` of the reader; `TeardownOrder`, `PoolBalanced` and `RunOnce` of
the environment; `DiagramRight` of the diagram.

* Cache: whoever fetches has made the directory, which only a complete fetch turns
  into a library, and which is then left alone.
* Reader: each frame waits for the one above it, whatever files they read. In *every*
  set of well-named recipes that is closed under dependencies and has what was asked
  for, the frames descend, so that they are no more than the set has members, and within
  the limit of open files the recursion has no reason to give up (`Enough`, `StackRight`).
  Where files are misnamed nothing descends, and the registry stays closed nevertheless.
* Environment: the script of `env_run()` is at the bottom of the calls (`StackInv`);
  their marks are nested, and what is in use beyond them was left behind by an error
  (`SlotsInv`); a library is marked as loaded before it is set up, and set up by one
  call (`SetUpInv`); a library with a teardown script waits for it or has had it, once
  (`TeardownInv`), in the order of the nesting (`OrderInv`); a module that is running
  is not cached and runs once, unless it imports itself (`ImportInv`); all this is by
  paths, and two paths of one file are two modules. Errors unwind
  several calls at once, which is the case that decides about each of these.
* Diagram: each node is visited once and each turn of its loop draws one arrow,
  from the hash that was copied into the frame.

`CommonProofs` proves of hashing, for every chunk size, length of the length field and size of a
read, hence for 64, 8 and 4096, and for messages of any length:

* `DigestIsOfPadded`: always `DigestOfPadded`, nothing of what is appended is lost,
  repeated or reordered, and a completed digest has compressed exactly the padded
  message;
* `DigestInvariant`: always `DigestInv`, what it rests on.

`NothingLost` speaks of the bytes only. `DigestInv` adds what it needs from step to
step (`Behind`: which of input, file and padding are used up where) and what makes
the end come out even: only whole chunks have been compressed (`WholeChunks`), and
the padding was made for the length of the whole message (`TailMade`). So when the
padding has been copied, message and padding are a multiple of the chunk, what is
left in the chunk is less than one, and is therefore nothing. `PaddedIs` shows that
the number of zeros which `Remaining` implies is the one the standard asks for, the
only one below a chunk; that is where `used < Chunk - LengthBytes` at `crypto.c:256`
matters. The bytes of the length are left unevaluated (`Symbols`), as the prover has
no powers.

Of archives it proves for directories of any size and depth, and whichever call
fails:

* `ArchivesHashed`: always `HashIsOfArchive`, what `car_hash()` hashes is what
  `car_archive()` writes, or the latter is a beginning of it if a link ended it;
* `ArchiveInvariant`: always `ArchiveInv`, what it rests on.

Both walks take the same steps at different times, and an induction on the length of
a walk would be the obvious argument. `ArchiveInv` has sets of places instead that
no walk can leave: hashing is in *every* such set that contains the start, and every
such set that contains the place where writing is contains an end at which the
bytes are those that were hashed. That works as a walk is deterministic, which rests
on each directory being listed in one order only (`RankTaken`, `ListingIs`: the
ranks of a finite set are the numbers up to its size). TLC can not evaluate an
invariant about all sets of places; it checks `HashIsOfArchive` itself.

Of paths it proves for any names, current directories and sizes of the stack, and for
paths of any length:

* `PathsMeanTheSame`: always `PathMeans`;
* `PathInvariant`: always `PathInv`, what it rests on.

What a path means is told by where one is on the way along it (`Way`): in a directory,
with a part of a name. A path with a slash in it leads where its second half leads from
where the first half leads (`FollowSplit`), and slashes at the end of the first half and
in front of the second do not matter (`SlashesBehind`, `SlashesInFront`): from this
follow the joins (`TwoParts`, `JoinedIs`, `PrefixedIs`) and the parts (`DirRejoins`,
`NameRejoins`). For the loop of `p_norm()` `PathInv` says that there *are* names that
lead to where the path has come by, and that the bytes on the stack are these names,
each followed by a null byte (`Stack`). `..` takes the last of them because no name has
a null byte in it, so that the last null byte before the end is where the last name
begins (`NulBetween`, `StackPop`); and the slashes that replace the null bytes at the
end make the canonical form (`StackSlashed`). `PathBounds` assumes that letters are
characters other than dot, slash and null byte (paths consist of letters, dots and
slashes) and that `getcwd()` returns an absolute path, as it does when it does not fail.

`StreamsProofs` proves of strings, for any set of characters, any number of slots and
any texts:

* `StringsAreSound`: always `StringsSound`;
* `StringInvariant`: always `StringInv`, what it rests on.

`StringsSound` is about all strings there can be, those included that `s_sub_p()` made by
reading on over the end of another: their bytes, null byte and capacity agree as well, but
their text has a null byte in it. That `s_cmp()` is the order of the texts is stated,
as C can only see it then, of strings without one (`Plain`). `StringInv` adds the slots
that are not in use: they keep a buffer of some capacity, which the next `s_new_p()`
relies on. Each operation has a lemma that its bytes are
the new text with its null byte (`WrittenBehind`, `WrittenBefore`, `MovedToFront`,
`PartHolds`) and that it reserved enough for them, in place (`InPlaceIs`) or new
(`NewIs`). That `s_reserve()` reserves enough needs a power of two above every number
(`PowerAbove`), and that the limits of `s_sub()` and of the trimming functions lie
inside the text needs least and greatest elements (`LeastNatural`,
`GreatestBelow`). `CompareIs` is the order of `s_cmp()`: the first difference,
the null byte of the shorter text included, decides.

Of the streams it proves, for every recipe, every width of numbers and
hashes, every buffer, every place at which the file is cut off and every call that
fails:

* `RecipesSurvive`: always `RecipeSurvives`;
* `StreamInvariant`: always `StreamInv`, what it rests on.

A recipe is one sequence of bytes (`Encoding`) that the writer puts together field by
field and the reader, who knows no boundaries, takes apart by the lengths and counts
it finds. `StreamInv` says that both always stand where a field ends: what is written
is the encoding up to the end of the `j`-th write (`WritingRecipe`), and what is still
unread begins behind the `j`-th (`Past`), with the fields before it in `got`, as they
were written (`ReadingName`, `ReadingHash`, `ReadingBuild`). So each read finds its
field or is truncated, and then the file was. `StreamInv` also has which texts are
allocated at each place, for `TextsFreed`. That no other recipe has the same bytes
(`WrittenIsRecipe`) is the same argument without the file: two recipes with one
encoding agree on the first field, hence on where the next begins, and so on
to the end. Both need that a number is told by its bytes (`SameBytes`), and that the
fields follow each other as the lengths say (`FieldEnd`).

The inductions (over the bytes of a number, over the fields, over the characters and
names of a path) are arguments by a least
counterexample (`NoLeast`) on recursive functions that are given as such
(`PlaceValue`), as the induction theorems of the library can not be used. `StreamBounds`
assumes that the lengths of labels and dependency lists can be written as numbers of
`NumberBytes` bytes: the code has them in `uint32_t` and writes four bytes.

Assumptions on the constants, each named in the module that declares them: numbers
are natural (the blocks of an object, the depth of calls, the size of a read and of the
pipe and the number of recipes at least 1, a chunk longer than the length in it, some entry
in the cache); `Archive` is a set of derivatives and the graph is as `Graphs` says,
which is what `Registry` checks of the input; fetches with malformed hashes are
fetches; a directory is finite, names and contents are bytes, and the characters of
strings are bytes other than the null byte; `PathBounds` and `StreamBounds` are as above.
Of `Proc` nothing is assumed.

Only model-checked: liveness and `ENABLED`, which the prover does not handle; and
`OneBufferRestores`, which is about what two recursions over data compute (the reader of
archives byte by byte against the writer of a whole tree of entries).

## 6. Known defects at this commit

Shown by runs or by the configurations that follow them in section 4:

* `derivative.c:132`: the header of a new fetch is tagged `DT_STANDARD`; the same
  `fetch{}` again panics about a hash collision (`registry_tags`).
* `build.c:510`: dependencies that are directories are not mounted
  (`AllMounted`).
* `build.c:274`: all invocations download to `/tmp/fetched_file`, hash it by name
  and open it by name again to extract it (`fetch_mixup`).
* `derivative.c:218`: what a kill or an error left under a store path is taken for a
  finished object by every later run (`program_residue`). `StoreSpec` has it as
  `residue`: all that can be promised is that it is left alone.

* `archive.c:616`: the attribute byte is taken off the buffer but not off the count, so
  that the reader goes on beyond what it was given; and `extract_state` never becomes
  `FILE_LENGTH` or `FILE_DATA`, so that a file cut by the end of the buffer is
  continued as an attribute byte (`archive_buffers`).
* `archive.c:701`: a `write()` that takes only a part of the data ends the loop with the
  state as it was; what is over is read as the attribute of a next entry, and
  `car_extract()` may return 0 (`SuccessRestores`).
* `build.c:912`: a second invocation removes the build directory of a derivative, entry
  by entry, while the first one's jail is set up or its script runs in it, and makes it
  again (`build_isolated`). Both jails then make their directories under one path; a
  script that has lost part of its root and does not notice can end well, and what it has
  made of that is copied to the store by the first invocation, or, from the same
  directory, by the second. `copy_directory()` takes entries that vanish for the end of
  the output (`BuiltWhole` and the second half of `BuiltExists` need `Alone`).
* `build.c:784`: if the log can not be opened, nobody reads the pipe: a script that
  prints more than it holds blocks for ever and the parent with it (`BuildReturns`).
* `luaenv.c:147`: the keys of the caches of modules and libraries are not in canonical
  form, so one file by two paths is run twice (`RunOncePerFile`); luaenv.c calls the key
  an absolute path, and the path of a library final.
* `luaenv.c:339`: a library whose set-up failed counts as loaded (`ReuseIsReady`).
* `luaenv.c:482` and `503`: the path is freed before `fs_rmdir()` gets it, so that a
  half-fetched library stays and is handed out next time (`HandedComplete`).
* `derivative.c:371`: where a comment has the hash of a recipe compared with the name of
  its file, nothing is: another recipe is read and registered (`ReadsWhatIsNamed`), and files
  that name each other in a circle are read until no more can be opened.
* `derivative.c:337` and `365`: a dependency read from a file is never stored in
  `deps[i]`, and the null pointer is followed (`PointerOrNull`).
* `derivative.c:374`: the dependency array is freed although the registry owns or
  has freed it (`ArraysOwned`).
* `string.c:907`: `s_sub_p()` does not limit positions to the length, as the other forms
  do; the string it makes is longer than its text (`LengthIsOfText`), and beyond the
  allocated buffer what is read is undefined (`NoUndefined`).

Part of the models, without a run of their own; where a property is named, it is in
the module and can be checked by naming it in a configuration:

* `build.c:118`: any error while reading archive headers ends the loop like the end
  of the archive, and each entry overwrites the result of the one before
  (`Extract` of `Fetch`).
* `build.c:865`: `fclose()` of the store file is not checked (`Close`).
* `archive.c:274` and `371`: for a link the number of bytes of its target is returned,
  which ends the archive: a directory with a link can not be archived, though
  `car_hash()` hashes it (`WriteEntry`; `HashIsOfArchive` says what remains true).
* `archive.c:726`: `symlink()` gets its arguments in the wrong order (`TargetByte`).
* `archive.c:257` and `354`: the writes of name and attribute are not checked (`lost`).
* `crypto.c:239`: `sha256_appendf()` panics when a file can not be read, where all else
  in `car_hash()` returns a failure (`HashEntry`).
* `stream_aux.c:104`: after a failed read `sm_rcstr()` frees the text and leaves the
  pointer, which `read_standard_derivative()` frees again (`FreedOnce`).
* `derivative.c:389`: `read_fetch_derivative()` has no return statement, so that what
  reading a fetch recipe yields is anything (`Take`).
* `stream.c:86`: `sm_close()` gives no result, so that bytes `fclose()` could not
  write are lost unnoticed (`Close`; nothing is written to files yet).
* `string.c:140`: `s_new_p(0)` of a slot that has never had a buffer clears a byte at
  address null (`NoUndefined`).
* `path.c:184`: `p_cat()` of the root and nothing is the empty path, and of the empty
  path and a name the name under the root (`JoinAlwaysFollows`); `path.c:196`: for an
  empty path in front `p_pre()` looks at the byte before it (`Prefixed`).
* `path.c:33`: the directory of `//a` is `/`, path.h says "without the trailing /"
  (`DirBare`).
* `calculus_main.c:166`: `mermaid_visited` is not cleared after the second walk; a
  second call of `mermaid()`, which there is not, would draw nothing (`EndPass`).

## 7. Not modelled

Lua, libcurl, libarchive, libgit2, mount and pivot_root, namespaces and user maps
are modelled by how the code uses them and what they return. The compression
function of SHA-256 and hash collisions: hashing is taken to be injective. Memory
exhaustion (the code panics or dereferences null on it throughout). The wording of
the diagram. `sm_flush()`, reading from a write stream and writing to a read stream
have no caller. Strings added to themselves, which `memcpy()` does not allow. The
unfinished verbs (`build_verb()` exits before it builds, `shell_verb.c` is empty, and
`main()` calls neither), the vendored containers. Umask, and the permissions of
whoever extracts an archive.
