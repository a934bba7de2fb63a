# A TLA+ development for FANS

FANS fuzzes the native system services of Android. It first extracts, from the
source of Android, what every transaction of every native service reads from its
parcel and writes to its reply; it infers which inputs can be taken from which
replies; and then, on phones that a manager on a host keeps supplied, a fuzzer
builds transactions from this model and sends them.

This directory holds TLA+ modules of the parts that have state and an order of
steps to get right, TLC configurations that check them on small instances, and
proofs, checked by TLAPS, for every value of their constants, about the
transaction engine, the traversal of parcels, the parcel writer, the constraints, the
device manager,
the rounds of the extraction and the dependency inferer. `PROJECT.json` lists the
runs, the mutants that show what each property can detect, the source lines of each
definition, the findings, the hazards and the theorems.

    tlc -config TxNested.cfg MCTxEngine        # a run
    tlapm TxEngineProofs.tla                   # the proofs of a module

## 1. The system

| Component | Source | State | Operations | Modules |
|---|---|---|---|---|
| Interface collector | `service-related-file-collector/collector.py` | lists of files | which files are service related | `ModelPipeline` |
| AST extraction driver | `pre-process/extract_from_ast.py`, `gen_all_related_cc1_cmd.py` | files already preprocessed, rough data | compile commands; compile what is new or holds a listed function | `ModelPipeline` |
| Clang plugin | `pre-process/BinderIface/BinderIface.cpp` | none between functions | write the tree of a function: one walk per kind of node; dump type definitions, enumerations and records | `BinderPlugin`, `Extraction`, `TypeTables` (partly: not the text of types in templates) |
| Interface model extractor | `post-process/ast_visitor.py`, `parcel.py` | variables, active and finished parcels, active constraints and loops | one walk per kind of tree node; add, rename, fork, finish | `ParcelManager`, `AstVisitor`, `Extraction` |
| Extractor scripts | `post-process/parse_*.py`, `parse.sh`, `postprocess.sh` | the marks of what was parsed, lists of what was found | parse what is not marked, store what was found | `ModelPipeline`, `TypeTables` (partly: not `adjust_structure.py`) |
| Dependency inferer | `dependency-inferer/infer_dependency.py` | models, inputs, outputs, dependencies | load, three passes, write back | `DependencyInferer` |
| Transaction engine | `fuzzer/src/main.cpp`, `generator.cpp`, `transaction.cpp`, `dependency_solver.cpp`, `service.cpp`, `executor.cpp`, part of `parcel_writer.cpp`, `interface/interface.cpp` | the C++ stack of transactions under construction, the marks of used transactions (`usedTxs`), the cached binder of each interface | generate a transaction, fill a variable by hand or from a dependency, find the service, transact, read a reply | `TxEngine`, abstractly `FuzzLoop` |
| Parcel traversal | `parcel_reader_writer.cpp`, `types/array_type.cpp` | index, visited loops, `isDependency`, a reader for each nested structure | `start`, `readWriteFrom`, `readWriteRange`, arrays, structures | `ParcelTraversal` (partly: what one item is, is that of the next two) |
| Parcel writer | `parcel_writer.cpp`, `types/structure_type.cpp`, `array_type.cpp`, `blob_type.cpp`, `union_type.cpp`, `function_type.cpp` | the parcel and its position; per nested writer the known values, the buffer of a raw structure, the level of flattenable structures, the count of descriptors | write one value of each kind, enter and leave each kind of structure | `ParcelWriter` (partly: the values drawn are a few numbers) |
| Reply reader | `parcel_reader.cpp`, `dependency_solver.cpp`, `types/structure_type.cpp`, `array_type.cpp`, `blob_type.cpp`, `function_type.cpp` | the reply and its position, the target parcel; per nested reader the known values and `isDependency` | read one value of each kind, copy it for a dependency, read a member of a structure | `ReplyReader` (partly: loops are those of `ParcelTraversal`) |
| Constraints | `constraint_checker.cpp`, `parcel_writer.cpp`, maps of `parcel_reader_writer.cpp` | known variables and their values, cached status of constraints | `check`, `storeValue`, `resetSelfConstraints`, `generate` | `ConstraintCache` |
| Type tables | `types/types.cpp`, `enum_type.cpp`, the loading in `structure_type.cpp` and `union_type.cpp`, `main.cpp` | `varTypeMap`, `enumInfo` | load the type map, the enumerations, the names of structures and unions | `TypeTables` |
| Device manager | `manager/manager.py`, `flash.py`, `restart_device.sh` | per phone: flash count, counters of runs, log directory; the phone's mode, files, logs, processes | `ensure_in_device_state`, `ensure_in_sanitizer_state`, `reset`, `prepare`, `push`, `check_process_status`, `sync_log`, `monitor` | `DeviceManager` |
| Values, stubs, utilities, data | `types/*.cpp`, `interface/*.cpp`, `utils/*`, `misc/*` | none that lasts | draw a value, answer a callback, run a command | not modelled, see section 6 |

How they interact. The collector and the driver choose the files that the clang
plugin dumps; the extractor's scripts turn the dump into JSON models and list
functions that also have to be dumped, for the next round. The inferer adds
dependencies to the models. Both are constants of the fuzzer's modules. Within the
fuzzer everything is one thread and calls: the loop of `main.cpp` constructs a
transaction, whose writer (`ParcelReaderWriter`) goes through its items; each
item is checked against its constraints, and is either generated or handed to
`DependencySolver`, which constructs another transaction, runs it through
`Executor` and `NativeServiceManager`, and reads its reply with another
`ParcelReaderWriter`. `NativeServiceManager` may itself need a
`DependencySolver` to find a binder. Services crash and come back on their own.
The manager reaches a phone through adb and fastboot only: it restarts and
flashes the phone, pushes files, starts the fuzzer when it is gone, and copies
logs.

What is hard here:

* the re-entrant recursion of the engine, with one set of marks and one cache of
  interfaces shared by all levels, while services crash in between;
* the mutual recursion of the manager's `push` - `reset` -
  `ensure_in_sanitizer_state` - `prepare` - `push`, on a phone that changes its
  mode, loses its data or disappears between any two commands;
* the order in which items of nested loops are processed, and the flag
  `isDependency`, which is carried from item to item, switched off and on by
  arrays, and inherited by nested readers;
* a cache of the status of constraints that holds random answers too, and has to
  be invalidated for a leaf and all constraints around it;
* the extractor's one pass over a function, which has to come out with every path
  of it: parcels that fork at branches, stacks of constraints and loops that are
  pushed and popped in different methods, names that are counted as they are
  reused, and a plugin that drops and unwraps nodes before;
* readers and writers that must agree on every byte without ever meeting: headers,
  sizes and skipped items of structures within structures within arrays;
* types that are several definitions away from what they are, which five tools
  resolve by comparing names, over files that are written in any order;
* rounds over lists on the disk, each read, skipped by or written by several tools
  that end in the middle of their work and are started again;
* an inferer whose input is what earlier, possibly interrupted runs have written.

What makes each component correct:

* engine: no mark outlives its transaction; a transaction is not used while it is
  being built; the recursion is bounded; a transaction gets to its own service;
  every iteration ends;
* traversal: items come in an order of the program that was modelled; for a
  dependency exactly what is depended on is copied; it ends;
* constraints: a cached status agrees with the known values and with the status of
  operands, answers do not change while their variables do not, items obey their
  constraints;
* writer and reader: what the writer knows of a variable is what the parcel says; a
  reader is at the item of the reply that it takes it for, and copies that item and
  nothing else;
* type tables: the fuzzer has the kind of writer, and the values of an enumeration,
  that the declaration of a variable asks for;
* manager: a phone that is fuzzed has been prepared; no log of a run is written
  over; the manager always gets back to its round and the wanted number of fuzzers
  runs;
* plugin and extractor: what the model of a function reads and writes, under its
  conditions, is what a run of the function reads and writes, and no other; the
  fuzzer can evaluate a condition where it needs it;
* rounds: they end, and then whatever a model needs has a model;
* inferer: a dependency is never wrong, and after a run none is missing.

The lines at which these can go wrong are the `hazards` of `PROJECT.json`.

## 2. Modules

### ParcelManager, AstVisitor, BinderPlugin, Extraction, SourceData and MCModels

From the source of one function to its model. `ParcelManager` has the state of
`parcel.py` as a record and one operator per method: variables with the count of
their name, active and finished parcels, constraints and loops with the stacks of
the active ones. `AstVisitor` has one operator per `walk_*` method of
`ast_visitor.py`, from a manager and a node to the manager afterwards and what the
method returns; `Visit` is all of its recursion. `BinderPlugin` does the same for
the `Walk*` methods of the plugin, which drop, unwrap and rename nodes, with
`Statement` as its recursion. A node of the program says where it stands in the
source (`s`), so that a read or write in the model can be told from every other.
The classes of types and one or two names of every list of hand-coded functions
stand for the rest.

`Extraction` is the machine: `RunPlugin` writes the trees of a source, one per
transaction (`ParseTransaction`), function (`ParseFunction`) or structure
(`ParseRecord`), and a new visitor walks each of them. What the model should say is
defined there on its own: `Run` executes the source for an assignment of values to
what is read, and gives the accesses of the two parcels in their order. `Says`
compares this with a model as the fuzzer uses it, that is with the variables of a
possibility whose constraints hold. A loop is run once: nesting is the matter of
`LoopsNested`. `Handled` is what the extractor is right about; section 4 has what
becomes of the rest.

`SourceData` has the sources. `MCModels` checks the extractor, an INSTANCE of
`Extraction` on them, and the dependency inferer in one run: a behaviour is that of one
of the two tools. `MCExtraction` is the extractor alone, for `ElseReturn`.

### ModelPipeline and MCModelPipeline

The files and lists on the disk that the tools share. A function is one element
that is listed, has a tree, a model and marks; `Last` is its name without
qualifiers, with its signature. Its five kinds are how the scripts treat it.

The tools look for names inside other text, so that `foo` is found in `A::xfoo`, too.
Three constants say which functions a name stands for then, one for each way of looking:

* `Ending`: the name alone, in front of a parenthesis, in the text of a file (the
  collector, and `is_contain_to_process_functions`);
* `Passing`: name, plus sign and signature, in the entries of parsed functions
  (`get_to_processed_functions`, `extract_from_ast.py:163-173`), in `ToProcess`;
* `Alike`: name and signature, each by itself, in the entries of the lists
  (`getBinderFunctionType`, `BinderIface.cpp:2436-2456`), in `IsTaken`.

`IsConfused` says that a function has its name and signature in the entry of another
name, and that the plugin takes that one. Section 4 has what becomes of it.

| Action | Code |
|---|---|
| `Collect`, `GenerateCommands` | the collector and the generation of compile commands |
| `StartExtraction`, `ExtractFile`, `ExtractionFails` | `extract_from_ast.py`: with or without beginning from nothing; a file; the plugin exits in the middle of one |
| `Postprocess`, `ParseAgain` | `postprocess.sh`, which removes what there is; `parse.sh` alone |
| `ParseInterface`, `ParseStructure`, `ParseFunction`, `ParseRaw`, `NextScript` | the scripts of `parse.sh` |
| `ScriptFails`, `ParseRawFails` | a script exits while it walks a function, or for a raw structure without a tree; `parse.sh` goes on with the next script. What `parse_raw_structure.py` has found it keeps in memory (`RawToDo`) and stores at its end |
| `Stop` | the user has seen a round without early ends and without a new function |

### TypeTables and MCTypeTables

How the type of a variable gets to the fuzzer. `stage` is the tool that is at work. The
plugin goes through the declarations of a `unit` (`Visit...`, one action per kind of
declaration, `EndUnit`, or `PluginExits` with the unit to be compiled again) and leaves
`typemap`, `enumFiles` and `recordFiles`; the tree of a function is written when it is
visited, but the definitions of a unit only at its end.

| Action | Code |
|---|---|
| `SimplifyTypeMap` | `init.py`, between two units: one map of all definitions, without aliases of aliases |
| `ParseFunctions`, `ParseRawStructure`, `EndRaw` | which types and records the models use |
| `SaveTypeMap`, `CopyEnumerations` | the files for the fuzzer |
| `ExtractMore` | another unit is compiled, and `init.sh` removes what the scripts have made |
| `LoadStructures`, `LoadUnions`, `LoadEnumeration`, `InitVarTypeMap`, `LoadLine`, `Ready` | `init` of `main.cpp`, the files and lines in any order |

A type is a pair of a keyword and a name, since the code tells an enumeration, a struct
or a pointer by what its text contains. `KindOf` and `DeclaredValues` say what a type is
in C++, and the two properties compare them with what `getVarTypeEnum` and `randomEnum`
find. Their exceptions are what the code does not do: `Missing` lines, records and
enumerations of the system, fields that are records by another name, an early end of
`parse_raw_structure.py`, enumerations that are empty, opaque, of a dependent type or of
one that the fuzzer does not know, and a `size_t` behind an enumeration without a name
(`OfTwoWidths`). For each of them, TLC finds the property violated without it.

`TypesAssumption` says what C++ and the two lists of basic types make of the data:
definitions end in something that is not one, and are not called like a basic type, except
the integers of fixed width and `size_t`; what is not basic is declared in the unit before
it is used; and a header has the same declaration in front of a definition in each unit
that includes it.

### DependencyInferer and MCDependencyInferer

`stored`, `itemDeps` and `varDeps` are the model files and the dependencies in
them, `items` and `vars` the same in the memory of a run. `Load`,
`StructurePass`, `InterfacePass`, `VariablePass`, `DumpFile` are
`infer_dependency.py`; `Interrupt` ends a run anywhere, with or without a file that
ends in the middle; `Store` is the extractor, which adds files or writes them anew.
Lists of dependencies are sets: a run over what an earlier one has written repeats
some of their elements, which the fuzzer does not notice.
The run is `Models`, with the extractor.

### ParcelWriter, MCParcelWriter and WriterData

What is written for the variables of a parcel. `writers` is the C++ stack of
`ParcelReaderWriter` objects: one for the transaction and one for each structure, union
or function that is being written. A writer has the items that are left (`todo`), the
arrays it is in, its maps of known values (`value`), and for raw structures and unions
the buffer (`rawData`) that is written as a whole at the end. `parcel` and `position`
are those of Android's `Parcel`, with one cell for a value; in a buffer an integer is two
bytes, so that an `int8` is half of one. `Ready`, `SkipItem` and `Done` are the steps of
`readWriteFrom` around an item; `WriteInt` to `WriteBlob` are `ParcelWriter`'s functions of
these names, `FromDependency` is a value that a dependency supplied; `EnterParcelable` and
`LeaveStructure`, `EnterFlattenable` and `LeaveFlattenable`, and their like are the two
halves of `StructureType::generate...`, `UnionType` and `FunctionType`; `Exit` is what
the code ends with `exit`. A variable `said` of a writer has what the parcel tells the
receiver of each variable, and `wanted` the bytes that a buffer should have; nothing
depends on them.

Loops are in `ParcelTraversal`: an item that a loop repeats is there several times.
Constraints are in `ConstraintCache`: here an item is skipped or not. The writer of
class `FrameStats` always exits, as it stores `frameCount` in a table that has none.

Four definitions say what the tables of the models have, beyond the types in
`WriterAssumption`; the theorems suppose them, and `MCParcelWriter` assumes them, so that TLC
evaluates them on the data of the run. `ElementsFollow`: the variable of an element is
directly behind that of its array, where the writer looks for it
(`array_type.cpp:114`). `ParametersFit`: a call passes no more arguments than the function has
parameters, which have different names; `initArgv` pairs them by their place.
`SizesWhole` and `ArgumentsWhole`: the size of an array is not an element of another array,
and no element is an argument. This is a condition on the sources, which read a size once,
in front of the loop; nothing in the code enforces it. Where it fails the writer is wrong,
by the finding `ElementCache` of section 4: the value of an element is not cleared before the
next one is written.

### ReplyReader, MCReplyReader and ReplyData

What is read from a reply for each variable, and what of it is copied to the parcel that
depends on it. `goal` is the dependency: a variable of a transaction, and perhaps a member
of it. `phase` follows `solveTxDependency`, which reads the reply once, and
`solveStructDependency`, which copies the structure to `tmp` and reads that as the
structure for the member (`ReadTmp`). `readers` is the stack of `ParcelReaderWriter`
objects, `reply` and `position` the parcel that is read, `target` the one that is written.
`ReadInt` to `ReadBlob` are `ParcelReader`'s functions, with `ReadArray` and `LeaveArray`
around elements, `ReadFlattenable`, `ReadLightFlattenable`, `ReadParcelable`,
`ReadRawStructure` and `ReadFunction` for structures, and `LeaveStructure` for their ends;
`Exit` is an `exit` or a null pointer. A reader knows the values of what it has written as
data (`Known`), and of what it has read.

A cell of a parcel has a `tag` that says what it is the value of; nothing that is read
depends on it. `ReplyData` makes replies as services write them, from the tables: every
value of the numbers, and structures with all the items of their last possibility. Reading
on at the end of a reply gives zeros, as `Parcel` does. Loops are in `ParcelTraversal`, and
a constraint is here that a variable is not 0.

### MCParcels

`ParcelWriter` and `ReplyReader` in one run. They share no state: a behaviour is that of
one of them.

### TxEngine, MCTxEngine and FuzzLoop

`TxEngine` has one frame of `stack` per `Transaction` object under construction.
A frame's `pc` says where its construction stands: `write` (its parcel is being
filled, `item` is next), `getService`, `generate`, `retry` (the sleep of five
seconds before the service manager is asked again) and `solve` (inside
`getService`), `transact`, and `reply` (to be read for the frame below).
`usedTxs` and `generatedInterface` are the fuzzer's global maps. The actions
follow the code:

| Action | Code |
|---|---|
| `GenerateTx` | `Generator::generateTx`, the constructor of `Transaction` marks it |
| `WriteManually`, `WriteFromTx`, `WriteFromStruct`, `Complete` | `ParcelWriter::write`, `canUseDependency`, `solveTxDependency`, `solveStructDependency` |
| `LookUp`, `CheckService`, `CheckServiceAgain`, `SolveInterface`, `GenerateInterface`, `InterfaceSolved` | `getService`: cache, ping, service manager with one retry, dependency, hand-made binder |
| `GiveUp`, `Transact` | `Executor::run` without and with a service; both clear the mark |
| `ReadReply` | the solver reads the reply and returns |
| `Crash`, `Register`, `Kill`, `Start` | environment: services and the fuzzer process |

A binder is a process and whether it is alive. A recursion deeper than the C++
stack (`MaxDepth`), and `exit(0)` for a dependency that was not loaded, end the
process, which forgets everything.

`getService` solves the dependency of a multi-level interface without asking
`canUseDependency`. So a transaction may be re-entered through such an interface,
and the properties about re-entrance and depth are stated for data in which every
dependency is checked (`CheckedOnly`); `MarksArePending` and the others hold for
all data.

`FuzzLoop` is what the loop of `main.cpp` promises however deep the recursion is:
one transaction of the loop at a time, no marks while there is none, and every
iteration ends. `TxEngine` implements it with `loopTx` as the bottom frame and
`marks` as `usedTxs`; TLC checks this (`LoopSpec`, `IterationsEnd`) and TLAPS
proves the safety part.

### ParcelTraversal and MCParcelTraversal

`readers` is the C++ stack of `ParcelReaderWriter` objects, the innermost last;
within a reader, `frames` has its calls of `readWriteRange` and of
`ArrayType::read`. `EnterLoop` is `readWriteFrom` of an item in a loop that is not
visited, `Iterate`/`LeaveLoop` the test of the loop's constraint, `NextIteration`
the counter and its limit; `SkipItem`, `PlainItem`, `StructItem` and `ArrayItem`
are `readWriteItem`; `SkipElement`, `PlainElement`, `StructElement` and
`LeaveArray` are the loop over an array; `Return` is the end of `start`. Whether a
constraint holds and how long an array is, is a choice. `LoopAssumption` says that
loops are nested as they are in a program; `InSourceOrder` is about parcels in
which every loop inside a loop has one item (`SimpleNests`), see section 4. Buffers
of bytes are plain items, and so is what `ReplyReader` has in detail. `seen`, `put`,
`last`, `whole` and `empty` are history variables: the items reached, those copied to
the target parcel, the last one, whether the reader was created for a structure that
is depended on, and whether an array was empty.

### ConstraintCache and MCConstraintCache

`cached`, `value` and `status` are `isVarCached`, the value maps and
`constraintStatus`; `status` is a function whose domain is what is cached. A
constraint is a node with an opcode; its name is a sequence, so that
`constraint10_lhs` has `constraint1` as a prefix as in the code (`Resolve`,
`getConstraintIdx`) and its enclosing constraints are found by its suffix
(`Enclosing`, `resetConstraints`). `check` is one action per branch on the stack
`calls`: `CheckCached`, `CheckLhs`, `CheckRhs` (with short-circuit evaluation),
`CheckJunction`, `CheckKnown`, `InitCounter`, `CheckUnknown` (a random answer,
which is cached). Around it, `pc` follows `checkUnderConstraint`, `write`,
`generate` and the loop of `readWriteRange`. The history variable `told` has the
answers that each constraint has given since one of its variables was written.
`Part` is what names are made of: numbers and the two sides. `CountersInScope` (the
counter of the loop is compared in the loop only, as the scopes of C++ have it) and
`GuardsFound` (a guard's name is not the prefix of another) are conditions on the
data that two of the theorems suppose.
Values are small naturals; conversions between integer types in comparisons are
not modelled.

### DeviceManager

One phone, since devices share nothing. A step is one adb or fastboot exchange
(or a few whose result nobody reads); the phone may change between two steps:
`Glitch` (adb loses it), `Restart`, `BadBoot` (it comes up in recovery or
fastboot), `LoseData`, `ComesBack`, `ProcessDies`. `pc` is the place in the
manager, `calls` the callers that wait for a `reset`, `next` what
`ensure_in_device_state` returns to. `Raise` is an exception of a command, which
`monitor` catches and which ends the manager before `monitor` is entered.

## 3. Runs

Each property of a passing run has a mutant, a plausible bug put into one
definition, under which its run finds it violated.

| Run | Shows | Bounds |
|---|---|---|
| `TxNested` | marks are pending, transactions get to their service, the engine implements `FuzzLoop`, iterations end | three transactions of three interfaces: a multi-level one (a session), re-entered through its own dependency, hand-made binders, a dependency that is not loaded, and a structure; two services that crash and return; `MaxUsed` 2, `MaxDepth` 8 |
| `TxDeadBinder` | finding | as `TxNested` |
| `TxChecked` | no re-entrance, values as shallow as the limit | four transactions whose dependencies form cycles, `MaxUsed` 2, so that the limit and the exemption of binders from it both matter |
| `DeviceSafety` | a supervised phone with its sanitizer has all files; no run reuses a log, as long as wipes work | two files, one fuzzer, four faults, four runs |
| `DeviceLive` | the manager gets back to its round, too many fuzzers are reduced, the wanted number runs | one file, two fuzzers, three faults, failing wipes and exceptions |
| `Traversal` | source order, exact copying, whole structures | parcels with arrays, structures, arrays of structures, nested loops (up to three around an item) and loops in a row; two iterations of a loop, arrays of up to two elements |
| `Constraints` | fresh and agreeing status, one answer, items obey their constraints, termination | five constraints with all the opcodes' shapes over four variables and a counter, values 0 to 2, two tries, up to three iterations |
| `Pipeline` | what was listed is extracted, the rounds end and the model is closed then | four files with two interfaces, a hardware interface, two functions of the same name in different files, one whose name is inside that of another, a structure and three raw structures that contain each other; three early ends |
| `Models` | every path is in the model and no other, loops nest as in the source, names mean one variable, conditions are known in time, everything that is needed is noted; after a run of the inferer the dependencies are all there, at no time is one wrong, transactions of a service share theirs | `Extraction` (`SourceData`): after a first read, every sequence of two statements of a grammar with blocks of depth two (branches, all loops, switches, returns, reads, writes, rereads); two transactions in a switch; forty bodies with the rarer calls; every structure of three fields; values 0 and 1. The inferer: five files with six items: a service that returns its own binder and a structure, one that takes what is in the structure, a structure that no transaction returns; two interrupted runs |
| `Parcels` | what the writer knows of a variable is what the parcel says, buffers are complete, arrays have the size that is announced; a reader is in step with the reply, an item or a member is copied as it is in the reply and alone | the writer: nineteen transactions and structures with every type of variable and every kind of structure, within each other; integers 0, 1, 3, 8 of nine, sizes 0, 1 and 7, arrays of up to two elements. The reader: eight replies with the same, every item and member depended on; numbers 0, 1, 3 of six, arrays of up to two elements and larger ones |
| `Types` | the kind of writer and the values of enumerations are as declared | three units in any order, one of which the plugin may leave, with definitions up to three deep, enumerations and records with, without and with two names, declared again, empty, opaque, of the system; the scripts between any two units |
| `FlattenLength` | finding | the transactions of `Parcels` that have a light flattenable structure |

Why the bounds are enough. In the engine, two is the least value of `MaxUsed`
at which a nested transaction may itself use a dependency, and three transactions
form every kind of cycle the purposes of frames allow; each fault of the
environment may come at every step. For the manager, every fault pattern that was
met needs two faults; four give faults inside the recovery from a fault inside a
recovery. In the traversal, two iterations are the first and a later one, which is
all that `loopVisit` distinguishes, and two elements the chosen and another one. In
the constraints, two tries show a status that is cached by the first and used after
the second. In the extraction, two statements with blocks inside blocks put every
walk before, behind and inside every other, which is what the stacks, the forks and
the counts of names depend on. In the pipeline, the functions are found in a chain of
four rounds, the last in a file that was compiled in the first; three early ends
hit a tool, its restart and a later one. In the inferer, two interrupted runs leave
a file that an interrupted run has written already. In the writer, two transactions of
each kind of nesting have the two ways in which a value gets to the parcel, directly or in
a buffer, and a size that is larger than the limit, equal to it or zero. In the reader, a
number is a size, zero, one or larger than the limit, or decides a constraint either way.
In the tables of types, a definition is behind two others in one unit and first met in
another, and the loader may read any file after any other.

Bounds in guards: `MaxExits` is the number of times that the plugin leaves a unit in
`TypeTables`, `MaxDepth` stands for the size of the C++ stack, `MaxRuns` and
`MaxFaults` end the counters of runs and the faults of a phone, `MaxCrashes` the
early ends of tools, `TryBound` is the number of tries (a percentage in the code),
the largest `Value` and `MaxLoop` are the limit on iterations.

Deadlock checking is off where the program ends (traversal, constraints,
pipeline, parcels, types) or where the bounds or an exception before `monitor` end it
(manager).

### Fairness

* `TxEngine`: weak fairness of `Work`, the fuzzer's only thread. It does not
  include `GenerateTx`, the environment, or a choice among outcomes.
* `DeviceManager`: weak fairness of the manager's thread and of a phone that is
  away coming back. Faults are finite (`MaxFaults`): what is claimed is what
  happens once the phone causes no more trouble. `MonitorGoesOn` and
  `SuppliedFuzzersRun` name the states in which the manager is stuck or gone: the
  wait of `push`, which does nothing for a phone in recovery or fastboot, and an
  exception before `monitor`.
* `ModelPipeline`: weak fairness of `Next`: the user, who starts each tool, goes on
  until the last round, as the collector's readme asks. Early ends are finite
  (`MaxCrashes`), since each stands for something unknown that is then repaired.
* `ConstraintCache`: weak fairness of `Next`, a single thread.

## 4. Findings

Two runs end in a violation of what comments and messages of the code say:

* `TxDeadBinder`: `getService` takes the status of `pingBinder` for a Boolean
  (`service.cpp:32`), so it uses a cached binder exactly when the ping has failed, again
  and again, and drops one that is alive. The messages at `service.cpp:33` and `:36` say
  the opposite (`CachedReturnedAlive`).
* `FlattenLength`: the position of the parcel is set back before it is taken for the end
  of a flattened structure, so that its length is always written as zero and the parcel
  goes on over its content (`structure_type.cpp:55`).

Of the other places where the code does not do what its comments say, each has a property
in the modules and a configuration with which TLC finds it violated (`tlc -config X.cfg M`,
for example `tlc -config Overlap.cfg MCModelPipeline`), not among the listed runs:

* `Overlap` (`MCModelPipeline`): a listed function is passed over as parsed when its name
  and signature are contained in the entry of a parsed one, as `foo` is in `A::xfoo`
  (`extract_from_ast.py:170`). Its file, if it was compiled before the function was
  listed, is not compiled again, and the function is never extracted, although the
  comment at line 212 says that a file that "contains some function which is not
  processed" is (`AllListedExtracted`). This is the exception `IsConfused` in `Closed`
  and `ListedExtracted`: they hold for every other function, so that nothing else keeps
  one from being extracted.
* `ElseReturn` (`MCExtraction`): a return in a branch after else does not end the active
  parcels (`ast_visitor.py:2554`, the call is commented out; `parcel.py:359-360` says it
  should), so that a possibility has the accesses of the branch and those of the
  statements behind the if, which no run of the function has.
* `FlattenFds` (`MCParcelWriter`): descriptors within a flattenable structure are counted
  by the writer of the structure, and taken from that of its parent, so that their number
  is written as zero, and none of them follows (`structure_type.cpp:136`).
* `RawCopy` (`MCParcelWriter`): the buffer of a raw structure within another one is copied
  with `strncpy`, which stops at the first zero byte, so that the members behind it are
  zero (`parcel_writer.cpp:44`). `RawBytes` allows for that.
* `FlattenBool` (`MCParcelWriter`): the byte of a bool in a flattenable structure is
  written to the beginning of the parcel, not to its position (`parcel_writer.cpp:166`).
* `ElementCache` (`MCParcelWriter`): the status of an array's element is not cleared before
  the next one is written, so that constraints and sizes are about an element that was
  written before (`parcel_writer.cpp:457` clears that of items only).
* `LightCopy` (`MCReplyReader`): of a light flattenable structure that is depended on, the
  size in front is read and not copied (`structure_type.cpp:73`).
* `MemberRead` (`MCReplyReader`): a structure is copied as its last possibility
  (`structure_type.h:64`) and then read for a member as the one that the member is in
  (`dependency_solver.cpp:57`), and of an array in it one element is copied: `MemberCopied`
  is about members of the last possibility, without arrays.

Met while modelling, and part of the models, without a run of their own:

* Manager. When a wipe in recovery fails, the counters restart while the logs on the
  phone stay (`manager.py:306`); `RunLogsDistinct` is checked with wipes that work.
  After an exception between flashing and preparing, fuzzers are started on a phone
  without its files, and into the log directory of the flash before
  (`manager.py:514`); `FilesComplete` and `RunLogsDistinct` are checked without
  exceptions, the liveness properties with them. `init_log_dir` does not look whether
  `mkdir` succeeded and nothing creates the directory later, which is the exception in
  `SuppliedFuzzersRun`.
* Fuzzer. `readWriteRange` ignores the count that `readWriteFrom` returns, so that the
  later items of an inner loop are processed again (`parcel_reader_writer.cpp:203`);
  `InSourceOrder` is about nests whose inner loops have one item. Behind an empty array
  that is depended on the whole reply is read (`array_type.cpp:197`), and of a loop that
  begins at the item every item and iteration is copied: the exceptions in
  `StructureCopied` and `DependencyExact`. Constraints are looked up by a prefix of
  their name, so that `constraint10` is `constraint1` (`parcel_reader_writer.cpp:489`).
  A self constraint that `getTargetConstraint` does not find has probability zero, so
  that no value is generated (`NoTry`).
* Reader. The word that says whether a structure is present, the type of a blob and the
  size of a vector of bytes are read and not copied; a UTF-8 string is copied as a C string;
  an exception code that is depended on is not copied. Of an array larger than
  `MAX_ARRAY_SIZE` the rest stays unread, so that every later item is read at the wrong
  place, and of a function that may be one of several the reader takes one at random:
  `Regular` excludes both.
* Tables of types. The line of a definition is not written when it is part of one that is
  there, as `off_t+long` is of `loff_t+long long` (`BinderIface.cpp:2650`). An enumeration
  without values gets the value read last from the file before, or whatever was in memory,
  and a dependent one a value too many (`enum_type.cpp:98`). `size_t` has 32 bits as the type
  of an enumeration (`enum_type.cpp:70`) and no entry in the map otherwise. A later opaque declaration of
  an enumeration replaces its file. A field whose type is the name of a record without a
  name of its own is not recognised as a record, and the fuzzer exits at it
  (`types.cpp:116`). A record without a file ends `parse_raw_structure.py` for all that
  follow (`parse_raw_structure.py:51`). `int_type.h:112` asks for `enum audio_source_t`,
  while the list in `copy_enumeration_type.py:17` has `audio_source_t`: the file is there
  only if a model uses the type by the first name.
* Plugin. An `if (x) return` without braces is dropped (`WalkIfThen`), and so are
  statements that name neither parcel. Of a case without braces, only the first
  statement is in the case.
* Visitor, outside `Handled`: a return in a block that is inside another block (the
  outer `active_constraint.pop()` pops the inner constraint), in a loop or in a switch;
  a variable that is read twice and tested as `if (x)`, which names the first read.
  A case without code leaves its constraint among the active ones
  (`ast_visitor.py:2503-2504`), and of two labels before one statement only the first
  counts. The constraints of `callLocal` and of an AIDL status check are never popped.
  `while` over a plain variable is not recorded as a loop, and its name is used again.
  `switch (data.readX())` and `read(buf, data.readInt32())` add the read twice. A
  renamed variable does not change the count of its name, and only the active parcels
  hear of it. The name of a constraint is given before those nested in it. Reads
  inside `?:` are unconditional. `append_to_code_list` leaves out the last code of a
  range (`ast_visitor.py:2653`). An unknown function that is handed a parcel makes the
  extractor wait at `input()`.
* Scripts. `parse_structure.py:77` marks a function as parsed before it is walked; an
  early end leaves the mark without a model (`MarkedModelled` is about the other
  marks), which does no harm since the script itself goes by a mark of its own.
  `parse.sh` goes on after a script that has ended early. A function that is listed
  already is no news, even if it has not been extracted yet. A file with hardware
  interfaces only is never looked at for functions (`HardwareAssumption`).
  `HandleTranslationUnit` looks for a name in the list of types as a substring. Functions
  whose entries contain each other are taken to be parsed in the same way, as the entries
  of one list are (`NamesAssumption`): a misc function whose name is inside that of a
  special one would be extracted as a structure. An
  empty set of results is stored as a blank line, on which `parse_structure.py` ends.
* Inferer. A run over its own output repeats the dependencies of structures and
  interfaces. A model file that ends in the middle stops the next run until it is
  extracted again (`Load` waits for `broken = {}`). Between an interrupted run and the
  next, a service may name a structure that has no dependency yet, so that
  `SourcesBacked` is about finished runs.

## 5. Proofs

`TxEngineProofs`, for every value of the constants of `TxEngine` that satisfies
`TxAssumption`, `DependencyAssumption`, `HostAssumption`, `BoundAssumption` and
`LoopAssumption`. These say that names, dependencies and parcels have the shape of
the JSON files, that transactions of one interface have the same service and
dependencies (both are looked up by interface), and that a process is not a service.
The stack makes every step look alike from outside, so the proof goes in two stages.
`StepShape` shows that every step keeps `TypeOK` and has one of seven shapes: a
transaction of the loop begins, the top frame moves on, is issued, finishes the
iteration, calls (with the conditions under which `canUseDependency` lets it),
returns, or the process ends. Every later invariant is proved from the shapes alone.

* `CallInvariant` (`TypeOK`, `LoopAtBottom`, `ReplyOnTop`, `MarksArePending`) is
  inductive. `MarksArePending` is not by itself: a return would drop a pending
  transaction, unless only the top frame can have been issued (`ReplyOnTop`), and the
  end of an iteration would keep the marks of other frames, unless the frame of the
  loop is the only one at the bottom (`LoopAtBottom`). Hence `TypeInvariant` and
  `MarksInvariant`.
* `CheckInv` adds, for checked data, that frames have distinct transactions and
  that each unissued one is marked: the marks then count the frames, so that the
  limit on marks bounds the depth. Hence `CheckedNoReentrance`,
  `ValuesShallowInvariant` and `DepthInvariant`.
* `EngineImplementsLoop`: `Spec => LoopSpec`. Every shape is a step of `FuzzLoop` or a
  stutter; `MarksArePending` gives that marks are empty when an iteration ends.

The invariant about the cache of interfaces (`BinderInv`) says of each cached binder of a
registered service that its host is that service (or the fuzzer, for an interface that is made by hand
when it is not registered), and the same of the binder of a frame at `transact`. Hence
`SentToItsServiceInvariant`.

`DeviceManagerProofs`, for any number of files, instances, reboots, runs and faults
(`DeviceAssumption`). What has to be said first is how the stack of callers can look
while `reset`, `prepare` and `push` call each other (`Nested`): `run` or `monitor` at
the bottom and nowhere else, and a `push` only on the `prepare` it belongs to. With
the types this is inductive (`CallersNested`, hence `DeviceTypes`).
`FilesComplete` then needs to know what a caller finds when its turn comes
(`FilesSoFar`): as long as the phone has its sanitizer, an interrupted `push` has the
files before its own, and `monitor`'s reset has them all. Only a flash brings the
sanitizer back, and whoever loses it loses the files (`SanitizerKept`), so that each
reset either finds things as they were or prepares anew. `RunLogsDistinct` needs
that the host's logs of this flash are numbered up to the counters, and that the log
directory is the one of this flash whenever a process can be started (`LogsSoFar`).
Both are proved for a manager whose commands do not raise, and the second for wipes
that work; without that neither holds, see section 4.

`ModelPipelineProofs`, for all files, functions, calls and structures, names that
several functions share or that are inside others, any number of early ends
(`SourceAssumption`), `NamesAssumption`, which says how the three ways of looking for a
name belong together and that functions of one name, or confused ones, are of one kind,
and `HardwareAssumption` of section 4. `PipelineClosed` is far from inductive. Its invariant follows the data:
what is still to do belongs to the tool that runs (`TodoFits`); why a function is in
the rough data and which must be (`OnlyTaken`, `Unlisted`, `MarkedTaken`, `MarkedSpread`); what a
session of the extraction has done so far and has left when it ends (`InSession`,
`AfterSession`); that the collector has all related files once a round was without
news (`CollectedAll`); that what a model needs is listed (`NeedsListed`); and what each
script leaves for the next (`ScriptsDone`, `RawDone`). The raw structures that a script
has found when it ends early are forgotten; that they are found again is `RawReached`:
what has a model can be reached from the list. `MarkedSpread` is what makes
skipping a file sound: a file that was compiled is left alone only for names that have
been parsed, and those had been extracted from every compiled file. It is so for the
name that was parsed and not for one inside it: `PassedOver` shows that a function that
the driver passes over is either of a parsed name or confused, which it stays
(`TakenStays`), and there is no more to be had, as `Overlap` shows. Also
`PipelineExtractsListed`, `PipelineMarks`, `PipelineTypes`.

`DependencyInfererProofs`, for all models of the shape of `ModelAssumption`. A run adds
to what earlier ones have written, so the invariant says that what is on the disk was
right for the models of then, and stays right because sources only grow with models
(`SourcesGrow`); in memory each pass has done what the next relies on
(`PassesDone`), and what is written back is what is in memory (`Dumped`). Hence
`InfererComplete` (`Inferred`), `InfererSound` (`SoundOnDisk`), `InfererShares`
(`InterfaceShared`), `InfererTypes`, and `InfererBacked`: after a run, the structure
of every source can be had from a transaction. `InfererSuppliesEngine` is the link to the
transaction engine: with its constants `Tx`, `Struct`, `ifaceOf`, `ifaceDeps` and `structDeps`
taken from the files after a run, what `DependencyAssumption` of `TxEngine` says of
dependencies holds, and every dependency names something that was loaded, so that the
`exit(0)` of `solveStructDependency` is not reached (`DependenciesUsable`). Which service an
interface has is not the inferer's.

`ParcelTraversalProofs`, for all parcels whose loops are nested (`ParcelAssumption`,
`LoopAssumption`). The state is a stack of readers with a stack of frames each, so the
invariant (`TraversalInv`) says where a reader can be: in its parcel, within each of
its ranges, an array innermost (`Placed`), and at an item that it has reached when it
waits for a reader of a structure (`Waiting`). What has been copied depends on this
place: a reader that solves a dependency is in front of the item, at it, perhaps in its
array, or behind it (`Before`, `AtDependency`, `Behind`); one for a structure that is
the dependency copies all (`Copying`), and is told so by the reader below it
(`Handed`); in an array the flag is off until the chosen element and on while it is
dealt with (`Chosen`). Hence `TypeCorrect`, `OnlyDependencyCopied`
(`DependencyExact`) and `StructureIsCopied` (`StructureCopied`).

The second half of the module goes on from there to `ItemsInSourceOrder` (`InSourceOrder`). The
claim is about two successive items, so the invariant (`Ordered`) says of each reader
what it has passed over since the last one. With inner loops of one item, the
outermost range is all of its loop and every range inside it is the current item
(`Nested1`, `Nested2`), which `getValidLoopIdxOf` brings about since `loopVisit` has
the loops of the ranges and no others (`Visits`), and no loop goes on across the place
where a reader is outside of loops (`Boundary`). What has been passed over is then
either in a loop that neither the last item nor the next is in, or has a loop of its
own (`Recent`, `InRound`, `Round`); leaving the outermost loop turns the second into
the first. Inner loops of several items break this in the code itself, see section 4.

`ParcelWriterProofs`, for all symbol tables, items and functions of the shape of
`DataAssumption` (`WriterAssumption` and the four conditions of section 2), however
structures, unions, functions and arrays are nested. There are some thirty actions, and for
the stack of writers each is one of six shapes (`StepShape`): the top writer is done with an
item, begins or ends an array, calls another writer, returns, or nothing happens. In all of
them a writer learns something of the one variable that it is at, and then the value and
what was written agree, or one of them is not there (`Learned`). The invariant
(`WritersInv`) says of each writer that its items and arrays are in its table (`Located`),
that known values are what was said (`Honest`), that in a parcel the made and the remaining
elements of each array are as many as was announced (`Sized`), and that the buffer is what
it should be or zero (`BytesFit`). `Sized` is not inductive alone: the size of an outer array
must not be written again while an inner array or element is, so a writer only learns of the
variable it is at, which `SizesWhole` keeps apart from sizes; and a writer that waits for
another one is at an item of which it will still know nothing else (`AtItem`). Hence
`KnownIsSaidAlways`, `RawBytesAlways` and, for the step that leaves an array,
`ArraysSizedAlways`.

`ConstraintCacheProofs`, for all constraints, parcels, values and numbers of tries
(`ConstraintAssumption`). `CacheInv` is inductive: with the types and where in `write`,
`generate` and `check` the calls stand (`Place`), a cached leaf whose variables are
known agrees with them, and nobody was told another answer than the cached one. This
needs that every store drops the status of all leaves that have the variable, and of
what encloses them. Hence `TypeCorrect`, `CacheFresh` (`StatusFresh`) and
`CheckConsistent` (`AnswersAgree`). A junction that is being checked has looked at one
operand already when it looks at the other; `ScopeInv` says that what was found is
still so. It is, as long as `check` makes no store in between, which it does when it
meets a counter that is not initialised: in the loop the counter is, and in front of
the loop nothing compares it (`CountersInScope`). Without that hypothesis `JunctionFresh` and
`GuardsHold` fail: TLC has a counterexample for an item in front of the loop
under `!ctr && ctr < x`, whose second operand initialises the counter after the
first got a random answer. No C++ source has such an item. Hence
`JunctionsAgree` (`JunctionFresh`) and, with `GuardsFound`, `GuardsRespected`
(`GuardsHold`); `MCConstraintCache` assumes both hypotheses, so that TLC
evaluates them on the data of the run.

`TypeTablesProofs`, for all units, definitions, enumerations and records of
`TypesAssumption`, any number of units that are left and any order of units, files and
lines. The data goes through four tools, and the invariant (`IInv`) says what each has
left. Of the plugin (`Compiled`, `InUnit`): a definition of a finished unit has its line,
unless the line is `Missing`, and stands behind the line of what it is an alias of
(`Ordered`); this is so within a unit, and stays so since a line that the unit does not add is there
from an earlier one, and the new ones keep their order (`NewLinesAre`). Of the dumps
(`Files`): each file is one of a declaration, since an `enum` and an `enum of` do not share
a name, and what a finished unit declares has one (`Dumped`). Of the scripts (`Scripts`):
an entry of the map is what the definition is in the end, whenever nothing on its way is
missing (`Entries`). It is so because of the order: when a line is added, what is behind
it is in the map with its end already, so that one look is enough (`EntryAdded`); what is
behind a missing line may have any entry. Of the fuzzer (`Loader`): the kinds that `varTypeMap` has before the lines, in whatever order
the files were read (`Base`, `BaseKind`), and that a line only adds what is not there. The
conclusion takes each class of types on its own: the name that the models have for it
(`HandedName`), that this name is among the used types and parsed records, and that no
file of another class has the same name (`EnumTag`, `VisitedIs`, `Kinds`). Hence
`KindAlways` (`KindAsDeclared`) and `ValuesAlways` (`ValuesAsDeclared`). The chains of
definitions are recursive functions on numbers; that what holds at the beginning of one
and is kept by a step holds at its end (`WayInduction`), and the like for the lines of a
unit and the entries of the map, comes from the least number at which it would not
(`Least`).

Only proved, and not among the runs: the type invariants, `MarkedModelled` of
`ModelPipeline` (`PipelineMarks`), `SourcesBacked` of `DependencyInferer`
(`InfererBacked`), and `DependenciesUsable` (`InfererSuppliesEngine`). Each was checked by TLC on the instance of its module before it was
proved. One that was not true there is `SimpleNests` as it first stood: TLC has a
counterexample for a parcel with a loop in a loop in a loop (`deep`, now in
`MCParcelTraversal`), and the hypothesis of `ItemsInSourceOrder` is the corrected one.

Only model-checked:

* liveness (`IterationsEnd`, `MonitorGoesOn`, `OverstartCorrected`,
  `SuppliedFuzzersRun`, `RoundsEnd`, `Finishes`): liveness under fairness and
  `ENABLED` are out of the prover's reach;
* `ReplyReader`'s properties. They compare what was read with a reply that follows the
  same recursion of structures (`CopiedWhole` is a recursive operator, over the nesting of
  the data): an induction over data;
* everything about `Extraction`: its walks are recursive operators over trees, and
  induction over data is out of the prover's reach.

## 6. Not modelled

* How values are drawn: strings, integers by name and files have no state that lasts;
  `ParcelWriter` writes one of a few. Padding and the widths of integers in the parcel are
  abstracted.
* The stubs that answer callbacks, the Wifi scanner's generated proxy, the Java VM,
  random numbers, logging and the parsing of command output: no state, or only
  outcomes that are choices in the models.
* The nested writer that a hand-made binder may need.
* The text of a type in a template or in another scope, and the rules by which a script
  takes `const`, `std::` and the like from it: a type of `TypeTables` has its final name.
* The drawing of the graph of interfaces.
* `adjust_structure.py`: it renames and copies files once. That the new names are unique
  is taken for granted.
* Hand-written models, lists of names, codec and audio data, and the changed copy of
  SurfaceFlinger: data.
* Filters by path in the collector, blacklisted interfaces and functions.
* Devices are independent, so one is modelled.

## 7. What is left

1. A composition of `ParcelTraversal` and `ConstraintCache`: with constraints in place of
   choices, `Traversal`'s properties carry over by refinement.
2. The renaming of structures in `adjust_structure.py`.
