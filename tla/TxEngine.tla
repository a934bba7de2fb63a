------------------------------ MODULE TxEngine ------------------------------
(***************************************************************************)
(* The transaction engine of the fuzzer process: generator.cpp,            *)
(* transaction.cpp, dependency_solver.cpp, service.cpp, executor.cpp and   *)
(* the part of parcel_writer.cpp that decides how a variable is filled.    *)
(*                                                                         *)
(* Filling a transaction may need the reply of another one, and finding    *)
(* the service of a transaction may need the reply of a third: the code is *)
(* a recursion Transaction -> write -> DependencySolver -> Executor ->     *)
(* getService -> DependencySolver -> ...  The C++ call stack is the        *)
(* variable stack, one frame per transaction under construction.           *)
(*                                                                         *)
(* The environment starts, stops and crashes the native services, and may  *)
(* kill the fuzzer.                                                        *)
(***************************************************************************)
EXTENDS Naturals, Sequences, FiniteSets

CONSTANTS
  Name,         \* names of transactions and structures in the dependency files
  Tx,           \* names of the transactions in svcInfo
  Struct,       \* names in parcelableStructureReplyInfo
  Target,       \* targetTransactionInfo, all of svcInfo when no option is given
  Iface,        \* interface names
  ifaceOf,      \* ifaceOf[t]: tx.interfaceName
  serviceOf,    \* serviceOf[t]: tx.serviceName, or NoService for "None"
  ifaceDeps,    \* ifaceDeps[t]: names of the transactions in tx.dependency
  items,        \* items[t]: the variables of tx.info["data"], in order
  structDeps,   \* structDeps[s]: names in structure["dependency"]
  Service,      \* names registered with the service manager
  NoService,    \* the string "None"
  Stub,         \* interfaces generateInterface() knows
  CoinFlip,     \* interfaces made by hand half of the time (IGraphicBufferProducer)
  HarnessOnly,  \* interfaces made by hand when not registered ("media.log")
  Fuzzer,       \* the fuzzer process, as the host of a binder
  NoBinder,     \* the NULL binder
  MaxUsed,      \* the limit on used transactions (10 in the code)
  MaxDepth      \* how many nested transactions the C++ stack can hold

\* What the dependency inferer wrote; the fuzzer need not have loaded the name.
Dep == [type : {"Transaction", "Structure"}, name : Name]

Item == [binder : BOOLEAN, deps : SUBSET Dep]

ASSUME TxAssumption ==
  /\ Tx \subseteq Name /\ Struct \subseteq Name \ Tx
  /\ IsFiniteSet(Tx) /\ Target \subseteq Tx
  /\ ifaceOf \in [Tx -> Iface]
  /\ serviceOf \in [Tx -> Service \cup {NoService}]
  /\ items \in [Tx -> Seq(Item)]

ASSUME DependencyAssumption ==
  /\ ifaceDeps \in [Tx -> SUBSET Name]
  /\ structDeps \in [Struct -> (SUBSET Name) \ {{}}]
  \* func2svcname.json and gen_interface_dependency speak of interfaces
  /\ \A t, u \in Tx : ifaceOf[t] = ifaceOf[u] =>
        serviceOf[t] = serviceOf[u] /\ ifaceDeps[t] = ifaceDeps[u]

ASSUME HostAssumption ==
  /\ NoService \notin Service
  /\ Fuzzer \notin Service
  /\ NoBinder \notin [host : Service \cup {Fuzzer}, alive : BOOLEAN]

ASSUME BoundAssumption == MaxUsed \in Nat /\ MaxDepth \in Nat \ {0}

VARIABLES
  stack,               \* the transactions under construction, innermost last
  usedTxs,             \* the transactions marked as used
  generatedInterface,  \* the cached binder of each interface
  up,                  \* the services that run
  running              \* the fuzzer process runs

vars == <<stack, usedTxs, generatedInterface, up, running>>

-----------------------------------------------------------------------------
(* Data *)

\* A binder is known by the process behind it; it dies with that process.
Handle == [host : Service \cup {Fuzzer}, alive : BOOLEAN]
BinderOrNull == Handle \cup {NoBinder}

Alive(s) == [host |-> s, alive |-> TRUE]

\* Why a transaction is built: by the loop of main.cpp, for a value or a binder
\* that the frame below writes, for the interface of the frame below, or for a
\* structure that holds the value.
Purpose == {"loop", "value", "binder", "interface", "struct"}

\* Where its construction stands.
PC == {"write", "getService", "generate", "retry", "solve", "transact", "reply"}

FrameSet == [tx : Tx, purpose : Purpose, pc : PC, item : Nat \ {0},
             binder : BinderOrNull, reply : BinderOrNull]

\* Transaction::Transaction, followed by the first variable of its parcel.
Frame(t, p) == [tx |-> t, purpose |-> p, pc |-> "write", item |-> 1,
                binder |-> NoBinder, reply |-> NoBinder]

Top == stack[Len(stack)]
At(pc) == running /\ stack # <<>> /\ Top.pc = pc

SetTop(f) == [stack EXCEPT ![Len(stack)] = f]

\* The frames whose transaction has been neither issued nor given up.
Unissued == {i \in DOMAIN stack : stack[i].pc # "reply"}
Pending == {stack[i].tx : i \in Unissued}

-----------------------------------------------------------------------------
Init ==
  /\ stack = <<>>
  /\ usedTxs = {}
  /\ generatedInterface = [i \in Iface |-> NoBinder]
  /\ up \in SUBSET Service
  /\ running = TRUE

\* Everything the process knew is lost.
ProcessEnds ==
  /\ running' = FALSE
  /\ stack' = <<>>
  /\ usedTxs' = {}
  /\ generatedInterface' = [i \in Iface |-> NoBinder]
  /\ UNCHANGED up

\* The frame on top becomes f and a transaction is constructed above it; a
\* recursion too deep for the C++ stack kills the process.
Construct(f, t, purpose) ==
  IF Len(stack) < MaxDepth
  THEN /\ stack' = Append(SetTop(f), Frame(t, purpose))
       /\ usedTxs' = usedTxs \cup {t}
       /\ UNCHANGED <<generatedInterface, running>>
  ELSE ProcessEnds

\* solveTxDependency: exit(0) for a transaction that was not loaded.
SolveTxDependency(f, name, purpose) ==
  /\ IF name \in Tx THEN Construct(f, name, purpose) ELSE ProcessEnds
  /\ UNCHANGED up

-----------------------------------------------------------------------------
(* generator.cpp and parcel_writer.cpp *)

GenerateTx(t) ==
  /\ running /\ stack = <<>>
  /\ stack' = <<Frame(t, "loop")>>
  /\ usedTxs' = usedTxs \cup {t}
  /\ UNCHANGED <<generatedInterface, up, running>>

MoreItems == Top.item <= Len(items[Top.tx])

Written == [Top EXCEPT !.item = @ + 1]

\* generateManually, which every variable may be left to.
WriteManually ==
  /\ At("write") /\ MoreItems
  /\ stack' = SetTop(Written)
  /\ UNCHANGED <<usedTxs, generatedInterface, up, running>>

\* Mutants: a transaction in use may be used again; one too many is allowed.
CanUseDependencyAgain(dep, binder) == Cardinality(usedTxs) < MaxUsed \/ binder

CanUseDependencyOffByOne(dep, binder) ==
  /\ Cardinality(usedTxs) <= MaxUsed \/ binder
  /\ dep.name \notin usedTxs

\* The marks are keyed by transaction names: for a structure dependency the
\* code looks the name of the structure up among them.
CanUseDependency(dep, binder) ==
  /\ Cardinality(usedTxs) < MaxUsed \/ binder
  /\ dep.name \notin usedTxs

\* The variable is filled from the reply of a transaction ...
WriteFromTx(dep) ==
  LET item == items[Top.tx][Top.item] IN
  /\ At("write") /\ MoreItems
  /\ dep \in item.deps /\ dep.type = "Transaction"
  /\ CanUseDependency(dep, item.binder)
  /\ SolveTxDependency(Written, dep.name, IF item.binder THEN "binder" ELSE "value")

\* ... or from a structure that some transaction replies with.
WriteFromStruct(dep) ==
  LET item == items[Top.tx][Top.item] IN
  /\ At("write") /\ MoreItems
  /\ dep \in item.deps /\ dep.type = "Structure"
  /\ CanUseDependency(dep, item.binder)
  /\ IF dep.name \in Struct
     THEN \E name \in structDeps[dep.name] : SolveTxDependency(Written, name, "struct")
     ELSE ProcessEnds

\* The parcel is complete: Executor::run begins.
Complete ==
  /\ At("write") /\ ~MoreItems
  /\ stack' = SetTop([Top EXCEPT !.pc = "getService"])
  /\ UNCHANGED <<usedTxs, generatedInterface, up, running>>

-----------------------------------------------------------------------------
(* service.cpp *)

\* Mutant: the cache is asked for the interface of the loop's transaction.
CachedOfLoop == generatedInterface[ifaceOf[stack[1].tx]]

Cached == generatedInterface[ifaceOf[Top.tx]]

\* IBinder::pingBinder returns a status_t: OK, that is zero, from a live binder.
PingBinder(binder) == IF binder.alive THEN 0 ELSE 1

\* The cached binder is returned when pingBinder is non-zero, and otherwise
\* dropped.
LookUp ==
  /\ At("getService")
  /\ IF Cached # NoBinder /\ PingBinder(Cached) # 0
     THEN /\ stack' = SetTop([Top EXCEPT !.binder = Cached, !.pc = "transact"])
          /\ UNCHANGED generatedInterface
     ELSE /\ stack' = SetTop([Top EXCEPT !.pc = "generate"])
          /\ generatedInterface' = [generatedInterface EXCEPT ![ifaceOf[Top.tx]] = NoBinder]
  /\ UNCHANGED <<usedTxs, up, running>>

\* getService returns a binder, which is cached, to Executor::run.
Bind(binder) ==
  /\ generatedInterface' = [generatedInterface EXCEPT ![ifaceOf[Top.tx]] = binder]
  /\ stack' = SetTop([Top EXCEPT !.binder = binder, !.pc = "transact"])
  /\ UNCHANGED usedTxs

\* Mutant: Executor::run returns early and leaves the mark.
GiveUpMarked ==
  /\ stack' = IF Top.purpose = "loop" THEN <<>>
              ELSE SetTop([Top EXCEPT !.pc = "reply"])
  /\ UNCHANGED <<usedTxs, generatedInterface>>

\* getService returns NULL: Executor::run clears the mark. A transaction of the
\* loop is then done with; any other goes on to read its (empty) reply.
GiveUp ==
  /\ usedTxs' = usedTxs \ {Top.tx}
  /\ stack' = IF Top.purpose = "loop" THEN <<>>
              ELSE SetTop([Top EXCEPT !.pc = "reply"])
  /\ UNCHANGED generatedInterface

\* generateInterfaceManually
GenerateManually ==
  IF ifaceOf[Top.tx] \in Stub THEN Bind(Alive(Fuzzer)) ELSE GiveUp

TopLevelTx(t) == serviceOf[t] # NoService
TopLevel == TopLevelTx(Top.tx)

CheckService ==
  /\ At("generate") /\ TopLevel
  /\ IF serviceOf[Top.tx] \in up THEN Bind(Alive(serviceOf[Top.tx]))
     ELSE IF ifaceOf[Top.tx] \in HarnessOnly THEN GenerateManually
     ELSE /\ stack' = SetTop([Top EXCEPT !.pc = "retry"])
          /\ UNCHANGED <<usedTxs, generatedInterface>>
  /\ UNCHANGED <<up, running>>

\* Mutant: the service is waited for.
CheckServiceForever ==
  /\ At("retry")
  /\ serviceOf[Top.tx] \in up
  /\ Bind(Alive(serviceOf[Top.tx]))
  /\ UNCHANGED <<up, running>>

\* After sleep(5).
CheckServiceAgain ==
  /\ At("retry")
  /\ IF serviceOf[Top.tx] \in up THEN Bind(Alive(serviceOf[Top.tx])) ELSE GiveUp
  /\ UNCHANGED <<up, running>>

\* A multi-level interface comes from the reply of a transaction. The solver
\* is run without canUseDependency.
SolveInterface(name) ==
  /\ At("generate") /\ ~TopLevel
  /\ name \in ifaceDeps[Top.tx]
  /\ SolveTxDependency([Top EXCEPT !.pc = "solve"], name, "interface")

GenerateInterface ==
  /\ At("generate") /\ ~TopLevel
  /\ ifaceDeps[Top.tx] = {} \/ ifaceOf[Top.tx] \in CoinFlip
  /\ GenerateManually
  /\ UNCHANGED <<up, running>>

\* The solver has returned; its binder is in Top.binder.
InterfaceSolved ==
  /\ At("solve")
  /\ IF Top.binder = NoBinder THEN GiveUp ELSE Bind(Top.binder)
  /\ UNCHANGED <<up, running>>

-----------------------------------------------------------------------------
(* executor.cpp and dependency_solver.cpp *)

\* Mutant: the mark is cleared only for the dependency solver.
TransactMarked ==
  /\ At("transact")
  /\ IF Top.purpose = "loop" THEN stack' = <<>> /\ UNCHANGED usedTxs
     ELSE /\ usedTxs' = usedTxs \ {Top.tx}
          /\ \E b \in {NoBinder} \cup {x \in {Top.binder} : x.alive} :
               stack' = SetTop([Top EXCEPT !.pc = "reply", !.reply = b])
  /\ UNCHANGED <<generatedInterface, up, running>>

\* transact, whose status is ignored, and the clearing of the mark. A live
\* service may reply with a binder of its own.
Transact ==
  /\ At("transact")
  /\ usedTxs' = usedTxs \ {Top.tx}
  /\ IF Top.purpose = "loop" THEN stack' = <<>>
     ELSE \E b \in {NoBinder} \cup {x \in {Top.binder} : x.alive} :
            stack' = SetTop([Top EXCEPT !.pc = "reply", !.reply = b])
  /\ UNCHANGED <<generatedInterface, up, running>>

\* The reply is read for what it was needed for, and the solver returns. Only
\* the binder of an interface is remembered outside the parcels.
ReadReply ==
  /\ At("reply")
  /\ LET below == SubSeq(stack, 1, Len(stack) - 1) IN
     stack' = IF Top.purpose = "interface"
              THEN [below EXCEPT ![Len(below)].binder = Top.reply]
              ELSE below
  /\ UNCHANGED <<usedTxs, generatedInterface, up, running>>

-----------------------------------------------------------------------------
(* The environment *)

\* A service crashes: every binder it hosts is dead.
Crash(s) ==
  LET Die(b) == IF b # NoBinder /\ b.host = s THEN [b EXCEPT !.alive = FALSE] ELSE b IN
  /\ s \in up
  /\ up' = up \ {s}
  /\ generatedInterface' = [i \in Iface |-> Die(generatedInterface[i])]
  /\ stack' = [i \in DOMAIN stack |->
                 [stack[i] EXCEPT !.binder = Die(@), !.reply = Die(@)]]
  /\ UNCHANGED <<usedTxs, running>>

Register(s) ==
  /\ s \in Service \ up
  /\ up' = up \cup {s}
  /\ UNCHANGED <<stack, usedTxs, generatedInterface, running>>

\* The device manager kills the fuzzer, and starts it when it is gone.
Kill == running /\ ProcessEnds

Start ==
  /\ ~running
  /\ running' = TRUE
  /\ UNCHANGED <<stack, usedTxs, generatedInterface, up>>

-----------------------------------------------------------------------------
Solve ==
  \/ stack # <<>> /\ MoreItems /\ \E dep \in items[Top.tx][Top.item].deps :
       WriteFromTx(dep) \/ WriteFromStruct(dep)
  \/ stack # <<>> /\ \E name \in ifaceDeps[Top.tx] : SolveInterface(name)

\* One step of the recursion above a transaction of the loop.
Work ==
  \/ WriteManually \/ Complete \/ Solve
  \/ LookUp \/ CheckService \/ CheckServiceAgain
  \/ GenerateInterface \/ InterfaceSolved
  \/ Transact \/ ReadReply

Environment ==
  \/ \E s \in Service : Crash(s) \/ Register(s)
  \/ Kill \/ Start

Next == (\E t \in Target : GenerateTx(t)) \/ Work \/ Environment

Spec == Init /\ [][Next]_vars

\* The fuzzer's only thread runs until the process ends.
FairSpec == Spec /\ WF_vars(Work)

-----------------------------------------------------------------------------
(* Properties *)

TypeOK ==
  /\ stack \in Seq(FrameSet)
  /\ usedTxs \in SUBSET Tx
  /\ generatedInterface \in [Iface -> BinderOrNull]
  /\ up \in SUBSET Service
  /\ running \in BOOLEAN

\* Executor::run clears the mark on each of its paths ("clear tx status"), and
\* nested uses of a transaction do not disturb that: only a transaction that is
\* still to be issued is marked, so no mark outlives its transaction and bars
\* it from later iterations.
MarksArePending == usedTxs \subseteq Pending

\* canUseDependency says "Tx %s has been used, so we can not utilize it to
\* generate other variables": no transaction is constructed while filling, or
\* finding the service of, the same transaction.
NoReentrance == \A i, j \in DOMAIN stack : stack[i].tx = stack[j].tx => i = j

\* Every dependency passes canUseDependency, and is a transaction.
CheckedOnly ==
  \A t \in Tx :
    /\ serviceOf[t] # NoService \/ ifaceDeps[t] = {}
    /\ \A i \in DOMAIN items[t] : \A d \in items[t][i].deps : d.type = "Transaction"

\* "There are too many Txs used when solving dependency": where all the
\* dependencies are checked, the construction of a value is never nested deeper
\* than the limit on used transactions.
ValuesAreShallow ==
  CheckedOnly => \A i \in DOMAIN stack : stack[i].purpose = "value" => i <= MaxUsed

\* Where all the dependencies are checked, the recursion is no deeper than there
\* are transactions, whatever cycles the dependencies form.
DepthBounded == CheckedOnly => Len(stack) <= Cardinality(Tx)

\* "Use the existing alive interface" (service.cpp:33): when getService answers from the
\* cache, the binder is alive; one that has died is dropped and made anew
\* (service.cpp:36).  The code does the opposite.
CachedReturnedAlive ==
  [][ \A i \in Iface :
        LookUp /\ i = ifaceOf[Top.tx] /\ stack'[Len(stack)].pc = "transact"
          => generatedInterface[i].alive ]_vars

\* The fuzzer only ever sends a transaction of a registered service to that
\* service, through however many nested uses of the interface cache (or to its
\* own stub, for an interface that is made by hand).
SentToItsService ==
  \A i \in DOMAIN stack :
    TopLevelTx(stack[i].tx) /\ stack[i].pc = "transact" =>
      stack[i].binder.host \in
        {serviceOf[stack[i].tx]} \cup
        (IF ifaceOf[stack[i].tx] \in HarnessOnly THEN {Fuzzer} ELSE {})

-----------------------------------------------------------------------------
(* The main loop that the engine implements *)

CONSTANT NoTx

ASSUME LoopAssumption == NoTx \notin Tx

Loop == INSTANCE FuzzLoop WITH
  loopTx <- IF stack = <<>> THEN NoTx ELSE stack[1].tx,
  marks <- usedTxs

LoopSpec == Loop!Spec
IterationsEnd == Loop!IterationsEnd
=============================================================================
