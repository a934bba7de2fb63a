-------------------------- MODULE DependencyInferer --------------------------
(***************************************************************************)
(* infer_dependency.py: it loads the models of services and structures,    *)
(* finds for each input the outputs that can supply it, in three passes    *)
(* that need each other's results, and writes the models back, one file    *)
(* after the other.  The models are both its input and its output: a run   *)
(* begins with what earlier runs, also interrupted ones, have written, and *)
(* the extractor may add files and write some of them anew in between.     *)
(***************************************************************************)
EXTENDS Naturals

CONSTANTS
  Bases,        \* names of model files, which for a structure is its type
  Files,        \* the model files: [dir |-> ..., base |-> ...]
  Items,        \* the transactions and structures in them: [file |-> ..., name |-> ...]
  Vars,         \* variables: [name |-> ..., type |-> ...]
  Variables,    \* the variables of an item
  Data, Reply,  \* those of its data and of its reply
  ElementOf,    \* the node of a variable: what the elements of an array are
  Useless, Implicit, Element,  \* variables with such names
  Stem,         \* the name of a variable as simplified_name leaves it
  Similar,      \* pairs of names that isNameSimilar takes for the same
  Basic, Vector, Blob,         \* types
  Binder,       \* the interface of a type "sp<...>", or none
  Interface,    \* the interface of a service
  Special,      \* pairs of files that are not to supply one another
  MaxCrashes

Dirs == {"service", "data", "reply"}
IsTx(i) == i.file.dir = "service"
Node == [base : Bases, type : {"Transaction", "Structure"}, name : {i.name : i \in Items},
         var : Vars]

\* The structures of data/ are read by services, and those of reply/ written; the files
\* of services are named otherwise than those of structures.
ASSUME ModelAssumption ==
  /\ Files \subseteq [dir : Dirs, base : Bases]
  /\ \A i \in Items : i.file \in Files
  /\ Variables \in [Items -> SUBSET Vars]
  /\ Data \in [Items -> SUBSET Vars] /\ Reply \in [Items -> SUBSET Vars]
  /\ ElementOf \in [Vars -> Vars]
  /\ \A i \in Items : (i.file.dir = "data" => Reply[i] = {}) /\ (i.file.dir = "reply" => Data[i] = {})
  /\ \A f, g \in Files : f.base = g.base => (f.dir = "service" <=> g.dir = "service")
  /\ MaxCrashes \in Nat

VARIABLES
  stored,    \* the model files there are
  broken,    \* those that end in the middle
  itemDeps,  \* "dependency" of the items in the files
  varDeps,   \* "dependency" of their variables
  items, vars,    \* the same in memory
  stage,     \* what infer_dependency.py is about to do
  toDump,    \* the files it has not written back
  crashes    \* how often it has ended early, up to MaxCrashes

disk   == <<stored, broken, itemDeps, varDeps>>
memory == <<items, vars>>
all    == <<disk, memory, stage, toDump, crashes>>

ItemsIn(S) == {i \in Items : i.file \in S}
Places     == Items \X Vars

TypeOK ==
  /\ stored \subseteq Files /\ broken \subseteq stored /\ toDump \subseteq stored
  \* only a transaction can supply a binder or a structure
  /\ itemDeps \in [Items -> SUBSET {o \in Node : o.type = "Transaction"}]
  /\ items \in [Items -> SUBSET {o \in Node : o.type = "Transaction"}]
  /\ varDeps \in [Places -> SUBSET Node] /\ vars \in [Places -> SUBSET Node]
  /\ stage \in {"idle", "structure", "interface", "variable", "dump", "done"}
  /\ crashes \in 0..MaxCrashes

Init ==
  /\ stored = {} /\ broken = {} /\ toDump = {}
  /\ itemDeps = [i \in Items |-> {}] /\ items = itemDeps
  /\ varDeps = [p \in Places |-> {}] /\ vars = varDeps
  /\ stage = "idle" /\ crashes = 0

\* The extractor writes a file, a new one or one that it has written before.
Store ==
  /\ stage \in {"idle", "done"}
  /\ \E f \in Files :
       /\ stored' = stored \cup {f} /\ broken' = broken \ {f}
       /\ itemDeps' = [i \in Items |-> IF i.file = f THEN {} ELSE itemDeps[i]]
       /\ varDeps' = [p \in Places |-> IF p[1].file = f THEN {} ELSE varDeps[p]]
  /\ stage' = "idle"
  /\ UNCHANGED <<memory, toDump, crashes>>

\* json.load does not read a file that ends in the middle.
Load ==
  /\ stage \in {"idle", "done"} /\ stored # {} /\ broken = {}
  /\ items' = itemDeps /\ vars' = varDeps
  /\ stage' = "structure"
  /\ UNCHANGED <<disk, toDump, crashes>>

-----------------------------------------------------------------------------
\* input and output, which walkParcel collects.
NodeOf(i, v) == [base |-> i.file.base, type |-> IF IsTx(i) THEN "Transaction" ELSE "Structure",
                 name |-> i.name, var |-> v]
Nodes(parcel) == {ElementOf[v] : v \in parcel} \ {v \in Useless : v.type \in Basic}
Inputs(S)  == {p \in Places : p[1] \in ItemsIn(S) /\ p[2] \in Nodes(Data[p[1]])}
Outputs(S) == UNION {{NodeOf(i, v) : v \in Nodes(Reply[i])} : i \in ItemsIn(S)}
OfTransactions(S) == {o \in Outputs(S) : o.type = "Transaction"}

StructureSources(i, S) ==
  IF i.file.dir = "reply" THEN {o \in OfTransactions(S) : o.var.type = i.file.base} ELSE {}
\* Mutant: a transaction does not supply its own interface.
InterfaceSourcesOther(i, S) ==
  IF IsTx(i) THEN {o \in OfTransactions(S) : Binder[o.var.type] = Interface[i.file.base]
                                             /\ o.name # i.name} ELSE {}
InterfaceSources(i, S) ==
  IF IsTx(i) THEN {o \in OfTransactions(S) : Binder[o.var.type] = Interface[i.file.base]} ELSE {}

StructurePass ==
  /\ stage = "structure" /\ stage' = "interface"
  /\ items' = [i \in Items |-> items[i] \cup StructureSources(i, stored)]
  /\ UNCHANGED <<disk, vars, toDump, crashes>>

InterfacePass ==
  /\ stage = "interface" /\ stage' = "variable"
  /\ items' = [i \in Items |-> items[i] \cup InterfaceSources(i, stored)]
  /\ UNCHANGED <<disk, vars, toDump, crashes>>

IsNameSimilar(x, y) == x = y \/ <<x, y>> \in Similar
IsSupplied(v, w) ==
  /\ v.type = w.type /\ v.type # Blob
  /\ v.type \notin Basic => (v.type \in Vector => IsNameSimilar(v.name, w.name))
  /\ v.type \in Basic => /\ v \notin Element \cup Implicit /\ w \notin Element
                         /\ IsNameSimilar(Stem[v], Stem[w])

MaySupply(i, o) ==
  /\ i.file.base # o.base \/ IsTx(i)
  /\ <<i.file.base, o.base>> \notin Special
  /\ i.name # o.name

\* The structure that an output is in can be had from a transaction, as far as the
\* passes before know.
\* Mutant: nobody looks.
IsBackedAlways(o) == TRUE
\* Mutant: only what was found by an earlier run counts.
IsBackedOnDisk(o) ==
  o.type = "Structure" =>
    \E i \in Items : /\ i.file = [dir |-> "reply", base |-> o.base] /\ i.name = o.name
                     /\ itemDeps[i] # {}
IsBacked(o) ==
  o.type = "Structure" =>
    \E i \in Items : /\ i.file = [dir |-> "reply", base |-> o.base] /\ i.name = o.name
                     /\ items[i] # {}

\* A dependency is noted at the variable with the name of the node, if there is one.
VariablePass ==
  /\ stage = "variable" /\ stage' = "dump"
  /\ vars' = [p \in Places |->
       IF p \in Inputs(stored) /\ p[2] \in Variables[p[1]]
       THEN vars[p] \cup {o \in Outputs(stored) :
                            MaySupply(p[1], o) /\ IsBacked(o) /\ IsSupplied(p[2], o.var)}
       ELSE vars[p]]
  /\ toDump' = stored
  /\ UNCHANGED <<disk, items, crashes>>

\* The services are written first, then the structures of data/ and of reply/.
Turn(f) == \A g \in toDump : CASE f.dir = "service" -> TRUE
                               [] f.dir = "data"    -> g.dir # "service"
                               [] f.dir = "reply"   -> g.dir = "reply"

DumpFile ==
  /\ stage = "dump"
  /\ \E f \in toDump :
       /\ Turn(f) /\ toDump' = toDump \ {f}
       /\ itemDeps' = [i \in Items |-> IF i.file = f THEN items[i] ELSE itemDeps[i]]
       /\ varDeps' = [p \in Places |-> IF p[1].file = f THEN vars[p] ELSE varDeps[p]]
  /\ UNCHANGED <<stored, broken, memory, stage, crashes>>

Finish ==
  /\ stage = "dump" /\ toDump = {} /\ stage' = "done"
  /\ UNCHANGED <<disk, memory, toDump, crashes>>

\* The run is killed; a file that it had begun to write is left without its end.
Interrupt ==
  /\ stage \notin {"idle", "done"} /\ crashes < MaxCrashes
  /\ \/ broken' = broken
     \/ stage = "dump" /\ \E f \in toDump : Turn(f) /\ broken' = broken \cup {f}
  /\ stage' = "idle" /\ toDump' = {} /\ crashes' = crashes + 1
  /\ UNCHANGED <<stored, itemDeps, varDeps, memory>>

Next == \/ Store \/ Load \/ StructurePass \/ InterfacePass \/ VariablePass
        \/ DumpFile \/ Finish \/ Interrupt

Spec == Init /\ [][Next]_all

-----------------------------------------------------------------------------
\* What the dependencies of the models in S should be, whatever the order of passes.
CanBeReturned(o, S) ==
  o.type = "Structure" => \E r \in OfTransactions(S) : r.var.type = o.base
ItemSources(i, S) == StructureSources(i, S) \cup InterfaceSources(i, S)
VarSources(p, S) ==
  {o \in Outputs(S) : /\ p \in Inputs(S) /\ p[2] \in Variables[p[1]]
                      /\ MaySupply(p[1], o) /\ CanBeReturned(o, S) /\ IsSupplied(p[2], o.var)}

\* After a run, the files have all dependencies and no other, although earlier runs were
\* interrupted and files have been added and written anew since.
Inferred ==
  stage = "done" =>
    /\ \A i \in ItemsIn(stored) : itemDeps[i] = ItemSources(i, stored)
    /\ \A p \in Places : p[1] \in ItemsIn(stored) => varDeps[p] = VarSources(p, stored)

\* Even after an interrupted run no file has a dependency that is not one.
SoundOnDisk ==
  /\ \A i \in Items : itemDeps[i] \subseteq ItemSources(i, stored)
  /\ \A p \in Places : varDeps[p] \subseteq VarSources(p, stored)

\* All transactions of a service have the same dependencies, also after an interrupted
\* run: the fuzzer caches binders by interface, and asks any transaction for them.
InterfaceShared ==
  \A i, j \in Items : IsTx(i) /\ i.file = j.file => itemDeps[i] = itemDeps[j]

\* After a run, the fuzzer can get the structure of every source from a transaction: it
\* chooses from the dependencies of the structure, of which there must be one.
SourcesBacked ==
  stage = "done" =>
    \A p \in Places : \A o \in varDeps[p] : o.type = "Structure" =>
      \E i \in ItemsIn(stored) : /\ i.file = [dir |-> "reply", base |-> o.base]
                                 /\ i.name = o.name /\ itemDeps[i] # {}
=============================================================================
