----------------------- MODULE DependencyInfererProofs -----------------------
(***************************************************************************)
(* For all models: what infer_dependency.py leaves in the files is exactly *)
(* the dependencies of the models there are.  What it adds to is what      *)
(* earlier runs have left, so the invariant has to say that this was right *)
(* for fewer models and stays right for more of them.                      *)
(***************************************************************************)
EXTENDS DependencyInferer, TLAPS

Running == stage \in {"structure", "interface", "variable", "dump"}

\* In memory there is nothing wrong either, and services are alike.
SoundInMemory ==
  Running => /\ \A i \in Items : items[i] \subseteq ItemSources(i, stored)
             /\ \A p \in Places : vars[p] \subseteq VarSources(p, stored)
SharedInMemory ==
  Running => \A i, j \in Items : IsTx(i) /\ i.file = j.file => items[i] = items[j]

\* What the passes have done.
PassesDone ==
  /\ stage \in {"interface", "variable", "dump"} =>
       \A i \in Items : StructureSources(i, stored) \subseteq items[i]
  /\ stage \in {"variable", "dump"} => \A i \in Items : items[i] = ItemSources(i, stored)
  /\ stage = "dump" =>
       \A p \in Places : p[1].file \in stored => vars[p] = VarSources(p, stored)

\* What has been written back is what is in memory.
Dumped ==
  stage = "dump" =>
    /\ \A i \in Items : i.file \in stored \ toDump => itemDeps[i] = items[i]
    /\ \A p \in Places : p[1].file \in stored \ toDump => varDeps[p] = vars[p]

IInv == /\ TypeOK /\ SoundOnDisk /\ InterfaceShared /\ SoundInMemory /\ SharedInMemory
        /\ PassesDone /\ Dumped /\ Inferred

-----------------------------------------------------------------------------
LEMMA OutputsTyped ==
  ASSUME NEW S \in SUBSET Files
  PROVE  Outputs(S) \subseteq Node
<1> SUFFICES ASSUME NEW i \in ItemsIn(S), NEW v \in Nodes(Reply[i])
             PROVE  NodeOf(i, v) \in Node
  BY DEF Outputs
<1>1. i \in Items /\ i.file.base \in Bases
  BY ModelAssumption DEF ItemsIn
<1>2. v \in Vars
  BY <1>1, ModelAssumption DEF Nodes
<1>3. QED BY <1>1, <1>2 DEF NodeOf, Node

\* With more models there are more dependencies.
LEMMA SourcesGrow ==
  ASSUME NEW S \in SUBSET Files, NEW T \in SUBSET Files, S \subseteq T
  PROVE  /\ \A i \in Items : ItemSources(i, S) \subseteq ItemSources(i, T)
         /\ \A p \in Places : VarSources(p, S) \subseteq VarSources(p, T)
<1>1. ItemsIn(S) \subseteq ItemsIn(T)
  BY DEF ItemsIn
<1>2. Outputs(S) \subseteq Outputs(T) /\ Inputs(S) \subseteq Inputs(T)
  BY <1>1 DEF Outputs, Inputs
<1>3. OfTransactions(S) \subseteq OfTransactions(T)
  BY <1>2 DEF OfTransactions
<1>4. \A i \in Items : ItemSources(i, S) \subseteq ItemSources(i, T)
  BY <1>3 DEF ItemSources, StructureSources, InterfaceSources
<1>5. \A o : CanBeReturned(o, S) => CanBeReturned(o, T)
  BY <1>3 DEF CanBeReturned
<1>6. \A p \in Places : VarSources(p, S) \subseteq VarSources(p, T)
  BY <1>2, <1>5 DEF VarSources
<1>7. QED BY <1>4, <1>6

LEMMA ItemSourcesTyped ==
  ASSUME NEW S \in SUBSET Files, NEW i \in Items
  PROVE  ItemSources(i, S) \subseteq {o \in Node : o.type = "Transaction"}
BY OutputsTyped DEF ItemSources, StructureSources, InterfaceSources, OfTransactions

\* What a structure supplies is in a file of reply/, whose dependencies are the
\* transactions that return the structure.
LEMMA StructureHasItem ==
  ASSUME NEW S \in SUBSET Files, NEW o \in Outputs(S), o.type = "Structure"
  PROVE  /\ \E i \in ItemsIn(S) : i.file = [dir |-> "reply", base |-> o.base] /\ i.name = o.name
         /\ \A j \in Items : j.file = [dir |-> "reply", base |-> o.base] =>
              ItemSources(j, S) = {r \in OfTransactions(S) : r.var.type = o.base}
<1>1. PICK i \in ItemsIn(S) : \E v \in Nodes(Reply[i]) : o = NodeOf(i, v)
  BY DEF Outputs
<1>2. i \in Items /\ i.file \in Files /\ i.file \in [dir : Dirs, base : Bases]
  BY <1>1, ModelAssumption DEF ItemsIn
<1>3. i.file.dir # "service" /\ o.base = i.file.base /\ o.name = i.name
  BY <1>1 DEF NodeOf, IsTx
<1>4. Reply[i] # {}
  BY <1>1 DEF Nodes
<1>5. i.file.dir = "reply"
  BY <1>2, <1>3, <1>4, ModelAssumption DEF Dirs
<1>6. i.file = [dir |-> "reply", base |-> o.base]
  BY <1>2, <1>3, <1>5
<1>7. ASSUME NEW j \in Items, j.file = [dir |-> "reply", base |-> o.base]
      PROVE  ItemSources(j, S) = {r \in OfTransactions(S) : r.var.type = o.base}
  BY <1>7 DEF ItemSources, StructureSources, InterfaceSources, IsTx
<1>8. QED BY <1>3, <1>6, <1>7

\* What the third pass looks up is what the first has found: a structure has
\* dependencies exactly if a transaction returns it.
LEMMA BackedIsReturned ==
  ASSUME TypeOK, PassesDone, stage = "variable", NEW o \in Outputs(stored)
  PROVE  IsBacked(o) <=> CanBeReturned(o, stored)
<1>1. CASE o.type = "Structure"
  <2>1. \A j \in Items : items[j] = ItemSources(j, stored)
    BY DEF PassesDone
  <2>2. QED BY <1>1, <2>1, StructureHasItem DEF TypeOK, IsBacked, CanBeReturned, ItemsIn
<1>2. CASE o.type # "Structure"
  BY <1>2 DEF IsBacked, CanBeReturned
<1>3. QED BY <1>1, <1>2

-----------------------------------------------------------------------------
LEMMA InitIInv == Init => IInv
<1> SUFFICES ASSUME Init PROVE IInv
  OBVIOUS
<1>1. TypeOK
  <2>1. crashes \in 0..MaxCrashes
    BY ModelAssumption DEF Init
  <2>2. QED BY <2>1 DEF Init, TypeOK
<1>2. SoundOnDisk /\ InterfaceShared
  BY DEF Init, SoundOnDisk, InterfaceShared, Places
<1>3. SoundInMemory /\ SharedInMemory /\ PassesDone /\ Dumped /\ Inferred
  BY DEF Init, Running, SoundInMemory, SharedInMemory, PassesDone, Dumped, Inferred
<1>4. QED BY <1>1, <1>2, <1>3 DEF IInv

LEMMA Stutter ==
  ASSUME IInv, UNCHANGED all
  PROVE  IInv'
<1>1. UNCHANGED <<stored, broken, itemDeps, varDeps, items, vars, stage, toDump, crashes>>
  BY DEF all, disk, memory
<1>2. TypeOK' /\ SoundOnDisk' /\ InterfaceShared' /\ Inferred'
  BY <1>1 DEF IInv, TypeOK, SoundOnDisk, InterfaceShared, Inferred
<1>3. SoundInMemory' /\ SharedInMemory' /\ PassesDone' /\ Dumped'
  BY <1>1 DEF IInv, Running, SoundInMemory, SharedInMemory, PassesDone, Dumped
<1>4. QED BY <1>2, <1>3 DEF IInv

LEMMA VarSourcesTyped ==
  ASSUME NEW S \in SUBSET Files, NEW p \in Places
  PROVE  VarSources(p, S) \subseteq Node
BY OutputsTyped DEF VarSources

LEMMA StoreKeeps ==
  ASSUME IInv, Store
  PROVE  IInv'
<1>1. PICK f \in Files :
        /\ stored' = stored \cup {f} /\ broken' = broken \ {f}
        /\ itemDeps' = [i \in Items |-> IF i.file = f THEN {} ELSE itemDeps[i]]
        /\ varDeps' = [p \in Places |-> IF p[1].file = f THEN {} ELSE varDeps[p]]
  BY DEF Store
<1>2. stage' = "idle" /\ items' = items /\ vars' = vars /\ toDump' = toDump /\ crashes' = crashes
  BY DEF Store, memory
<1>3. stored \subseteq Files /\ stored' \subseteq Files /\ stored \subseteq stored'
  BY <1>1 DEF IInv, TypeOK
<1>4. TypeOK'
  BY <1>1, <1>2, <1>3 DEF IInv, TypeOK
<1>5. SoundOnDisk'
  BY <1>1, <1>3, SourcesGrow DEF IInv, SoundOnDisk
<1>6. InterfaceShared'
  BY <1>1 DEF IInv, InterfaceShared
<1>7. SoundInMemory' /\ SharedInMemory' /\ PassesDone' /\ Dumped' /\ Inferred'
  BY <1>2 DEF Running, SoundInMemory, SharedInMemory, PassesDone, Dumped, Inferred
<1>8. QED BY <1>4, <1>5, <1>6, <1>7 DEF IInv

LEMMA LoadKeeps ==
  ASSUME IInv, Load
  PROVE  IInv'
<1>1. /\ items' = itemDeps /\ vars' = varDeps /\ stage' = "structure" /\ toDump' = toDump
      /\ UNCHANGED <<stored, broken, itemDeps, varDeps, crashes>>
  BY DEF Load, disk
<1>2. TypeOK'
  BY <1>1 DEF IInv, TypeOK
<1>3. SoundOnDisk' /\ InterfaceShared'
  BY <1>1 DEF IInv, SoundOnDisk, InterfaceShared
<1>4. SoundInMemory' /\ SharedInMemory'
  BY <1>1 DEF IInv, SoundOnDisk, InterfaceShared, SoundInMemory, SharedInMemory
<1>5. PassesDone' /\ Dumped' /\ Inferred'
  BY <1>1 DEF PassesDone, Dumped, Inferred
<1>6. QED BY <1>2, <1>3, <1>4, <1>5 DEF IInv

LEMMA StructurePassKeeps ==
  ASSUME IInv, StructurePass
  PROVE  IInv'
<1>1. /\ stage = "structure" /\ stage' = "interface"
      /\ items' = [i \in Items |-> items[i] \cup StructureSources(i, stored)]
      /\ UNCHANGED <<stored, broken, itemDeps, varDeps, vars, toDump, crashes>>
  BY DEF StructurePass, disk
<1>2. stored \in SUBSET Files
  BY DEF IInv, TypeOK
<1>3. \A i \in Items : StructureSources(i, stored) \subseteq ItemSources(i, stored)
  BY DEF ItemSources
<1>4. TypeOK'
  BY <1>1, <1>2, <1>3, ItemSourcesTyped DEF IInv, TypeOK
<1>5. SoundOnDisk' /\ InterfaceShared'
  BY <1>1 DEF IInv, SoundOnDisk, InterfaceShared
<1>6. SoundInMemory'
  BY <1>1, <1>3 DEF IInv, SoundInMemory, Running
<1>7. SharedInMemory'
  <2>1. \A i \in Items : IsTx(i) => StructureSources(i, stored) = {}
    BY DEF IsTx, StructureSources
  <2>2. \A i, j \in Items : IsTx(i) /\ i.file = j.file => IsTx(j) /\ items[i] = items[j]
    BY <1>1 DEF IInv, SharedInMemory, Running, IsTx
  <2>3. QED BY <1>1, <2>1, <2>2 DEF SharedInMemory
<1>8. PassesDone' /\ Dumped' /\ Inferred'
  BY <1>1 DEF PassesDone, Dumped, Inferred
<1>9. QED BY <1>4, <1>5, <1>6, <1>7, <1>8 DEF IInv

LEMMA InterfacePassKeeps ==
  ASSUME IInv, InterfacePass
  PROVE  IInv'
<1>1. /\ stage = "interface" /\ stage' = "variable"
      /\ items' = [i \in Items |-> items[i] \cup InterfaceSources(i, stored)]
      /\ UNCHANGED <<stored, broken, itemDeps, varDeps, vars, toDump, crashes>>
  BY DEF InterfacePass, disk
<1>2. stored \in SUBSET Files
  BY DEF IInv, TypeOK
<1>3. \A i \in Items : InterfaceSources(i, stored) \subseteq ItemSources(i, stored)
  BY DEF ItemSources
<1>4. TypeOK'
  BY <1>1, <1>2, <1>3, ItemSourcesTyped DEF IInv, TypeOK
<1>5. SoundOnDisk' /\ InterfaceShared'
  BY <1>1 DEF IInv, SoundOnDisk, InterfaceShared
<1>6. SoundInMemory'
  BY <1>1, <1>3 DEF IInv, SoundInMemory, Running
<1>7. SharedInMemory'
  <2>1. \A i, j \in Items : i.file = j.file => InterfaceSources(i, stored) = InterfaceSources(j, stored)
    BY DEF IsTx, InterfaceSources
  <2>2. QED BY <1>1, <2>1 DEF IInv, SharedInMemory, Running
<1>8. PassesDone'
  <2>1. \A i \in Items : items'[i] = ItemSources(i, stored)
    BY <1>1, <1>6 DEF IInv, PassesDone, ItemSources, SoundInMemory, Running
  <2>2. QED BY <1>1, <2>1 DEF PassesDone, ItemSources
<1>9. Dumped' /\ Inferred'
  BY <1>1 DEF Dumped, Inferred
<1>10. QED BY <1>4, <1>5, <1>6, <1>7, <1>8, <1>9 DEF IInv

LEMMA VariablePassKeeps ==
  ASSUME IInv, VariablePass
  PROVE  IInv'
<1>1. /\ stage = "variable" /\ stage' = "dump" /\ toDump' = stored
      /\ UNCHANGED <<stored, broken, itemDeps, varDeps, items, crashes>>
  BY DEF VariablePass, disk
<1>2. stored \in SUBSET Files
  BY DEF IInv, TypeOK
<1>3. ASSUME NEW p \in Places
      PROVE  vars'[p] = vars[p] \cup VarSources(p, stored)
  BY BackedIsReturned, <1>1, <1>2 DEF IInv, VariablePass, VarSources
<1>4. \A p \in Places : vars[p] \subseteq VarSources(p, stored)
  BY <1>1 DEF IInv, SoundInMemory, Running
<1>5. \A p \in Places : vars'[p] = VarSources(p, stored)
  BY <1>3, <1>4
<1>6. TypeOK'
  <2>1. vars' \in [Places -> SUBSET Node]
    BY <1>2, <1>5, VarSourcesTyped DEF VariablePass
  <2>2. QED BY <1>1, <2>1 DEF IInv, TypeOK
<1>7. SoundOnDisk' /\ InterfaceShared' /\ Inferred'
  BY <1>1 DEF IInv, SoundOnDisk, InterfaceShared, Inferred
<1>8. SoundInMemory' /\ SharedInMemory' /\ PassesDone'
  BY <1>1, <1>5 DEF IInv, SoundInMemory, SharedInMemory, PassesDone, Running
<1>9. Dumped'
  BY <1>1 DEF Dumped
<1>10. QED BY <1>6, <1>7, <1>8, <1>9 DEF IInv

LEMMA DumpFileKeeps ==
  ASSUME IInv, DumpFile
  PROVE  IInv'
<1>1. PICK f \in toDump :
        /\ toDump' = toDump \ {f}
        /\ itemDeps' = [i \in Items |-> IF i.file = f THEN items[i] ELSE itemDeps[i]]
        /\ varDeps' = [p \in Places |-> IF p[1].file = f THEN vars[p] ELSE varDeps[p]]
  BY DEF DumpFile
<1>2. /\ stage = "dump" /\ stage' = "dump"
      /\ UNCHANGED <<stored, broken, items, vars, crashes>>
  BY DEF DumpFile, memory
<1>3. TypeOK'
  BY <1>1, <1>2 DEF IInv, TypeOK
<1>4. SoundOnDisk'
  BY <1>1, <1>2 DEF IInv, SoundOnDisk, SoundInMemory, Running
<1>5. InterfaceShared'
  BY <1>1, <1>2 DEF IInv, InterfaceShared, SharedInMemory, Running
<1>6. SoundInMemory' /\ SharedInMemory' /\ PassesDone' /\ Inferred'
  BY <1>2 DEF IInv, SoundInMemory, SharedInMemory, PassesDone, Running, Inferred
<1>7. Dumped'
  BY <1>1, <1>2 DEF IInv, Dumped
<1>8. QED BY <1>3, <1>4, <1>5, <1>6, <1>7 DEF IInv

LEMMA FinishKeeps ==
  ASSUME IInv, Finish
  PROVE  IInv'
<1>1. /\ stage = "dump" /\ stage' = "done" /\ toDump = {}
      /\ UNCHANGED <<stored, broken, itemDeps, varDeps, items, vars, toDump, crashes>>
  BY DEF Finish, disk, memory
<1>2. TypeOK' /\ SoundOnDisk' /\ InterfaceShared'
  BY <1>1 DEF IInv, TypeOK, SoundOnDisk, InterfaceShared
<1>3. SoundInMemory' /\ SharedInMemory' /\ PassesDone' /\ Dumped'
  BY <1>1 DEF Running, SoundInMemory, SharedInMemory, PassesDone, Dumped
<1>4. Inferred'
  BY <1>1 DEF IInv, Dumped, PassesDone, Inferred, ItemsIn, Places
<1>5. QED BY <1>2, <1>3, <1>4 DEF IInv

LEMMA InterruptKeeps ==
  ASSUME IInv, Interrupt
  PROVE  IInv'
<1>1. /\ stage' = "idle" /\ toDump' = {} /\ crashes' = crashes + 1 /\ crashes < MaxCrashes
      /\ broken' \subseteq broken \cup toDump
      /\ UNCHANGED <<stored, itemDeps, varDeps, items, vars>>
  BY DEF Interrupt, memory
<1>2. TypeOK'
  <2>1. crashes' \in 0..MaxCrashes
    BY <1>1, ModelAssumption DEF IInv, TypeOK
  <2>2. QED BY <1>1, <2>1 DEF IInv, TypeOK
<1>3. SoundOnDisk' /\ InterfaceShared'
  BY <1>1 DEF IInv, SoundOnDisk, InterfaceShared
<1>4. SoundInMemory' /\ SharedInMemory' /\ PassesDone' /\ Dumped' /\ Inferred'
  BY <1>1 DEF Running, SoundInMemory, SharedInMemory, PassesDone, Dumped, Inferred
<1>5. QED BY <1>2, <1>3, <1>4 DEF IInv

THEOREM AlwaysIInv == Spec => []IInv
<1>1. Init => IInv
  BY InitIInv
<1>2. IInv /\ [Next]_all => IInv'
  BY StoreKeeps, LoadKeeps, StructurePassKeeps, InterfacePassKeeps, VariablePassKeeps,
     DumpFileKeeps, FinishKeeps, InterruptKeeps, Stutter DEF Next
<1>3. QED BY <1>1, <1>2, PTL DEF Spec

\* Only transactions supply structures and binders, for any models.
THEOREM InfererTypes == Spec => []TypeOK
<1>1. IInv => TypeOK
  BY DEF IInv
<1>2. QED BY <1>1, AlwaysIInv, PTL

\* After a run, the files have the dependencies of the models and no other, for any
\* models, interruptions and files written in between.
THEOREM InfererComplete == Spec => []Inferred
<1>1. IInv => Inferred
  BY DEF IInv
<1>2. QED BY <1>1, AlwaysIInv, PTL

\* No file ever has a dependency that is not one.
THEOREM InfererSound == Spec => []SoundOnDisk
<1>1. IInv => SoundOnDisk
  BY DEF IInv
<1>2. QED BY <1>1, AlwaysIInv, PTL

\* The transactions of a service always have the same dependencies.
THEOREM InfererShares == Spec => []InterfaceShared
<1>1. IInv => InterfaceShared
  BY DEF IInv
<1>2. QED BY <1>1, AlwaysIInv, PTL

\* A structure is only noted as a source when a transaction returns it.
LEMMA IInvBacked ==
  ASSUME IInv
  PROVE  SourcesBacked
<1> SUFFICES ASSUME stage = "done", NEW p \in Places, NEW o \in varDeps[p],
                    o.type = "Structure"
             PROVE  \E i \in ItemsIn(stored) :
                      /\ i.file = [dir |-> "reply", base |-> o.base]
                      /\ i.name = o.name /\ itemDeps[i] # {}
  BY DEF SourcesBacked
<1>1. stored \in SUBSET Files /\ o \in VarSources(p, stored)
  BY DEF IInv, TypeOK, SoundOnDisk
<1>2. o \in Outputs(stored) /\ CanBeReturned(o, stored)
  BY <1>1 DEF VarSources
<1>3. PICK i \in ItemsIn(stored) : i.file = [dir |-> "reply", base |-> o.base] /\ i.name = o.name
  BY <1>1, <1>2, StructureHasItem
<1>4. i \in Items
  BY DEF ItemsIn
<1>5. ItemSources(i, stored) # {}
  BY <1>1, <1>2, <1>3, <1>4, StructureHasItem DEF CanBeReturned
<1>6. itemDeps[i] = ItemSources(i, stored)
  BY DEF IInv, Inferred
<1>7. QED BY <1>3, <1>5, <1>6

\* After a run, whatever the fuzzer takes from within a structure, it can get the
\* structure from a transaction.
THEOREM InfererBacked == Spec => []SourcesBacked
BY IInvBacked, AlwaysIInv, PTL

-----------------------------------------------------------------------------
(* What the fuzzer loads after a run, in the terms of TxEngine *)

\* The transactions and structures by their names.  Where several files have the name,
\* one of them counts.
Transactions == {i \in ItemsIn(stored) : IsTx(i)}
Structures   == {i \in ItemsIn(stored) : i.file.dir = "reply" /\ itemDeps[i] # {}}
Tx     == {i.name : i \in Transactions}
Struct == {i.name : i \in Structures}
TxOf(n)     == CHOOSE i \in Transactions : i.name = n
StructOf(n) == CHOOSE i \in Structures : i.name = n
ifaceOf    == [t \in Tx |-> TxOf(t).file]
ifaceDeps  == [t \in Tx |-> {o.name : o \in itemDeps[TxOf(t)]}]
structDeps == [s \in Struct |-> {o.name : o \in itemDeps[StructOf(s)]}]

\* What TxEngine's DependencyAssumption says of ifaceDeps and structDeps, and more: the
\* dependencies of a variable have been loaded, so that solveStructDependency does not
\* exit, and those of structures and interfaces are transactions.
DependenciesUsable ==
  stage = "done" =>
    /\ ifaceDeps \in [Tx -> SUBSET Tx]
    /\ structDeps \in [Struct -> (SUBSET Tx) \ {{}}]
    /\ \A t, u \in Tx : ifaceOf[t] = ifaceOf[u] => ifaceDeps[t] = ifaceDeps[u]
    /\ \A p \in Places : \A o \in varDeps[p] :
         o.name \in IF o.type = "Transaction" THEN Tx ELSE Struct

\* An output of a transaction has the name of a transaction.
LEMMA TransactionHasItem ==
  ASSUME NEW o \in Outputs(stored), o.type = "Transaction"
  PROVE  o.name \in Tx
<1>1. PICK i \in ItemsIn(stored) : \E v \in Nodes(Reply[i]) : o = NodeOf(i, v)
  BY DEF Outputs
<1>2. IsTx(i) /\ o.name = i.name
  BY <1>1 DEF NodeOf
<1> QED
  BY <1>1, <1>2 DEF Tx, Transactions

\* After a run, the fuzzer finds whatever a dependency names: what TxEngine assumes of its
\* data is what the inferer leaves, for any models, interruptions and files written in
\* between.
THEOREM InfererSuppliesEngine == Spec => []DependenciesUsable
<1>1. ASSUME IInv PROVE DependenciesUsable
  <2> SUFFICES ASSUME stage = "done"
               PROVE  /\ ifaceDeps \in [Tx -> SUBSET Tx]
                      /\ structDeps \in [Struct -> (SUBSET Tx) \ {{}}]
                      /\ \A t, u \in Tx : ifaceOf[t] = ifaceOf[u] => ifaceDeps[t] = ifaceDeps[u]
                      /\ \A p \in Places : \A o \in varDeps[p] :
                           o.name \in IF o.type = "Transaction" THEN Tx ELSE Struct
    BY DEF DependenciesUsable
  <2>1. \A i \in Items : \A o \in itemDeps[i] : o.name \in Tx
    <3> SUFFICES ASSUME NEW i \in Items, NEW o \in itemDeps[i] PROVE o.name \in Tx
      OBVIOUS
    <3>1. o \in ItemSources(i, stored)
      BY <1>1 DEF IInv, SoundOnDisk
    <3>2. o \in OfTransactions(stored)
      BY <3>1 DEF ItemSources, StructureSources, InterfaceSources
    <3> QED BY <3>2, TransactionHasItem DEF OfTransactions
  <2>2. \A t \in Tx : TxOf(t) \in Items /\ IsTx(TxOf(t))
    BY DEF Tx, TxOf, Transactions, ItemsIn
  <2>3. \A s \in Struct : StructOf(s) \in Items /\ itemDeps[StructOf(s)] # {}
    BY DEF Struct, StructOf, Structures, ItemsIn
  <2>4. ifaceDeps \in [Tx -> SUBSET Tx]
    BY <2>1, <2>2 DEF ifaceDeps
  <2>5. structDeps \in [Struct -> (SUBSET Tx) \ {{}}]
    BY <2>1, <2>3 DEF structDeps
  <2>6. ASSUME NEW t \in Tx, NEW u \in Tx, ifaceOf[t] = ifaceOf[u]
        PROVE  ifaceDeps[t] = ifaceDeps[u]
    <3>1. TxOf(t).file = TxOf(u).file
      BY <2>6 DEF ifaceOf
    <3>2. itemDeps[TxOf(t)] = itemDeps[TxOf(u)]
      BY <1>1, <2>2, <3>1 DEF IInv, InterfaceShared
    <3> QED BY <3>2 DEF ifaceDeps
  <2>7. ASSUME NEW p \in Places, NEW o \in varDeps[p]
        PROVE  o.name \in IF o.type = "Transaction" THEN Tx ELSE Struct
    <3>1. o \in VarSources(p, stored)
      BY <1>1, <2>7 DEF IInv, SoundOnDisk
    <3>2. o \in Outputs(stored) /\ o \in Node
      BY <1>1, <3>1, OutputsTyped DEF IInv, TypeOK, VarSources
    <3>3. CASE o.type = "Transaction"
      BY <3>2, <3>3, TransactionHasItem
    <3>4. CASE o.type = "Structure"
      <4>1. SourcesBacked
        BY <1>1, IInvBacked
      <4>2. PICK i \in ItemsIn(stored) : /\ i.file = [dir |-> "reply", base |-> o.base]
                                         /\ i.name = o.name /\ itemDeps[i] # {}
        BY <2>7, <3>4, <4>1 DEF SourcesBacked
      <4>3. i \in Structures
        BY <4>2 DEF Structures
      <4> QED BY <3>4, <4>2, <4>3 DEF Struct
    <3> QED BY <3>2, <3>3, <3>4 DEF Node
  <2> QED BY <2>4, <2>5, <2>6, <2>7
<1> QED
  BY <1>1, AlwaysIInv, PTL
=============================================================================
