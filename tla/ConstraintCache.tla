--------------------------- MODULE ConstraintCache ---------------------------
(***************************************************************************)
(* The constraints of a parcel and the cache of their status, while the    *)
(* items of the parcel are written or read: class ConstraintChecker        *)
(* (constraint_checker.cpp), ParcelWriter::write and generate              *)
(* (parcel_writer.cpp) and the maps isVarCached and constraintStatus of    *)
(* ParcelReaderWriter (parcel_reader_writer.cpp).                          *)
(*                                                                         *)
(* The last items of the parcel are in a loop, and items are not nested;   *)
(* ParcelTraversal has the general order.  The calls in progress of check, *)
(* which is recursive, are the variable calls.                             *)
(***************************************************************************)
EXTENDS Naturals, SequencesExt

CONSTANTS
  Var,         \* the variables of the parcel
  Counter,     \* those that are the counter of a loop
  Value,       \* their values; the largest stands for the limit of iterations
  Part,        \* what names are made of: numbers, "lhs" and "rhs"
  constraint,  \* the names of the constraints, in the order of the JSON file
  node,        \* node[n]: opcode and operands of the constraint n
  parcel,      \* the variables in the order in which they are written
  first,       \* the items from this one on are in a loop
  loop,        \* the counter of the loop, and its constraint
  under,       \* under[v]: the constraints that v is under, and their status
  NoVar,       \* an operand that is no variable
  TryBound     \* bound of the model: at most so many values are tried

(***************************************************************************)
(* A name is a sequence: "constraint1" is <<"1">>, "constraint10_lhs" is   *)
(* <<"1", "0", "lhs">>.  The operands of && and || have names of their own.*)
(***************************************************************************)
Name == DOMAIN node
Side == {"lhs", "rhs"}
Junction == {"&&", "||"}
Comparison == {"==", "<"}
Opcode == Junction \cup Comparison \cup {"", "!"}

Leaf == {n \in Name : node[n].opcode \notin Junction}

ASSUME ConstraintAssumption ==
  /\ Value \subseteq Nat /\ 0 \in Value /\ TryBound \in Nat \ {0}
  /\ Counter \subseteq Var /\ loop.counter \in Counter /\ NoVar \notin Var
  /\ parcel \in Seq(Var) /\ first \in 1..Len(parcel)
  /\ Side \subseteq Part /\ Name \subseteq Seq(Part) \ {<<>>}
  /\ \A n \in Name : node[n].opcode \in Opcode
  /\ \A n \in Name \ Leaf : \A side \in Side : Append(n, side) \in Name
  /\ \A n \in Leaf : /\ node[n].lhs \in Var \cup {NoVar}
                     /\ node[n].rhs \in Var \cup Value \cup {NoVar}
  /\ constraint \in Seq(Name) /\ loop.constraint \in Name
  /\ \A n \in Name : \E i \in DOMAIN constraint : IsPrefix(constraint[i], n)
  /\ under \in [Var -> Seq([name : Name, status : BOOLEAN])]

VARIABLES
  operation,  \* WRITE_DATA or READ_REPLY
  idx,        \* the item
  pc,         \* what is done when no call of check is in progress
  guard,      \* the next of the item's under constraints
  flag,       \* those so far have the status they should have
  target,     \* the self constraint that is selected
  tries,      \* values tried
  calls,      \* the calls of check in progress, innermost last
  result,     \* what the last call of check has returned
  cached,     \* isVarCached
  value,      \* intMap and the other maps
  status,     \* constraintStatus
  told        \* history: told[n], the results of check(n) since a variable of
              \* n was last written

vars == <<operation, idx, pc, guard, flag, target, tries, calls, result,
          cached, value, status, told>>

control == <<operation, idx, guard, flag, target, tries>>
store == <<cached, value>>

Null == <<>>        \* no self constraint, as the variable has none
NotFound == <<"?">> \* getTargetConstraint has found none: a null JSON value

Init ==
  /\ operation \in {"write", "read"}
  /\ idx = 1 /\ pc = "next" /\ guard = 1 /\ flag = TRUE
  /\ target = Null /\ tries = 0 /\ calls = <<>> /\ result = FALSE
  /\ cached = [v \in Var |-> FALSE] /\ value = [v \in Var |-> 0]
  /\ status = <<>> /\ told = [n \in Name |-> {}]

-----------------------------------------------------------------------------
(* Constraints *)

Operands(n) == {node[n].lhs, node[n].rhs} \cap Var

\* All variables of a constraint, those of its operands included.
VarsOf(n) == UNION {Operands(m) : m \in {l \in Leaf : IsPrefix(n, l)}}

\* update_self_constraint: a variable has the leaves in which it occurs.
SelfConstraint(v) == {n \in Leaf : v \in Operands(n)}

\* getConstraintIdx: the first constraint whose name is a prefix of the name.
Resolve(n) ==
  LET is == {i \in DOMAIN constraint : IsPrefix(constraint[i], n)}
  IN constraint[CHOOSE i \in is : \A j \in is : i <= j]

\* getTargetConstraint searches the operands of && and || only.
Target(n) ==
  LET top == Resolve(n)
      path == {SubSeq(n, 1, k) : k \in Len(top)..(Len(n) - 1)}
  IN IF path \cap Leaf = {} /\ path \subseteq Name THEN n ELSE NotFound

Known(o) == o \in Value \/ (o \in Var /\ cached[o])
ValueOf(o) == IF o \in Var THEN value[o] ELSE o

LeafKnown(n) ==
  /\ Known(node[n].lhs)
  /\ node[n].opcode \in Comparison => Known(node[n].rhs)

\* compare, checkNot and checkSelf.
Holds(n) ==
  LET l == ValueOf(node[n].lhs) IN
  CASE node[n].opcode = "==" -> l = ValueOf(node[n].rhs)
    [] node[n].opcode = "<"  -> l < ValueOf(node[n].rhs)
    [] node[n].opcode = "!"  -> l = 0
    [] node[n].opcode = ""   -> l # 0

\* resetConstraints goes from a constraint to those it is an operand of.
Enclosing(n) ==
  {SubSeq(n, 1, k) : k \in {j \in 1..Len(n) : \A i \in (j + 1)..Len(n) : n[i] \in Side}}

\* Mutant: the leaves only.
ResetLeaves(v) ==
  status' = [n \in DOMAIN status \ SelfConstraint(v) |-> status[n]]

\* resetSelfConstraints.
Reset(v) ==
  status' = [n \in DOMAIN status \ UNION {Enclosing(c) : c \in SelfConstraint(v)} |-> status[n]]

Forget(v) == told' = [n \in Name |-> IF v \in VarsOf(n) THEN {} ELSE told[n]]

\* Mutant: the status of its constraints is kept.
StoreOnly(v, x) ==
  /\ cached' = [cached EXCEPT ![v] = TRUE]
  /\ value' = [value EXCEPT ![v] = x]
  /\ Forget(v) /\ UNCHANGED status

\* storeValue.
Store(v, x) ==
  /\ cached' = [cached EXCEPT ![v] = TRUE]
  /\ value' = [value EXCEPT ![v] = x]
  /\ Reset(v) /\ Forget(v)

-----------------------------------------------------------------------------
(* check *)

Call(n) == [name |-> n, at |-> "begin"]
Idle == calls = <<>>
C == calls[Len(calls)]
N == C.name
Op == node[N].opcode

\* The call returns b.
Return(b) ==
  /\ result' = b
  /\ calls' = Front(calls)
  /\ told' = [told EXCEPT ![N] = @ \cup {b}]
  /\ UNCHANGED <<control, pc, store>>

\* It returns b, and has it cached.
Answer(b) ==
  /\ status' = [n \in DOMAIN status \cup {N} |-> IF n = N THEN b ELSE status[n]]
  /\ Return(b)

Begin == ~Idle /\ C.at = "begin"

CheckCached ==
  /\ Begin /\ N \in DOMAIN status
  /\ Return(status[N])
  /\ UNCHANGED status

Miss == Begin /\ N \notin DOMAIN status

Descend(side) ==
  /\ calls' = Append([calls EXCEPT ![Len(calls)].at = side], Call(Append(N, side)))
  /\ UNCHANGED <<control, pc, result, store, status, told>>

CheckLhs == Miss /\ Op \in Junction /\ Descend("lhs")

\* Short-circuit evaluation.
CheckRhs ==
  /\ ~Idle /\ C.at = "lhs"
  /\ IF result = (Op = "||") THEN Answer(result) ELSE Descend("rhs")

CheckJunction ==
  /\ ~Idle /\ C.at = "rhs"
  /\ Answer(result)

CheckKnown ==
  /\ Miss /\ N \in Leaf /\ LeafKnown(N)
  /\ Answer(Holds(N))

UnknownCounter(o) == o \in Counter /\ ~cached[o]

\* Mutant: the counter is not initialised before check calls itself.
InitCounterNot ==
  /\ Miss /\ Op \in Comparison /\ ~LeafKnown(N)
  /\ \E o \in Operands(N) : UnknownCounter(o)
  /\ UNCHANGED vars

\* "lhs is a loop counter, we can init it": and then check calls itself.
InitCounter ==
  /\ Miss /\ Op \in Comparison /\ ~LeafKnown(N)
  /\ LET l == node[N].lhs
         r == node[N].rhs
     IN \/ UnknownCounter(l) /\ Store(l, 0)
        \/ ~UnknownCounter(l) /\ UnknownCounter(r) /\ Store(r, 0)
  /\ UNCHANGED <<control, pc, calls, result>>

Unknown ==
  /\ Miss /\ N \in Leaf /\ ~LeafKnown(N)
  /\ Op \in Comparison => \A o \in Operands(N) : ~UnknownCounter(o)

\* Mutant: "we won't record it".
CheckUnknownUncached ==
  Unknown /\ UNCHANGED status /\ \E b \in BOOLEAN : Return(b)

\* "Constraint's status is unknown, we randomly treat it" as true or false.
CheckUnknown == Unknown /\ \E b \in BOOLEAN : Answer(b)

Check ==
  \/ CheckCached \/ CheckLhs \/ CheckRhs \/ CheckJunction
  \/ CheckKnown \/ InitCounter \/ CheckUnknown

\* The program calls check(n), and goes on at l.
CheckThen(n, l) == calls' = <<Call(n)>> /\ pc' = l /\ UNCHANGED result
At(l) == Idle /\ pc = l
GoTo(l) == pc' = l /\ UNCHANGED <<calls, result>>

-----------------------------------------------------------------------------
(* The loop, as in readWriteRange *)

InitLoop ==
  /\ At("next") /\ idx = first
  /\ Store(loop.counter, 0)
  /\ CheckThen(Resolve(loop.constraint), "loop")
  /\ UNCHANGED control

NextIteration ==
  /\ At("next") /\ idx > Len(parcel)
  /\ LET count == value[loop.counter] + 1 IN
     IF count \in Value
     THEN Store(loop.counter, count) /\ CheckThen(Resolve(loop.constraint), "loop")
     ELSE GoTo("done") /\ UNCHANGED <<store, status, told>>
  /\ UNCHANGED control

TestLoop ==
  /\ At("loop")
  /\ IF result THEN idx' = first /\ GoTo("guards") ELSE UNCHANGED idx /\ GoTo("done")
  /\ UNCHANGED <<operation, guard, flag, target, tries, store, status, told>>

\* An item in front of the loop, or a further one in it.
NextItem ==
  /\ At("next") /\ idx # first /\ idx <= Len(parcel)
  /\ GoTo("guards")
  /\ UNCHANGED <<control, store, status, told>>

-----------------------------------------------------------------------------
(* readWriteItem *)

V == parcel[idx]
Guards == under[V]

\* checkUnderConstraint.
CheckGuard ==
  /\ At("guards") /\ guard <= Len(Guards)
  /\ CheckThen(Resolve(Guards[guard].name), "guarded")
  /\ UNCHANGED <<control, store, status, told>>

\* Mutant: the last one decides.
TestGuardLast ==
  /\ At("guarded")
  /\ flag' = (result = Guards[guard].status)
  /\ guard' = guard + 1 /\ GoTo("guards")
  /\ UNCHANGED <<operation, idx, target, tries, store, status, told>>

TestGuard ==
  /\ At("guarded")
  /\ flag' = (flag /\ result = Guards[guard].status)
  /\ guard' = guard + 1 /\ GoTo("guards")
  /\ UNCHANGED <<operation, idx, target, tries, store, status, told>>

ItemDone ==
  /\ idx' = idx + 1 /\ guard' = 1 /\ flag' = TRUE /\ target' = Null /\ tries' = 0
  /\ GoTo("next") /\ UNCHANGED operation

Guarded == At("guards") /\ guard > Len(Guards)

Skip ==
  /\ Guarded /\ ~flag
  /\ ItemDone /\ UNCHANGED <<store, status, told>>

Read ==
  /\ Guarded /\ flag /\ operation = "read"
  /\ \E x \in Value : Store(V, x)
  /\ ItemDone

Write ==
  /\ Guarded /\ flag /\ operation = "write"
  /\ cached' = [cached EXCEPT ![V] = FALSE] /\ GoTo("generate")
  /\ UNCHANGED <<control, value, status, told>>

\* resetSelfConstraints, at the end of write.
Written ==
  /\ At("written")
  /\ Reset(V) /\ Forget(V)
  /\ ItemDone /\ UNCHANGED store

\* A dependency is solved, or the value is one that is not stored.
WithoutValue ==
  /\ At("generate") /\ GoTo("written")
  /\ UNCHANGED <<control, store, status, told>>

\* selectOneSelfConstraint.
Select ==
  /\ At("generate")
  /\ target' \in IF SelfConstraint(V) = {} THEN {Null}
                 ELSE {Target(c) : c \in SelfConstraint(V)}
  /\ GoTo("try")
  /\ UNCHANGED <<operation, idx, guard, flag, tries, store, status, told>>

\* getValueFromSpecialSelfConstraint: the value that an equality asks for, zero
\* for the others.  V is not cached, so that the constraint is not checked.
SpecialValue ==
  LET r == node[target].rhs IN
  IF node[target].opcode = "==" /\ r \in Value THEN r ELSE 0

Special ==
  /\ At("try") /\ tries = 0 /\ target \in Name
  /\ node[target].opcode \in {"==", "", "!"}
  /\ Store(V, SpecialValue)
  /\ GoTo("written") /\ UNCHANGED control

Try ==
  /\ At("try") /\ target # NotFound
  /\ \E x \in Value : Store(V, x)
  /\ tries' = tries + 1
  /\ IF target = Null THEN GoTo("written") ELSE CheckThen(target, "tried")
  /\ UNCHANGED <<operation, idx, guard, flag, target>>

Tried ==
  /\ At("tried")
  /\ \/ (result \/ tries = TryBound) /\ GoTo("written")
     \/ ~result /\ tries < TryBound /\ GoTo("try")
  /\ UNCHANGED <<control, store, status, told>>

\* The probability of a null constraint is 0, and no value is tried: what is
\* written is an uninitialised variable.
NoTry ==
  /\ At("try") /\ target = NotFound
  /\ GoTo("written")
  /\ UNCHANGED <<control, store, status, told>>

-----------------------------------------------------------------------------
Next ==
  \/ Check
  \/ InitLoop \/ NextIteration \/ TestLoop \/ NextItem
  \/ CheckGuard \/ TestGuard \/ Skip \/ Read
  \/ Write \/ WithoutValue \/ Select \/ Special \/ Try \/ Tried \/ NoTry \/ Written

Spec == Init /\ [][Next]_vars

\* A single thread runs it to its end.
FairSpec == Spec /\ WF_vars(Next)

-----------------------------------------------------------------------------
(* Properties *)

CountersOf(n) == VarsOf(n) \cap Counter

\* Of the data: as in the C++ code that the parcel is extracted from, the
\* counter of the loop is in scope in the loop only, and nothing else sets it.
CountersInScope ==
  /\ \A i \in DOMAIN parcel : parcel[i] \notin Counter
  /\ CountersOf(Resolve(loop.constraint)) \subseteq {loop.counter}
  /\ \A i \in DOMAIN parcel : \A j \in DOMAIN under[parcel[i]] :
       CountersOf(Resolve(under[parcel[i]][j].name)) \subseteq
         IF i < first THEN {} ELSE {loop.counter}

\* Of the data: getConstraintIdx finds the constraints that a variable is under.
\* It does as long as no name is a prefix of another, that is up to ten of them.
GuardsFound ==
  \A v \in Var : \A j \in DOMAIN under[v] : Resolve(under[v][j].name) = under[v][j].name

TypeOK ==
  /\ idx \in 1..(Len(parcel) + 1) /\ guard \in Nat /\ tries \in 0..TryBound
  /\ {flag, result} \subseteq BOOLEAN
  /\ target \in Name \cup {Null, NotFound}
  /\ calls \in Seq([name : Name, at : {"begin"} \cup Side])
  /\ cached \in [Var -> BOOLEAN] /\ value \in [Var -> Value]
  /\ DOMAIN status \subseteq Name /\ status \in [DOMAIN status -> BOOLEAN]
  /\ told \in [Name -> SUBSET BOOLEAN]

\* The cached status of a comparison whose variables have values is that of
\* the values: every storeValue resets the constraints of its variable.
StatusFresh ==
  \A n \in DOMAIN status \cap Leaf : LeafKnown(n) => status[n] = Holds(n)

\* The cached status of a conjunction or disjunction is one that the cached
\* status of its operands allows, through resets, random answers and
\* short-circuit evaluation.
JunctionFresh ==
  \A n \in DOMAIN status \ Leaf :
    LET sides == {Append(n, side) : side \in Side}
        neutral == node[n].opcode = "&&"
    IN IF status[n] = neutral
       THEN \A m \in sides : m \in DOMAIN status /\ status[m] = neutral
       ELSE \E m \in sides : m \in DOMAIN status /\ status[m] # neutral

\* Check answers the same as long as no variable of the constraint is written:
\* all items under a constraint that is unknown are written, or none is.
AnswersAgree == \A n \in Name : told[n] # BOOLEAN

\* "Check whether constraints under other variable are satisfied": an item is
\* written, or read, only if those of its constraints that are comparisons of
\* known values have the status they should have.
GuardsHold ==
  Guarded /\ flag =>
    \A i \in DOMAIN Guards :
      LET n == Guards[i].name IN
      n \in Leaf /\ LeafKnown(n) => Holds(n) = Guards[i].status

\* The program gets through the parcel.
Finishes == <>(pc = "done")
=============================================================================
