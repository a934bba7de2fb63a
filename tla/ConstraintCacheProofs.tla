----------------------- MODULE ConstraintCacheProofs -----------------------
(***************************************************************************)
(* Theorems about ConstraintCache, for every set of constraints however    *)
(* deep, every parcel, every number of values and tries.                   *)
(*                                                                         *)
(* The argument is about the stack of calls of check: each is an operand   *)
(* of the one below, and none that has an operand evaluated has a cached   *)
(* status.  Two facts are enough for all data (CacheInv).  What is said of *)
(* junctions and of whole guards also needs that no counter is set while   *)
(* a junction is evaluated (ScopeInv, under CountersInScope).              *)
(***************************************************************************)
EXTENDS ConstraintCache, SequenceTheorems, WellFoundedInduction, TLAPS

-----------------------------------------------------------------------------
(* Names *)

\* A set of natural numbers that is not empty has a least element.
LEMMA LeastNumber ==
  ASSUME NEW S \in SUBSET Nat, S # {}
  PROVE  \E m \in S : \A k \in S : m <= k
<1> DEFINE R == {p \in Nat \X Nat : p[1] < p[2]}
<1>1. IsWellFoundedOn(R, Nat)
  BY NatLessThanWellFounded, Zenon DEF OpToRel
<1>2. \A k, m \in Nat : <<k, m>> \in R <=> k < m
  OBVIOUS
<1>3. \E m \in S : \A k \in S : <<k, m>> \notin R
  <2> HIDE DEF R
  <2> QED BY <1>1, WFMin
<1> QED
  <2> HIDE DEF R
  <2>1. \A k, m \in Nat : ~(k < m) => m <= k
    OBVIOUS
  <2> QED BY <1>2, <1>3, <2>1

\* What getConstraintIdx finds is a constraint of the parcel, and a prefix of
\* the name that is looked up.
LEMMA ResolveLemma ==
  ASSUME NEW n \in Name
  PROVE  Resolve(n) \in Name
<1> DEFINE is == {i \in DOMAIN constraint : IsPrefix(constraint[i], n)}
<1>1. is \in SUBSET Nat /\ is # {}
  <2>1. DOMAIN constraint = 1..Len(constraint)
    BY ConstraintAssumption
  <2>2. \E i \in DOMAIN constraint : IsPrefix(constraint[i], n)
    BY ConstraintAssumption
  <2> QED BY <2>1, <2>2
<1>2. \E i \in is : \A j \in is : i <= j
  BY <1>1, LeastNumber
<1>3. (CHOOSE i \in is : \A j \in is : i <= j) \in DOMAIN constraint
  BY <1>2
<1> QED
  <2>1. constraint \in Seq(Name)
    BY ConstraintAssumption
  <2> QED BY <1>3, <2>1 DEF Resolve

\* A name is a sequence that is not empty.
LEMMA NameLemma ==
  ASSUME NEW n \in Name
  PROVE  /\ n \in Seq(Part) /\ Len(n) \in Nat /\ Len(n) >= 1
         /\ DOMAIN n = 1..Len(n)
<1>1. n \in Seq(Part) /\ n # <<>>
  BY ConstraintAssumption
<1> QED BY <1>1, EmptySeq, LenProperties

\* The name of an operand is the name of the junction and the side.
LEMMA AppendLemma ==
  ASSUME NEW n \in Seq(Part), NEW side \in Side
  PROVE  /\ Append(n, side) \in Seq(Part)
         /\ Len(Append(n, side)) = Len(n) + 1
         /\ Append(n, side)[Len(n) + 1] = side
         /\ \A i \in 1..Len(n) : Append(n, side)[i] = n[i]
<1>1. side \in Part
  BY ConstraintAssumption
<1> QED BY <1>1, AppendProperties

\* Prefixes, element by element.
LEMMA PrefixLemma ==
  ASSUME NEW m \in Seq(Part), NEW n \in Seq(Part)
  PROVE  IsPrefix(m, n) <=> /\ Len(m) <= Len(n)
                            /\ \A i \in 1..Len(m) : m[i] = n[i]
<1>1. CASE Len(m) <= Len(n)
  <2>1. /\ SubSeq(m, 1, Len(m)) \in Seq(Part) /\ SubSeq(n, 1, Len(m)) \in Seq(Part)
        /\ Len(SubSeq(m, 1, Len(m))) = Len(m) /\ Len(SubSeq(n, 1, Len(m))) = Len(m)
        /\ \A i \in 1..Len(m) : /\ SubSeq(m, 1, Len(m))[i] = m[i]
                                /\ SubSeq(n, 1, Len(m))[i] = n[i]
    BY <1>1
  <2>2. SubSeq(m, 1, Len(m)) = SubSeq(n, 1, Len(m)) <=> \A i \in 1..Len(m) : m[i] = n[i]
    BY <2>1, SeqEqual
  <2> QED BY <1>1, <2>2 DEF IsPrefix
<1>2. CASE ~(Len(m) <= Len(n))
  BY <1>2 DEF IsPrefix
<1> QED BY <1>1, <1>2

\* The variables of an operand are variables of the junction.
LEMMA VarsOfOperand ==
  ASSUME NEW n \in Name, NEW side \in Side, Append(n, side) \in Name
  PROVE  VarsOf(Append(n, side)) \subseteq VarsOf(n)
<1>1. ASSUME NEW l \in Leaf, IsPrefix(Append(n, side), l)
      PROVE  IsPrefix(n, l)
  <2>1. n \in Seq(Part) /\ l \in Seq(Part) /\ Append(n, side) \in Seq(Part)
    BY NameLemma, AppendLemma DEF Leaf
  <2>2. /\ Len(n) \in Nat /\ Len(l) \in Nat
        /\ Len(Append(n, side)) = Len(n) + 1
        /\ \A i \in 1..Len(n) : Append(n, side)[i] = n[i]
    BY NameLemma, AppendLemma DEF Leaf
  <2>3. /\ Len(Append(n, side)) <= Len(l)
        /\ \A i \in 1..Len(Append(n, side)) : Append(n, side)[i] = l[i]
    BY <2>1, <1>1, PrefixLemma
  <2>4. Len(n) <= Len(l) /\ \A i \in 1..Len(n) : n[i] = l[i]
    BY <2>2, <2>3
  <2> QED BY <2>1, <2>4, PrefixLemma
<1> QED BY <1>1 DEF VarsOf

\* A leaf has its own operands among its variables.
LEMMA VarsOfLeaf ==
  ASSUME NEW n \in Leaf
  PROVE  Operands(n) \subseteq VarsOf(n)
<1>1. n \in Seq(Part)
  BY NameLemma DEF Leaf
<1>2. IsPrefix(n, n)
  BY <1>1, PrefixLemma
<1> QED BY <1>2 DEF VarsOf

\* resetConstraints resets the constraint itself ...
LEMMA EnclosingSelf ==
  ASSUME NEW n \in Name
  PROVE  n \in Enclosing(n)
<1>1. n \in Seq(Part) /\ Len(n) \in Nat /\ Len(n) \in 1..Len(n)
  BY NameLemma
<1>2. SubSeq(n, 1, Len(n)) = n
  BY <1>1, SubSeqFull
<1>3. \A i \in (Len(n) + 1)..Len(n) : n[i] \in Side
  BY <1>1
<1> QED BY <1>1, <1>2, <1>3 DEF Enclosing

\* ... those that have it, or an operand that they reset, as an operand ...
LEMMA EnclosingUp ==
  ASSUME NEW c \in Name, NEW n \in Name, NEW side \in Side,
         Append(n, side) \in Enclosing(c)
  PROVE  n \in Enclosing(c)
<1>1. /\ c \in Seq(Part) /\ n \in Seq(Part) /\ Len(n) \in Nat /\ Len(n) >= 1
      /\ Len(c) \in Nat
  BY NameLemma
<1>2. PICK k \in 1..Len(c) : /\ Append(n, side) = SubSeq(c, 1, k)
                             /\ \A i \in (k + 1)..Len(c) : c[i] \in Side
  BY DEF Enclosing
<1>3. /\ SubSeq(c, 1, k) \in Seq(Part) /\ Len(SubSeq(c, 1, k)) = k
      /\ \A i \in 1..k : SubSeq(c, 1, k)[i] = c[i]
  BY <1>1
<1>4. k = Len(n) + 1 /\ c[k] = side /\ \A i \in 1..Len(n) : c[i] = n[i]
  <2>1. /\ Len(Append(n, side)) = Len(n) + 1
        /\ Append(n, side)[Len(n) + 1] = side
        /\ \A i \in 1..Len(n) : Append(n, side)[i] = n[i]
    BY <1>1, AppendLemma
  <2> QED BY <1>1, <1>2, <1>3, <2>1
<1>5. /\ SubSeq(c, 1, Len(n)) \in Seq(Part) /\ Len(SubSeq(c, 1, Len(n))) = Len(n)
      /\ \A i \in 1..Len(n) : SubSeq(c, 1, Len(n))[i] = n[i]
  BY <1>1, <1>4
<1>6. n = SubSeq(c, 1, Len(n))
  BY <1>1, <1>5, SeqEqual
<1>7. \A i \in (Len(n) + 1)..Len(c) : c[i] \in Side
  BY <1>1, <1>2, <1>4
<1>8. Len(n) \in 1..Len(c)
  BY <1>1, <1>4
<1> QED BY <1>6, <1>7, <1>8 DEF Enclosing

\* ... and nothing but constraints around it.
LEMMA EnclosingPrefix ==
  ASSUME NEW c \in Name, NEW n \in Name, n \in Enclosing(c)
  PROVE  IsPrefix(n, c)
<1>1. c \in Seq(Part) /\ n \in Seq(Part) /\ Len(c) \in Nat
  BY NameLemma
<1>2. PICK k \in 1..Len(c) : n = SubSeq(c, 1, k)
  BY DEF Enclosing
<1>3. Len(n) = k /\ \A i \in 1..k : n[i] = c[i]
  BY <1>1, <1>2
<1> QED BY <1>1, <1>3, PrefixLemma

-----------------------------------------------------------------------------
(* The invariant for all data *)

Guarding == {"guards", "guarded"}
Writing == {"generate", "try", "tried", "written"}

\* Where the program is: in which item, at which guard, after how many tries.
Place ==
  /\ pc \in Guarding \cup Writing => idx \in 1..Len(parcel)
  /\ pc \in {"next", "loop", "generate"} \cup Guarding => tries = 0
  /\ pc = "try" => tries < TryBound
  /\ pc \in {"next", "loop"} => guard = 1 /\ flag
  /\ pc \in Guarding => guard \in 1..(Len(Guards) + 1)
  /\ pc = "guarded" => guard \in 1..Len(Guards)
  /\ target \in Leaf \cup {Null, NotFound}
  /\ pc = "tried" => \A i \in 1..Len(calls) : calls[i].name \in Leaf
  /\ ~Idle => pc \in {"loop", "guarded", "tried"}

\* The calls of check: each is an operand of the one below, and a call that has
\* gone on to an operand is one of a junction, whose status is not cached.
InProgress ==
  /\ \A i \in 1..(Len(calls) - 1) :
       /\ calls[i].at \in Side
       /\ calls[i + 1].name = Append(calls[i].name, calls[i].at)
  /\ \A i \in 1..Len(calls) : Len(calls[i].name) = Len(calls[1].name) + i - 1
  /\ \A i \in 1..Len(calls) :
       calls[i].at \in Side => calls[i].name \in Name \ (Leaf \cup DOMAIN status)

\* What check has told of a constraint is what is cached: the status is dropped
\* no earlier than one of the variables is written.
ToldCached ==
  \A n \in Name : \A b \in told[n] : n \in DOMAIN status /\ status[n] = b

CacheInv == TypeOK /\ Place /\ InProgress /\ ToldCached /\ StatusFresh

-----------------------------------------------------------------------------
(* The invariant for counters in scope *)

CountersSet(n) == \A v \in CountersOf(n) : cached[v]
Neutral(n) == node[n].opcode = "&&"

\* Within the loop its counter is set; so are, then, the counters of whatever
\* constraint is checked for the loop or as a guard.
CountersKnown ==
  /\ pc = "loop" \/ idx > first \/ (idx = first /\ pc # "next") => cached[loop.counter]
  /\ pc \in {"loop", "guarded"} => \A i \in 1..Len(calls) : CountersSet(calls[i].name)

Cached(n, b) == n \in DOMAIN status /\ status[n] = b

\* What a call knows of its operands is what is cached of them.
Operated ==
  /\ \A i \in 1..Len(calls) :
       calls[i].at = "rhs" => Cached(Append(calls[i].name, "lhs"), Neutral(calls[i].name))
  /\ ~Idle /\ C.at \in Side => Cached(Append(N, C.at), result)

\* The guards so far have the status they should have, and the one that is
\* being checked is the next.
GuardsSoFar ==
  /\ pc \in Guarding /\ flag =>
       \A i \in 1..(guard - 1) :
         Cached(Resolve(Guards[i].name), Guards[i].status)
  /\ pc = "guarded" =>
       LET n == Resolve(Guards[guard].name) IN
       IF Idle THEN Cached(n, result) ELSE calls[1].name = n

\* JunctionFresh, side by side.
OperandsTell ==
  \A n \in DOMAIN status \ Leaf :
    IF status[n] = Neutral(n)
    THEN \A side \in Side : Cached(Append(n, side), Neutral(n))
    ELSE \E side \in Side : Cached(Append(n, side), ~Neutral(n))

ScopeInv == CacheInv /\ CountersKnown /\ Operated /\ OperandsTell /\ GuardsSoFar

-----------------------------------------------------------------------------
(* The shapes of a step *)

\* Outside of check: a value is written, forgotten or its constraints are
\* reset, or nothing; and check is called, or not.
Settle(v, x) ==
  \/ Store(v, x)
  \/ /\ cached' = [cached EXCEPT ![v] = FALSE]
     /\ UNCHANGED <<value, status, told>>
  \/ Reset(v) /\ Forget(v) /\ UNCHANGED store
  \/ UNCHANGED <<store, status, told>>

Outside ==
  /\ Idle
  /\ \E v \in Var, x \in Value : Settle(v, x)
  /\ calls' = <<>> \/ \E n \in Name : calls' = <<Call(n)>>

\* An item of the parcel is a variable.
LEMMA VLemma ==
  ASSUME TypeOK, Place, pc \in Guarding \cup Writing
  PROVE  V \in Var /\ Guards \in Seq([name : Name, status : BOOLEAN])
<1>1. idx \in 1..Len(parcel) /\ parcel \in Seq(Var)
  BY ConstraintAssumption DEF Place
<1>2. V \in Var
  BY <1>1 DEF V
<1> QED BY <1>2, ConstraintAssumption DEF Guards

LEMMA CounterLemma == loop.counter \in Var /\ 0 \in Value /\ Var # {} /\ Value # {}
BY ConstraintAssumption

LEMMA SpecialLemma ==
  ASSUME target \in Leaf
  PROVE  SpecialValue \in Value
BY CounterLemma DEF SpecialValue

LEMMA OutsideLemma ==
  ASSUME TypeOK, Place, Next, ~Check
  PROVE  Outside
<1> DEFINE Quiet == UNCHANGED <<store, status, told>>
<1>1. Quiet => \E v \in Var, x \in Value : Settle(v, x)
  BY CounterLemma DEF Settle
<1>2. CASE InitLoop
  <2>1. Store(loop.counter, 0) /\ Idle /\ calls' = <<Call(Resolve(loop.constraint))>>
    BY <1>2 DEF InitLoop, At, CheckThen
  <2>2. Resolve(loop.constraint) \in Name
    BY ResolveLemma, ConstraintAssumption
  <2> QED BY <2>1, <2>2, CounterLemma DEF Outside, Settle
<1>3. CASE NextIteration
  <2>1. Idle
    BY <1>3 DEF NextIteration, At
  <2>2. CASE value[loop.counter] + 1 \in Value
    <3>1. /\ Store(loop.counter, value[loop.counter] + 1)
          /\ calls' = <<Call(Resolve(loop.constraint))>>
      BY <1>3, <2>2 DEF NextIteration, CheckThen
    <3>2. Resolve(loop.constraint) \in Name
      BY ResolveLemma, ConstraintAssumption
    <3> QED BY <2>1, <2>2, <3>1, <3>2, CounterLemma DEF Outside, Settle
  <2>3. CASE value[loop.counter] + 1 \notin Value
    BY <1>1, <1>3, <2>1, <2>3 DEF NextIteration, GoTo, Outside, Idle
  <2> QED BY <2>2, <2>3
<1>4. CASE TestLoop
  BY <1>1, <1>4 DEF TestLoop, At, GoTo, Outside, Idle
<1>5. CASE NextItem
  BY <1>1, <1>5 DEF NextItem, At, GoTo, Outside, Idle
<1>6. CASE CheckGuard
  <2>1. /\ Idle /\ Quiet /\ guard <= Len(Guards) /\ pc = "guards"
        /\ calls' = <<Call(Resolve(Guards[guard].name))>>
    BY <1>6 DEF CheckGuard, At, CheckThen
  <2>2. Guards \in Seq([name : Name, status : BOOLEAN]) /\ guard \in 1..Len(Guards)
    BY <2>1, VLemma DEF Guarding, TypeOK, Place
  <2>3. Guards[guard] \in [name : Name, status : BOOLEAN]
    BY <2>2, ElementOfSeq
  <2>4. Resolve(Guards[guard].name) \in Name
    BY <2>3, ResolveLemma
  <2> QED BY <1>1, <2>1, <2>4 DEF Outside
<1>7. CASE TestGuard
  BY <1>1, <1>7 DEF TestGuard, At, GoTo, Outside, Idle
<1>8. CASE Skip
  BY <1>1, <1>8 DEF Skip, Guarded, ItemDone, At, GoTo, Outside, Idle
<1>9. CASE Read
  <2>1. V \in Var
    BY <1>9, VLemma DEF Read, Guarded, At, Guarding
  <2> QED BY <1>9, <2>1 DEF Read, Guarded, ItemDone, At, GoTo, Outside, Idle, Settle
<1>10. CASE Write
  <2>1. V \in Var
    BY <1>10, VLemma DEF Write, Guarded, At, Guarding
  <2> QED BY <1>10, <2>1, CounterLemma DEF Write, Guarded, At, GoTo, Outside, Idle, Settle
<1>11. CASE WithoutValue
  BY <1>1, <1>11 DEF WithoutValue, At, GoTo, Outside, Idle
<1>12. CASE Select
  BY <1>1, <1>12 DEF Select, At, GoTo, Outside, Idle
<1>13. CASE Special
  <2>1. V \in Var /\ Store(V, SpecialValue) /\ Idle /\ calls' = <<>>
    BY <1>13, VLemma DEF Special, At, GoTo, Idle, Writing
  <2>2. CASE target \in Leaf
    BY <2>1, <2>2, SpecialLemma DEF Outside, Settle
  <2>3. CASE target \notin Leaf
    BY <1>13, <2>3 DEF Special, Leaf, Junction
  <2> QED BY <2>2, <2>3
<1>14. CASE Try
  <2>1. V \in Var /\ Idle /\ \E x \in Value : Store(V, x)
    BY <1>14, VLemma DEF Try, At, Writing
  <2>2. calls' = <<>> \/ \E n \in Name : calls' = <<Call(n)>>
    BY <1>14 DEF Try, At, GoTo, CheckThen, Idle, Place, Leaf
  <2> QED BY <2>1, <2>2 DEF Outside, Settle
<1>15. CASE Tried
  BY <1>1, <1>15 DEF Tried, At, GoTo, Outside, Idle
<1>16. CASE NoTry
  BY <1>1, <1>16 DEF NoTry, At, GoTo, Outside, Idle
<1>17. CASE Written
  <2>1. V \in Var
    BY <1>17, VLemma DEF Written, At, Writing
  <2> QED BY <1>17, <2>1, CounterLemma DEF Written, ItemDone, At, GoTo, Outside, Idle, Settle
<1> QED
  BY <1>2, <1>3, <1>4, <1>5, <1>6, <1>7, <1>8, <1>9, <1>10, <1>11, <1>12, <1>13,
     <1>14, <1>15, <1>16, <1>17 DEF Next

-----------------------------------------------------------------------------
(* Stores, resets and answers *)

\* What storeValue and resetSelfConstraints drop.
Dropped(v) == UNION {Enclosing(c) : c \in SelfConstraint(v)}

LEMMA ResetLemma ==
  ASSUME TypeOK, NEW v \in Var, Reset(v)
  PROVE  /\ DOMAIN status' = DOMAIN status \ Dropped(v)
         /\ \A n \in DOMAIN status' : status'[n] = status[n]
         /\ DOMAIN status' \subseteq Name /\ status' \in [DOMAIN status' -> BOOLEAN]
BY DEF TypeOK, Reset, Dropped

LEMMA ForgetLemma ==
  ASSUME TypeOK, NEW v \in Var, Forget(v)
  PROVE  /\ told' \in [Name -> SUBSET BOOLEAN]
         /\ \A n \in Name : told'[n] = IF v \in VarsOf(n) THEN {} ELSE told[n]
BY DEF TypeOK, Forget

\* The leaves of a variable are dropped; a constraint that is dropped has the
\* variable among its own; and with an operand goes the junction.
LEMMA DroppedLemma ==
  ASSUME NEW v \in Var
  PROVE  /\ SelfConstraint(v) \subseteq Dropped(v)
         /\ \A n \in Name : n \in Dropped(v) => v \in VarsOf(n)
         /\ \A n \in Name, side \in Side :
              Append(n, side) \in Dropped(v) => n \in Dropped(v)
<1>1. SelfConstraint(v) \subseteq Name /\ SelfConstraint(v) \subseteq Leaf
  BY DEF SelfConstraint, Leaf
<1>2. SelfConstraint(v) \subseteq Dropped(v)
  BY <1>1, EnclosingSelf DEF Dropped
<1>3. ASSUME NEW n \in Name, n \in Dropped(v)
      PROVE  v \in VarsOf(n)
  <2>1. PICK c \in SelfConstraint(v) : n \in Enclosing(c)
    BY <1>3 DEF Dropped
  <2>2. IsPrefix(n, c) /\ c \in Leaf /\ v \in Operands(c)
    BY <1>1, <1>3, <2>1, EnclosingPrefix DEF SelfConstraint
  <2> QED BY <2>2 DEF VarsOf
<1>4. ASSUME NEW n \in Name, NEW side \in Side, Append(n, side) \in Dropped(v)
      PROVE  n \in Dropped(v)
  <2>1. PICK c \in SelfConstraint(v) : Append(n, side) \in Enclosing(c)
    BY <1>4 DEF Dropped
  <2> QED BY <1>1, <2>1, EnclosingUp DEF Dropped
<1> QED BY <1>2, <1>3, <1>4

LEMMA StoreLemma ==
  ASSUME TypeOK, NEW v \in Var, NEW x \in Value, Store(v, x)
  PROVE  /\ cached' = [cached EXCEPT ![v] = TRUE] /\ cached' \in [Var -> BOOLEAN]
         /\ value' = [value EXCEPT ![v] = x] /\ value' \in [Var -> Value]
         /\ Reset(v) /\ Forget(v)
BY DEF TypeOK, Store

CallSet == [name : Name, at : {"begin"} \cup Side]

\* The innermost call.
LEMMA TopLemma ==
  ASSUME TypeOK, ~Idle
  PROVE  /\ calls \in Seq(CallSet) /\ Len(calls) \in Nat /\ Len(calls) >= 1
         /\ C = calls[Len(calls)] /\ C \in CallSet
         /\ N = calls[Len(calls)].name /\ N \in Name
<1>1. calls \in Seq(CallSet) /\ calls # <<>>
  BY DEF TypeOK, Idle, CallSet
<1>2. Len(calls) \in Nat /\ Len(calls) >= 1
  BY <1>1, EmptySeq
<1>3. C = calls[Len(calls)] /\ C \in CallSet
  BY <1>1, <1>2, ElementOfSeq DEF C
<1> QED BY <1>1, <1>2, <1>3 DEF N, CallSet

\* A call of check that returns: it was on top, and what is below stays.
LEMMA ReturnLemma ==
  ASSUME TypeOK, ~Idle, NEW b \in BOOLEAN, Return(b)
  PROVE  /\ result' = b /\ calls' \in Seq(CallSet) /\ Len(calls') = Len(calls) - 1
         /\ \A i \in 1..Len(calls') : calls'[i] = calls[i]
         /\ told' \in [Name -> SUBSET BOOLEAN]
         /\ \A n \in Name : told'[n] = IF n = N THEN told[n] \cup {b} ELSE told[n]
         /\ UNCHANGED <<control, pc, store>>
<1>1. calls' = SubSeq(calls, 1, Len(calls) - 1)
  BY DEF Return, Front
<1>2. /\ calls' \in Seq(CallSet) /\ Len(calls') = Len(calls) - 1
      /\ \A i \in 1..Len(calls') : calls'[i] = calls[i]
  <2> DEFINE m == Len(calls) - 1
  <2>1. m \in Nat /\ \A i \in 1..m : calls[i] \in CallSet
    BY TopLemma, ElementOfSeq
  <2>2. calls' = SubSeq(calls, 1, m)
    BY <1>1
  <2> HIDE DEF m
  <2>3. calls' \in Seq(CallSet) /\ Len(calls') = m /\ \A i \in 1..m : calls'[i] = calls[i]
    BY <2>1, <2>2, SubSeqProperties
  <2> QED BY <2>3 DEF m
<1>3. /\ told' \in [Name -> SUBSET BOOLEAN]
      /\ \A n \in Name : told'[n] = IF n = N THEN told[n] \cup {b} ELSE told[n]
  BY TopLemma DEF Return, TypeOK
<1> QED BY <1>2, <1>3 DEF Return

LEMMA AnswerLemma ==
  ASSUME TypeOK, ~Idle, NEW b \in BOOLEAN, Answer(b)
  PROVE  /\ Return(b) /\ DOMAIN status' = DOMAIN status \cup {N}
         /\ \A n \in DOMAIN status' : status'[n] = IF n = N THEN b ELSE status[n]
         /\ DOMAIN status' \subseteq Name /\ status' \in [DOMAIN status' -> BOOLEAN]
<1>1. Return(b)
  BY DEF Answer
<1>2. N \in Name
  BY TopLemma
<1> QED BY <1>1, <1>2 DEF Answer, TypeOK

\* A call that goes on to an operand.
LEMMA DescendLemma ==
  ASSUME TypeOK, ~Idle, N \in Name \ Leaf, NEW side \in Side, Descend(side)
  PROVE  /\ Append(N, side) \in Name
         /\ calls' \in Seq(CallSet) /\ Len(calls') = Len(calls) + 1
         /\ \A i \in 1..(Len(calls) - 1) : calls'[i] = calls[i]
         /\ calls'[Len(calls)].name = N /\ calls'[Len(calls)].at = side
         /\ calls'[Len(calls) + 1] = Call(Append(N, side))
         /\ UNCHANGED <<control, pc, result, store, status, told>>
<1> DEFINE top == [calls EXCEPT ![Len(calls)].at = side]
<1> DEFINE c == [C EXCEPT !.at = side]
<1>1. Append(N, side) \in Name
  BY ConstraintAssumption
<1>2. c \in CallSet /\ c.name = N /\ c.at = side
  BY TopLemma DEF CallSet
<1>3. top = [calls EXCEPT ![Len(calls)] = c]
  BY TopLemma
<1>4. /\ top \in Seq(CallSet) /\ Len(top) = Len(calls)
      /\ \A i \in 1..Len(calls) : top[i] = IF i = Len(calls) THEN c ELSE calls[i]
  <2> HIDE DEF c
  <2> QED BY <1>2, <1>3, TopLemma, ExceptSeq
<1>5. calls' = Append(top, Call(Append(N, side))) /\ Call(Append(N, side)) \in CallSet
  BY <1>1 DEF Descend, Call, CallSet
<1>6. /\ calls' \in Seq(CallSet) /\ Len(calls') = Len(calls) + 1
      /\ \A i \in 1..Len(calls) : calls'[i] = top[i]
      /\ calls'[Len(calls) + 1] = Call(Append(N, side))
  <2> HIDE DEF top
  <2> QED BY <1>4, <1>5, AppendProperties
<1> HIDE DEF top, c
<1>7. /\ \A i \in 1..(Len(calls) - 1) : calls'[i] = calls[i]
      /\ calls'[Len(calls)] = c
  BY <1>4, <1>6, TopLemma
<1> QED BY <1>1, <1>2, <1>6, <1>7 DEF Descend

-----------------------------------------------------------------------------
(* What check does *)

LEMMA HoldsLemma ==
  ASSUME TypeOK, NEW n \in Leaf, LeafKnown(n)
  PROVE  Holds(n) \in BOOLEAN
<1>1. node[n].opcode \in {"==", "<", "", "!"}
  BY ConstraintAssumption DEF Leaf, Opcode, Comparison
<1>2. \A o : Known(o) => ValueOf(o) \in Nat
  BY ConstraintAssumption DEF Known, ValueOf, TypeOK
<1>3. CASE node[n].opcode = "<"
  <2>1. ValueOf(node[n].lhs) \in Nat /\ ValueOf(node[n].rhs) \in Nat
    BY <1>2, <1>3 DEF LeafKnown, Comparison
  <2>2. Holds(n) = (ValueOf(node[n].lhs) < ValueOf(node[n].rhs))
    BY <1>3 DEF Holds
  <2> QED BY <2>1, <2>2
<1>4. CASE node[n].opcode = "=="
  <2>1. Holds(n) = (ValueOf(node[n].lhs) = ValueOf(node[n].rhs))
    BY <1>4 DEF Holds
  <2> QED BY <2>1
<1>5. CASE node[n].opcode = ""
  <2>1. Holds(n) = (ValueOf(node[n].lhs) # 0)
    BY <1>5 DEF Holds
  <2> QED BY <2>1
<1>6. CASE node[n].opcode = "!"
  <2>1. Holds(n) = (ValueOf(node[n].lhs) = 0)
    BY <1>6 DEF Holds
  <2> QED BY <2>1
<1> QED BY <1>1, <1>3, <1>4, <1>5, <1>6

\* A step of check sets a counter, returns what is cached, goes on to an operand
\* or answers.  It answers for a leaf of known values by these.
LEMMA CheckLemma ==
  ASSUME TypeOK, InProgress, Check
  PROVE  /\ ~Idle
         /\ \/ /\ \E v \in Counter : Store(v, 0) /\ ~cached[v] /\ v \in Operands(N)
               /\ N \in Leaf /\ Begin /\ UNCHANGED <<control, pc, calls, result>>
            \/ CheckCached
            \/ /\ N \in Name \ (Leaf \cup DOMAIN status)
               /\ \/ C.at = "begin" /\ Descend("lhs")
                  \/ C.at = "lhs" /\ result = Neutral(N) /\ Descend("rhs")
            \/ /\ N \in Leaf \ DOMAIN status /\ C.at = "begin"
               /\ \E b \in BOOLEAN : Answer(b) /\ (LeafKnown(N) => b = Holds(N))
            \/ /\ N \in Name \ (Leaf \cup DOMAIN status) /\ Answer(result)
               /\ \/ C.at = "lhs" /\ result # Neutral(N)
                  \/ C.at = "rhs"
<1>1. ~Idle
  BY DEF Check, CheckCached, CheckLhs, CheckRhs, CheckJunction, CheckKnown, InitCounter,
         CheckUnknown, Miss, Begin, Unknown
<1>2. N \in Name /\ C = calls[Len(calls)] /\ N = C.name /\ Len(calls) \in 1..Len(calls)
  BY <1>1, TopLemma DEF N
<1>3. C.at \in Side => N \in Name \ (Leaf \cup DOMAIN status)
  BY <1>2 DEF InProgress
<1>4. result \in BOOLEAN
  BY DEF TypeOK
<1>5. ASSUME Op \in Comparison
      PROVE  N \in Leaf
  BY <1>2, <1>5 DEF Comparison, Junction, Leaf, Op
<1>6. CASE CheckCached
  BY <1>1, <1>6
<1>7. CASE CheckLhs
  BY <1>1, <1>2, <1>7 DEF CheckLhs, Miss, Begin, Leaf, Op
<1>8. CASE CheckRhs
  <2>1. C.at = "lhs" /\ N \in Name \ (Leaf \cup DOMAIN status)
    BY <1>3, <1>8 DEF CheckRhs, Side
  <2>2. Op \in Junction /\ (Op = "||" <=> ~Neutral(N))
    BY <2>1 DEF Op, Leaf, Junction, Neutral
  <2>3. Neutral(N) \in BOOLEAN
    BY DEF Neutral
  <2>4. result = (Op = "||") <=> result # Neutral(N)
    BY <1>4, <2>2, <2>3
  <2> QED BY <1>1, <1>8, <2>1, <2>4 DEF CheckRhs
<1>9. CASE CheckJunction
  BY <1>1, <1>3, <1>9 DEF CheckJunction, Side
<1>10. CASE CheckKnown
  BY <1>1, <1>10, HoldsLemma DEF CheckKnown, Miss, Begin
<1>11. CASE InitCounter
  <2>1. \E v \in Counter : Store(v, 0) /\ ~cached[v] /\ v \in {node[N].lhs, node[N].rhs}
    BY <1>11 DEF InitCounter, UnknownCounter
  <2>2. Counter \subseteq Var
    BY ConstraintAssumption
  <2>3. \E v \in Counter : Store(v, 0) /\ ~cached[v] /\ v \in Operands(N)
    BY <2>1, <2>2 DEF Operands
  <2>4. N \in Leaf /\ Begin /\ UNCHANGED <<control, pc, calls, result>>
    BY <1>5, <1>11 DEF InitCounter, Miss
  <2> QED BY <1>1, <2>3, <2>4
<1>12. CASE CheckUnknown
  BY <1>1, <1>12 DEF CheckUnknown, Unknown, Miss, Begin
<1> QED
  BY <1>6, <1>7, <1>8, <1>9, <1>10, <1>11, <1>12 DEF Check

-----------------------------------------------------------------------------
(* Every step keeps CacheInv *)

\* The calls after a step outside of check.
LEMMA OutsideCalls ==
  ASSUME Outside
  PROVE  /\ Idle /\ calls' \in Seq(CallSet)
         /\ \/ calls' = <<>>
            \/ /\ Len(calls') = 1 /\ calls'[1].at = "begin"
               /\ calls'[1].name \in Name
<1>1. \A n \in Name : /\ Call(n) \in CallSet /\ Call(n).at = "begin" /\ Call(n).name = n
                      /\ <<Call(n)>> \in Seq(CallSet) /\ Len(<<Call(n)>>) = 1
                      /\ <<Call(n)>>[1] = Call(n)
  BY DEF Call, CallSet
<1>2. <<>> \in Seq(CallSet)
  OBVIOUS
<1>3. CASE calls' = <<>>
  BY <1>2, <1>3 DEF Outside
<1>4. CASE calls' # <<>>
  <2>1. PICK n \in Name : calls' = <<Call(n)>>
    BY <1>4 DEF Outside
  <2>2. /\ calls' \in Seq(CallSet) /\ Len(calls') = 1
        /\ calls'[1].at = "begin" /\ calls'[1].name = n
    BY <1>1, <2>1
  <2> QED BY <2>2 DEF Outside
<1> QED BY <1>3, <1>4

\* The calls and the cache after any step.
LEMMA TypeCache ==
  ASSUME TypeOK, Place, InProgress, Next
  PROVE  /\ calls' \in Seq(CallSet)
         /\ cached' \in [Var -> BOOLEAN] /\ value' \in [Var -> Value]
         /\ DOMAIN status' \subseteq Name /\ status' \in [DOMAIN status' -> BOOLEAN]
         /\ told' \in [Name -> SUBSET BOOLEAN]
<1>1. /\ calls \in Seq(CallSet)
      /\ cached \in [Var -> BOOLEAN] /\ value \in [Var -> Value]
      /\ DOMAIN status \subseteq Name /\ status \in [DOMAIN status -> BOOLEAN]
      /\ told \in [Name -> SUBSET BOOLEAN]
  BY DEF TypeOK, CallSet
<1>2. CASE ~Check
  <2>1. Outside /\ calls' \in Seq(CallSet)
    BY <1>2, OutsideLemma, OutsideCalls
  <2>2. PICK v \in Var, x \in Value : Settle(v, x)
    BY <2>1 DEF Outside
  <2> QED
    BY <1>1, <2>1, <2>2, StoreLemma, ResetLemma, ForgetLemma DEF Settle, store
<1>3. CASE Check
  <2>1. ~Idle
    BY <1>3, CheckLemma
  <2>2. CASE \E v \in Counter : Store(v, 0) /\ UNCHANGED calls
    <3>1. PICK v \in Var : Store(v, 0) /\ UNCHANGED calls
      BY <2>2, ConstraintAssumption
    <3> QED BY <1>1, <3>1, CounterLemma, StoreLemma, ResetLemma, ForgetLemma
  <2>3. CASE CheckCached
    <3>1. N \in DOMAIN status /\ Return(status[N]) /\ UNCHANGED status
      BY <2>3 DEF CheckCached
    <3> QED BY <1>1, <2>1, <3>1, ReturnLemma DEF store
  <2>4. CASE N \in Name \ Leaf /\ \E side \in Side : Descend(side)
    BY <1>1, <2>1, <2>4, DescendLemma DEF store
  <2>5. CASE \E b \in BOOLEAN : Answer(b)
    BY <1>1, <2>1, <2>5, AnswerLemma, ReturnLemma DEF store
  <2>6. result \in BOOLEAN
    BY DEF TypeOK
  <2> QED BY <1>3, <2>2, <2>3, <2>4, <2>5, <2>6, CheckLemma DEF Side
<1> QED BY <1>2, <1>3

\* The control after any step.
LEMMA TypeControl ==
  ASSUME TypeOK, Place, InProgress, Next
  PROVE  /\ idx' \in 1..(Len(parcel) + 1) /\ guard' \in Nat /\ tries' \in 0..TryBound
         /\ {flag', result'} \subseteq BOOLEAN
         /\ target' \in Leaf \cup {Null, NotFound}
<1>1. /\ idx \in 1..(Len(parcel) + 1) /\ guard \in Nat /\ tries \in 0..TryBound
      /\ {flag, result} \subseteq BOOLEAN
      /\ target \in Leaf \cup {Null, NotFound}
  BY DEF TypeOK, Place
<1>2. /\ Len(parcel) \in Nat /\ first \in 1..Len(parcel)
      /\ TryBound \in Nat /\ TryBound >= 1
  <2>1. parcel \in Seq(Var) /\ first \in 1..Len(parcel) /\ TryBound \in Nat \ {0}
    BY ConstraintAssumption
  <2> QED BY <2>1, LenProperties
<1> DEFINE Kept == UNCHANGED <<idx, guard, tries, flag, result, target>>
<1>3. CASE Check
  <2>1. ~Idle
    BY <1>3, CheckLemma
  <2>2. CASE UNCHANGED <<control, result>>
    BY <1>1, <2>2 DEF control
  <2>3. CASE CheckCached
    BY <1>1, <2>1, <2>3, ReturnLemma DEF CheckCached, control, TypeOK
  <2>4. CASE N \in Name \ Leaf /\ \E side \in Side : Descend(side)
    BY <1>1, <2>1, <2>4, DescendLemma DEF control
  <2>5. CASE \E b \in BOOLEAN : Answer(b)
    BY <1>1, <2>1, <2>5, AnswerLemma, ReturnLemma DEF control
  <2> QED BY <1>1, <1>3, <2>2, <2>3, <2>4, <2>5, CheckLemma DEF Side
<1>4. ASSUME ItemDone, pc \in Guarding \cup Writing
      PROVE  /\ idx' \in 1..(Len(parcel) + 1) /\ guard' \in Nat /\ tries' \in 0..TryBound
             /\ {flag', result'} \subseteq BOOLEAN
             /\ target' \in Leaf \cup {Null, NotFound}
  BY <1>1, <1>2, <1>4 DEF ItemDone, GoTo, Place
<1>5. CASE InitLoop \/ NextIteration \/ NextItem \/ CheckGuard \/ WithoutValue
  BY <1>1, <1>5 DEF InitLoop, NextIteration, NextItem, CheckGuard, WithoutValue, CheckThen,
                    GoTo, control
<1>6. CASE Write \/ Special \/ Tried \/ NoTry
  BY <1>1, <1>6 DEF Write, Special, Tried, NoTry, GoTo, control
<1>7. CASE TestLoop
  BY <1>1, <1>2, <1>7 DEF TestLoop, GoTo
<1>8. CASE TestGuard
  <2>1. flag' \in BOOLEAN
    BY <1>1, <1>8 DEF TestGuard
  <2> QED BY <1>1, <1>8, <2>1 DEF TestGuard, GoTo
<1>9. CASE Skip \/ Read \/ Written
  BY <1>4, <1>9 DEF Skip, Read, Written, Guarded, At, Guarding, Writing
<1>10. CASE Select
  <2>1. target' \in Leaf \cup {Null, NotFound}
    BY <1>10 DEF Select, SelfConstraint, Target
  <2> QED BY <1>1, <1>10, <2>1 DEF Select, GoTo
<1>11. CASE Try
  <2>1. pc = "try" /\ tries' = tries + 1
    BY <1>11 DEF Try, At
  <2>2. tries < TryBound
    BY <2>1 DEF Place
  <2>3. UNCHANGED <<idx, guard, flag, target, result>>
    BY <1>11 DEF Try, GoTo, CheckThen
  <2> QED BY <1>1, <1>2, <2>1, <2>2, <2>3
<1> QED
  BY <1>3, <1>5, <1>6, <1>7, <1>8, <1>9, <1>10, <1>11 DEF Next

LEMMA TypeStep ==
  ASSUME TypeOK, Place, InProgress, Next
  PROVE  TypeOK'
<1>1. /\ idx' \in 1..(Len(parcel) + 1) /\ guard' \in Nat /\ tries' \in 0..TryBound
      /\ {flag', result'} \subseteq BOOLEAN
      /\ target' \in Name \cup {Null, NotFound}
  BY TypeControl DEF Leaf
<1>2. /\ calls' \in Seq([name : Name, at : {"begin"} \cup Side])
      /\ cached' \in [Var -> BOOLEAN] /\ value' \in [Var -> Value]
      /\ DOMAIN status' \subseteq Name /\ status' \in [DOMAIN status' -> BOOLEAN]
      /\ told' \in [Name -> SUBSET BOOLEAN]
  BY TypeCache DEF CallSet
<1> QED BY <1>1, <1>2 DEF TypeOK

\* Where a step outside of check leads.
LEMMA PlaceOutside ==
  ASSUME TypeOK, Place, InProgress, Next, ~Check
  PROVE  Place'
<1>1. /\ idx \in 1..(Len(parcel) + 1) /\ guard \in Nat /\ tries \in 0..TryBound
      /\ Len(parcel) \in Nat /\ first \in 1..Len(parcel)
      /\ TryBound \in Nat /\ TryBound >= 1
  <2>1. parcel \in Seq(Var) /\ first \in 1..Len(parcel) /\ TryBound \in Nat \ {0}
    BY ConstraintAssumption
  <2> QED BY <2>1, LenProperties DEF TypeOK
<1>2. target' \in Leaf \cup {Null, NotFound}
  BY TypeControl
<1>3. Idle
  BY OutsideLemma DEF Outside
<1>4. \A i \in 1..Len(parcel) : Len(under[parcel[i]]) \in Nat
  <2>1. parcel \in Seq(Var) /\ under \in [Var -> Seq([name : Name, status : BOOLEAN])]
    BY ConstraintAssumption
  <2> QED BY <2>1, ElementOfSeq, LenProperties
<1>5. /\ Guards = under[parcel[idx]] /\ Guards' = under[parcel[idx']]
      /\ (Idle <=> calls = <<>>) /\ (Idle' <=> calls' = <<>>)
  BY DEF Guards, V, Idle
<1>6. ASSUME ItemDone, pc \in Guarding \cup Writing
      PROVE  Place'
  BY <1>1, <1>2, <1>3, <1>5, <1>6 DEF Place, ItemDone, GoTo, Guarding, Writing, Idle
<1>7. CASE InitLoop
  BY <1>1, <1>2, <1>7 DEF Place, InitLoop, At, CheckThen, control, Guarding, Writing
<1>8. CASE NextIteration
  <2>1. pc = "next" /\ guard = 1 /\ flag /\ tries = 0
    BY <1>8 DEF NextIteration, At, Place
  <2>2. UNCHANGED <<guard, flag, tries>>
    BY <1>8 DEF NextIteration, control
  <2>3. pc' = "loop" \/ (pc' = "done" /\ calls' = calls)
    BY <1>8 DEF NextIteration, CheckThen, GoTo
  <2> QED BY <1>2, <1>3, <1>5, <2>1, <2>2, <2>3 DEF Place, Guarding, Writing
<1>9. CASE TestLoop
  <2>1. pc = "loop" /\ guard = 1 /\ flag /\ tries = 0
    BY <1>9 DEF TestLoop, At, Place
  <2>2. UNCHANGED <<guard, flag, tries, calls>>
    BY <1>9 DEF TestLoop, GoTo
  <2>3. pc' = "done" \/ (pc' = "guards" /\ idx' = first)
    BY <1>9 DEF TestLoop, GoTo
  <2> QED BY <1>1, <1>2, <1>3, <1>4, <1>5, <2>1, <2>2, <2>3 DEF Place, Guarding, Writing
<1>10. CASE NextItem
  <2>1. /\ pc = "next" /\ guard = 1 /\ flag /\ tries = 0 /\ pc' = "guards" /\ calls' = calls
        /\ idx \in 1..Len(parcel) /\ UNCHANGED <<idx, guard, flag, tries>>
    BY <1>1, <1>10 DEF NextItem, At, GoTo, control, Place
  <2> QED BY <1>1, <1>2, <1>3, <1>4, <1>5, <2>1 DEF Place, Guarding, Writing
<1>11. CASE CheckGuard
  <2>1. /\ pc = "guards" /\ tries = 0 /\ pc' = "guarded" /\ guard <= Len(Guards)
        /\ UNCHANGED <<idx, guard, flag, tries>>
        /\ idx \in 1..Len(parcel) /\ guard \in 1..(Len(Guards) + 1)
    BY <1>11 DEF CheckGuard, At, CheckThen, control, Place, Guarding
  <2> QED BY <1>1, <1>2, <1>4, <1>5, <2>1 DEF Place, Guarding, Writing
<1>12. CASE TestGuard
  <2>1. /\ pc = "guarded" /\ tries = 0 /\ pc' = "guards" /\ guard \in 1..Len(Guards)
        /\ guard' = guard + 1 /\ UNCHANGED <<idx, tries, calls>> /\ idx \in 1..Len(parcel)
    BY <1>12 DEF TestGuard, At, GoTo, Place, Guarding
  <2> QED BY <1>1, <1>2, <1>3, <1>4, <1>5, <2>1 DEF Place, Guarding, Writing
<1>13. CASE Skip \/ Read \/ Written
  BY <1>6, <1>13 DEF Skip, Read, Written, Guarded, At, Guarding, Writing
<1>14. CASE Write \/ WithoutValue \/ Select \/ Special \/ Tried \/ NoTry
  <2>1. /\ pc \in Guarding \cup Writing /\ UNCHANGED <<idx, tries, calls>>
        /\ pc \in {"guards", "generate"} => tries = 0
    BY <1>14 DEF Write, WithoutValue, Select, Special, Tried, NoTry, Guarded, At, GoTo,
                 control, Place, Guarding, Writing
  <2>2. pc' \in Writing /\ (pc' = "generate" => tries = 0) /\ (pc' = "try" => tries < TryBound)
    <3>1. CASE Write
      BY <2>1, <3>1 DEF Write, Guarded, At, GoTo, Writing
    <3>2. CASE WithoutValue \/ Special \/ NoTry
      BY <3>2 DEF WithoutValue, Special, NoTry, GoTo, Writing
    <3>3. CASE Select
      BY <1>1, <2>1, <3>3 DEF Select, At, GoTo, Writing
    <3>4. CASE Tried
      BY <3>4 DEF Tried, GoTo, Writing
    <3> QED BY <1>14, <3>1, <3>2, <3>3, <3>4
  <2>3. pc' # "tried"
    BY <1>14 DEF Write, WithoutValue, Select, Special, Tried, NoTry, GoTo
  <2>4. idx \in 1..Len(parcel)
    BY <2>1 DEF Place
  <2> QED BY <1>2, <1>3, <1>5, <2>1, <2>2, <2>3, <2>4 DEF Place, Guarding, Writing
<1>15. CASE Try
  <2>1. pc = "try" /\ idx \in 1..Len(parcel) /\ UNCHANGED <<idx, guard, flag, target>>
    BY <1>15 DEF Try, At, Place, Writing
  <2>2. CASE target = Null
    <3>1. pc' = "written" /\ calls' = calls
      BY <1>15, <2>2 DEF Try, GoTo
    <3> QED BY <1>2, <1>3, <1>5, <2>1, <3>1 DEF Place, Guarding, Writing
  <2>3. CASE target # Null
    <3>1. pc' = "tried" /\ calls' = <<Call(target)>> /\ target \in Leaf
      BY <1>15, <2>3 DEF Try, CheckThen, Place
    <3>2. \A i \in 1..Len(calls') : calls'[i].name \in Leaf
      BY <3>1 DEF Call
    <3> QED BY <1>2, <1>5, <2>1, <3>1, <3>2 DEF Place, Guarding, Writing
  <2> QED BY <2>2, <2>3
<1> QED
  BY <1>7, <1>8, <1>9, <1>10, <1>11, <1>12, <1>13, <1>14, <1>15 DEF Next

LEMMA PlaceStep ==
  ASSUME TypeOK, Place, InProgress, Next
  PROVE  Place'
<1>1. CASE Check
  <2>1. ~Idle /\ UNCHANGED <<control, pc>>
    BY <1>1, CheckLemma, ReturnLemma, AnswerLemma, DescendLemma
    DEF Check, CheckCached, CheckLhs, CheckRhs, CheckJunction, CheckKnown, InitCounter,
        CheckUnknown, Answer, Return, Descend
  <2>2. pc \in {"loop", "guarded", "tried"}
    BY <2>1 DEF Place
  <2>3. Guards' = Guards
    BY <2>1 DEF Guards, V, control
  <2>4. pc = "tried" => \A i \in 1..Len(calls') : calls'[i].name \in Leaf
    <3> SUFFICES ASSUME pc = "tried" PROVE \A i \in 1..Len(calls') : calls'[i].name \in Leaf
      OBVIOUS
    <3>1. \A i \in 1..Len(calls) : calls[i].name \in Leaf
      BY DEF Place
    <3>2. Len(calls) \in Nat /\ N \in Leaf
      BY <2>1, <3>1, TopLemma
    <3>3. CASE UNCHANGED calls
      BY <3>1, <3>3
    <3>4. CASE \E b \in BOOLEAN : Return(b)
      BY <2>1, <3>1, <3>2, <3>4, ReturnLemma
    <3>5. CheckCached => \E b \in BOOLEAN : Return(b)
      BY DEF CheckCached, TypeOK
    <3>6. \A b : Answer(b) => Return(b)
      BY DEF Answer
    <3>7. result \in BOOLEAN
      BY DEF TypeOK
    <3> QED BY <1>1, <3>2, <3>3, <3>4, <3>5, <3>6, <3>7, CheckLemma
  <2> QED BY <2>1, <2>2, <2>3, <2>4 DEF Place, control, Guarding, Writing, Idle
<1>2. CASE ~Check
  BY <1>2, PlaceOutside
<1> QED BY <1>1, <1>2

\* The lower calls are not of the constraint that the innermost is of.
LEMMA BelowLemma ==
  ASSUME TypeOK, InProgress, ~Idle
  PROVE  \A i \in 1..(Len(calls) - 1) : calls[i].name \in Name /\ calls[i].name # N
<1>1. Len(calls) \in Nat /\ Len(calls) >= 1 /\ N = calls[Len(calls)].name
  BY TopLemma
<1>2. \A i \in 1..Len(calls) : calls[i].name \in Name
  <2>1. \A i \in 1..Len(calls) : calls[i] \in CallSet
    BY TopLemma, ElementOfSeq
  <2> QED BY <2>1 DEF CallSet
<1>3. \A i \in 1..Len(calls) : Len(calls[i].name) = Len(calls[1].name) + i - 1
  BY DEF InProgress
<1>4. Len(calls[1].name) \in Nat
  BY <1>1, <1>2, NameLemma
<1>5. ASSUME NEW i \in 1..(Len(calls) - 1)
      PROVE  calls[i].name # N
  <2>1. Len(calls[i].name) = Len(calls[1].name) + i - 1
    BY <1>1, <1>3
  <2>2. Len(N) = Len(calls[1].name) + Len(calls) - 1
    BY <1>1, <1>3
  <2> QED BY <1>1, <1>4, <2>1, <2>2
<1> QED BY <1>1, <1>2, <1>5

LEMMA ProgressStep ==
  ASSUME TypeOK, Place, InProgress, Next
  PROVE  InProgress'
<1>1. CASE ~Check
  <2>1. \/ calls' = <<>>
        \/ Len(calls') = 1 /\ calls'[1].at = "begin" /\ calls'[1].name \in Name
    BY <1>1, OutsideLemma, OutsideCalls
  <2>2. \A n \in Name : Len(n) \in Nat
    BY NameLemma
  <2>3. CASE calls' = <<>>
    <3>1. Len(calls') = 0
      BY <2>3
    <3> QED BY <3>1 DEF InProgress
  <2>4. CASE Len(calls') = 1 /\ calls'[1].at = "begin" /\ calls'[1].name \in Name
    <3>1. Len(calls'[1].name) \in Nat /\ calls'[1].at \notin Side
      BY <2>2, <2>4 DEF Side
    <3>2. /\ \A i \in 1..Len(calls') : i = 1
          /\ ~ \E i \in 1..(Len(calls') - 1) : TRUE
      BY <2>4
    <3> QED BY <3>1, <3>2 DEF InProgress
  <2> QED BY <2>1, <2>3, <2>4
<1>2. CASE Check
  <2>1. ~Idle /\ Len(calls) \in Nat /\ Len(calls) >= 1 /\ N = calls[Len(calls)].name
        /\ C = calls[Len(calls)]
    BY <1>2, CheckLemma, TopLemma
  <2>2. CASE \E v \in Counter : Store(v, 0) /\ UNCHANGED calls
    <3>1. PICK v \in Var : Store(v, 0) /\ UNCHANGED calls
      BY <2>2, ConstraintAssumption
    <3>2. Reset(v)
      BY <3>1 DEF Store
    <3>3. DOMAIN status' \subseteq DOMAIN status
      BY <3>2, ResetLemma
    <3> QED BY <3>1, <3>3 DEF InProgress
  <2>3. ASSUME NEW b \in BOOLEAN, Return(b), DOMAIN status' \subseteq DOMAIN status \cup {N}
        PROVE  InProgress'
    <3>1. Len(calls') = Len(calls) - 1 /\ \A i \in 1..Len(calls') : calls'[i] = calls[i]
      BY <2>1, <2>3, ReturnLemma
    <3>2. \A i \in 1..Len(calls') : Len(calls'[i].name) = Len(calls'[1].name) + i - 1
      <4>1. \A i \in 1..Len(calls') : i \in 1..Len(calls) /\ 1 \in 1..Len(calls')
        BY <2>1, <3>1
      <4>2. \A i \in 1..Len(calls) : Len(calls[i].name) = Len(calls[1].name) + i - 1
        BY DEF InProgress
      <4> QED BY <3>1, <4>1, <4>2
    <3>4. ASSUME NEW i \in 1..(Len(calls') - 1)
          PROVE  /\ calls'[i].at \in Side
                 /\ calls'[i + 1].name = Append(calls'[i].name, calls'[i].at)
      <4>1. i \in 1..(Len(calls) - 1) /\ i \in 1..Len(calls') /\ i + 1 \in 1..Len(calls')
        BY <2>1, <3>1
      <4>2. /\ calls[i].at \in Side
            /\ calls[i + 1].name = Append(calls[i].name, calls[i].at)
        BY <4>1 DEF InProgress
      <4> QED BY <3>1, <4>1, <4>2
    <3>3. \A i \in 1..Len(calls') :
            calls'[i].at \in Side => calls'[i].name \in Name \ (Leaf \cup DOMAIN status')
      <4>1. \A i \in 1..Len(calls') :
              calls'[i].at \in Side => calls'[i].name \in Name \ (Leaf \cup DOMAIN status)
        BY <2>1, <3>1 DEF InProgress
      <4>2. \A i \in 1..Len(calls') : calls'[i].name # N
        BY <2>1, <3>1, BelowLemma
      <4> QED BY <2>3, <4>1, <4>2
    <3> QED BY <3>2, <3>3, <3>4 DEF InProgress
  <2>4. ASSUME NEW side \in Side, N \in Name \ (Leaf \cup DOMAIN status), Descend(side)
        PROVE  InProgress'
    <3>1. /\ Append(N, side) \in Name /\ Len(calls') = Len(calls) + 1
          /\ \A i \in 1..(Len(calls) - 1) : calls'[i] = calls[i]
          /\ calls'[Len(calls)].name = N /\ calls'[Len(calls)].at = side
          /\ calls'[Len(calls) + 1].name = Append(N, side)
          /\ calls'[Len(calls) + 1].at = "begin"
          /\ UNCHANGED status
      <4>1. \A n : Call(n).name = n /\ Call(n).at = "begin"
        BY DEF Call
      <4> QED BY <2>1, <2>4, <4>1, DescendLemma
    <3>2. \A i \in 1..Len(calls) :
            /\ calls'[i].name = calls[i].name
            /\ calls'[i].at = IF i = Len(calls) THEN side ELSE calls[i].at
      BY <2>1, <3>1
    <3>3. ASSUME NEW i \in 1..(Len(calls') - 1)
          PROVE  /\ calls'[i].at \in Side
                 /\ calls'[i + 1].name = Append(calls'[i].name, calls'[i].at)
      <4>1. CASE i = Len(calls)
        BY <2>4, <3>1, <4>1
      <4>2. CASE i # Len(calls)
        <5>1. i \in 1..(Len(calls) - 1) /\ i + 1 \in 1..Len(calls) /\ i \in 1..Len(calls)
          BY <2>1, <3>1, <4>2
        <5>2. /\ calls[i].at \in Side
              /\ calls[i + 1].name = Append(calls[i].name, calls[i].at)
          BY <5>1 DEF InProgress
        <5> QED BY <3>2, <4>2, <5>1, <5>2
      <4> QED BY <4>1, <4>2
    <3>4. \A i \in 1..Len(calls') : Len(calls'[i].name) = Len(calls'[1].name) + i - 1
      <4>1. \A i \in 1..Len(calls) : Len(calls[i].name) = Len(calls[1].name) + i - 1
        BY DEF InProgress
      <4>2. \A i \in 1..Len(calls) : Len(calls'[i].name) = Len(calls'[1].name) + i - 1
        <5>1. 1 \in 1..Len(calls)
          BY <2>1
        <5> QED BY <3>2, <4>1, <5>1
      <4>3. N \in Seq(Part) /\ Len(N) \in Nat /\ Len(Append(N, side)) = Len(N) + 1
        BY <2>4, NameLemma, AppendLemma
      <4>4. Len(N) = Len(calls'[1].name) + Len(calls) - 1
        <5>1. Len(calls) \in 1..Len(calls)
          BY <2>1
        <5> QED BY <3>1, <4>2, <5>1
      <4>5. Len(calls'[1].name) \in Nat
        BY <2>1, <3>2, BelowLemma, NameLemma, <2>4
      <4>6. Len(calls'[Len(calls) + 1].name) = Len(calls'[1].name) + (Len(calls) + 1) - 1
        BY <2>1, <3>1, <4>3, <4>4, <4>5
      <4>7. \A i \in 1..Len(calls') : i \in 1..Len(calls) \/ i = Len(calls) + 1
        BY <2>1, <3>1
      <4> QED BY <4>2, <4>6, <4>7
    <3>5. \A i \in 1..Len(calls') :
            calls'[i].at \in Side => calls'[i].name \in Name \ (Leaf \cup DOMAIN status')
      <4>1. \A i \in 1..Len(calls) :
              calls[i].at \in Side => calls[i].name \in Name \ (Leaf \cup DOMAIN status)
        BY DEF InProgress
      <4>2. \A i \in 1..Len(calls) :
              calls'[i].at \in Side => calls'[i].name \in Name \ (Leaf \cup DOMAIN status)
        BY <2>1, <2>4, <3>2, <4>1
      <4>3. "begin" \notin Side
        BY DEF Side
      <4> QED BY <2>1, <3>1, <4>2, <4>3
    <3> QED BY <3>3, <3>4, <3>5 DEF InProgress
  <2>5. CASE CheckCached
    <3>1. status[N] \in BOOLEAN /\ Return(status[N]) /\ UNCHANGED status
      BY <2>5 DEF CheckCached, TypeOK
    <3> QED BY <2>3, <3>1
  <2>6. \A b \in BOOLEAN : Answer(b) => Return(b) /\ DOMAIN status' \subseteq DOMAIN status \cup {N}
    BY <2>1, AnswerLemma
  <2>7. result \in BOOLEAN /\ {"lhs", "rhs"} = Side
    BY DEF TypeOK, Side
  <2> QED BY <1>2, <2>2, <2>3, <2>4, <2>5, <2>6, <2>7, CheckLemma
<1> QED BY <1>1, <1>2

LEMMA ToldStep ==
  ASSUME CacheInv, Next
  PROVE  ToldCached'
<1>1. TypeOK /\ Place /\ InProgress /\ ToldCached
  BY DEF CacheInv
<1>2. ASSUME NEW v \in Var, Reset(v), Forget(v)
      PROVE  ToldCached'
  <2>1. \A n \in Name : n \in Dropped(v) => v \in VarsOf(n)
    BY DroppedLemma
  <2>2. /\ DOMAIN status' = DOMAIN status \ Dropped(v)
        /\ \A n \in DOMAIN status' : status'[n] = status[n]
    BY <1>1, <1>2, ResetLemma
  <2>3. \A n \in Name : told'[n] = IF v \in VarsOf(n) THEN {} ELSE told[n]
    BY <1>1, <1>2, ForgetLemma
  <2> QED BY <1>1, <2>1, <2>2, <2>3 DEF ToldCached
<1>3. CASE UNCHANGED <<status, told>>
  BY <1>1, <1>3 DEF ToldCached
<1>4. ASSUME NEW v \in Var, NEW x \in Value, Store(v, x)
      PROVE  ToldCached'
  BY <1>2, <1>4 DEF Store
<1>5. CASE ~Check
  <2>1. PICK v \in Var, x \in Value : Settle(v, x)
    BY <1>1, <1>5, OutsideLemma DEF Outside
  <2> QED BY <1>2, <1>3, <1>4, <2>1 DEF Settle
<1>6. CASE Check
  <2>1. ~Idle
    BY <1>1, <1>6, CheckLemma
  <2>2. CASE \E v \in Counter : Store(v, 0)
    BY <1>4, <2>2, CounterLemma, ConstraintAssumption
  <2>3. CASE CheckCached
    <3>1. N \in DOMAIN status /\ status[N] \in BOOLEAN /\ Return(status[N]) /\ UNCHANGED status
      BY <1>1, <2>3 DEF CheckCached, TypeOK
    <3>2. \A n \in Name : told'[n] = IF n = N THEN told[n] \cup {status[N]} ELSE told[n]
      BY <1>1, <2>1, <3>1, ReturnLemma
    <3> QED BY <1>1, <3>1, <3>2, ZenonT(30) DEF ToldCached
  <2>4. CASE \E side : Descend(side)
    BY <1>3, <2>4 DEF Descend
  <2>5. ASSUME NEW b \in BOOLEAN, Answer(b), N \notin DOMAIN status
        PROVE  ToldCached'
    <3>1. /\ DOMAIN status' = DOMAIN status \cup {N} /\ Return(b)
          /\ \A n \in DOMAIN status' : status'[n] = IF n = N THEN b ELSE status[n]
      BY <1>1, <2>1, <2>5, AnswerLemma
    <3>2. \A n \in Name : told'[n] = IF n = N THEN told[n] \cup {b} ELSE told[n]
      BY <1>1, <2>1, <3>1, ReturnLemma
    <3> QED BY <1>1, <2>5, <3>1, <3>2 DEF ToldCached
  <2>6. result \in BOOLEAN
    BY <1>1 DEF TypeOK
  <2> QED BY <1>1, <1>6, <2>2, <2>3, <2>4, <2>5, <2>6, CheckLemma
<1> QED BY <1>5, <1>6

\* A leaf says the same of variables that keep their values.
LEMMA SameLeaf ==
  ASSUME NEW n \in Leaf,
         \A v \in Operands(n) : value'[v] = value[v] /\ (cached'[v] => cached[v])
  PROVE  /\ LeafKnown(n)' => LeafKnown(n)
         /\ Holds(n)' = Holds(n)
<1>1. \A o \in {node[n].lhs, node[n].rhs} :
        (Known(o)' => Known(o)) /\ ValueOf(o)' = ValueOf(o)
  BY DEF Known, ValueOf, Operands
<1> QED BY <1>1 DEF LeafKnown, Holds

LEMMA FreshStep ==
  ASSUME CacheInv, Next
  PROVE  StatusFresh'
<1>1. TypeOK /\ Place /\ InProgress /\ StatusFresh
  BY DEF CacheInv
<1>2. ASSUME NEW v \in Var, Reset(v),
             cached' = cached \/ cached' = [cached EXCEPT ![v] = TRUE],
             \A w \in Var : w # v => value'[w] = value[w]
      PROVE  StatusFresh'
  <2>1. \A n \in DOMAIN status' : n \in DOMAIN status /\ n \notin SelfConstraint(v)
                                  /\ status'[n] = status[n]
    BY <1>1, <1>2, ResetLemma, DroppedLemma
  <2>2. \A n \in Leaf : n \notin SelfConstraint(v) =>
          \A w \in Operands(n) : w \in Var /\ w # v
    BY DEF SelfConstraint, Operands
  <2>3. \A n \in Leaf : n \notin SelfConstraint(v) =>
          (LeafKnown(n)' => LeafKnown(n)) /\ Holds(n)' = Holds(n)
    BY <1>1, <1>2, <2>2, SameLeaf DEF TypeOK
  <2> QED BY <1>1, <2>1, <2>3 DEF StatusFresh
<1>3. ASSUME NEW v \in Var, NEW x \in Value, Store(v, x)
      PROVE  StatusFresh'
  BY <1>1, <1>2, <1>3, StoreLemma DEF TypeOK
<1>4. ASSUME NEW v \in Var, UNCHANGED <<value, status>>,
             cached' = cached \/ cached' = [cached EXCEPT ![v] = FALSE]
      PROVE  StatusFresh'
  <2>1. \A n \in Leaf : (LeafKnown(n)' => LeafKnown(n)) /\ Holds(n)' = Holds(n)
    BY <1>1, <1>4, SameLeaf DEF TypeOK, Operands
  <2> QED BY <1>1, <1>4, <2>1 DEF StatusFresh
<1>5. CASE ~Check
  <2>1. PICK v \in Var, x \in Value : Settle(v, x)
    BY <1>1, <1>5, OutsideLemma DEF Outside
  <2>2. CASE Reset(v) /\ UNCHANGED store
    BY <1>2, <2>2 DEF store
  <2> QED BY <1>3, <1>4, <2>1, <2>2 DEF Settle, store
<1>6. CASE Check
  <2>1. ~Idle /\ result \in BOOLEAN /\ Var # {}
    BY <1>1, <1>6, CheckLemma, CounterLemma DEF TypeOK
  <2>2. CASE \E v \in Counter : Store(v, 0)
    BY <1>3, <2>2, CounterLemma, ConstraintAssumption
  <2>3. CASE UNCHANGED <<store, status>>
    BY <1>4, <2>1, <2>3 DEF store
  <2>4. CASE CheckCached
    BY <2>3, <2>4 DEF CheckCached, Return
  <2>5. CASE \E side : Descend(side)
    BY <2>3, <2>5 DEF Descend
  <2>6. ASSUME NEW b \in BOOLEAN, Answer(b), N \in Leaf => (LeafKnown(N) => b = Holds(N))
        PROVE  StatusFresh'
    <3>1. /\ DOMAIN status' = DOMAIN status \cup {N} /\ UNCHANGED <<cached, value>>
          /\ \A n \in DOMAIN status' : status'[n] = IF n = N THEN b ELSE status[n]
      BY <1>1, <2>1, <2>6, AnswerLemma DEF Return, store
    <3>2. \A n \in Leaf : (LeafKnown(n)' => LeafKnown(n)) /\ Holds(n)' = Holds(n)
      BY <3>1, SameLeaf
    <3> QED BY <1>1, <2>6, <3>1, <3>2 DEF StatusFresh
  <2> QED BY <1>1, <1>6, <2>1, <2>2, <2>4, <2>5, <2>6, CheckLemma
<1> QED BY <1>5, <1>6

LEMMA InitCacheInv ==
  ASSUME Init
  PROVE  CacheInv
<1>1. /\ Len(parcel) \in Nat /\ first \in 1..Len(parcel) /\ 0 \in Value
      /\ TryBound \in Nat \ {0}
  <2>1. parcel \in Seq(Var) /\ first \in 1..Len(parcel) /\ 0 \in Value /\ TryBound \in Nat \ {0}
    BY ConstraintAssumption
  <2> QED BY <2>1, LenProperties
<1>2. TypeOK
  <2>1. calls \in Seq([name : Name, at : {"begin"} \cup Side])
    BY DEF Init
  <2>2. DOMAIN <<>> = {} /\ <<>> = [n \in {} |-> TRUE]
    OBVIOUS
  <2>3. DOMAIN status \subseteq Name /\ status \in [DOMAIN status -> BOOLEAN]
    BY <2>2 DEF Init
  <2>4. idx \in 1..(Len(parcel) + 1) /\ guard \in Nat /\ tries \in 0..TryBound
    BY <1>1 DEF Init
  <2>5. {flag, result} \subseteq BOOLEAN /\ target \in Name \cup {Null, NotFound}
    BY DEF Init
  <2>6. /\ cached \in [Var -> BOOLEAN] /\ value \in [Var -> Value]
        /\ told \in [Name -> SUBSET BOOLEAN]
    BY <1>1 DEF Init
  <2> QED BY <2>1, <2>3, <2>4, <2>5, <2>6 DEF TypeOK
<1>3. Place /\ InProgress /\ ToldCached /\ StatusFresh
  BY <1>1 DEF Init, Place, Guarding, Writing, Idle, InProgress, ToldCached, StatusFresh
<1> QED BY <1>2, <1>3 DEF CacheInv

LEMMA CacheStep ==
  ASSUME CacheInv, [Next]_vars
  PROVE  CacheInv'
<1>1. CASE Next
  BY <1>1, TypeStep, PlaceStep, ProgressStep, ToldStep, FreshStep DEF CacheInv
<1>2. CASE UNCHANGED vars
  <2>1. TypeOK' = TypeOK /\ ToldCached' = ToldCached
    BY <1>2 DEF vars, TypeOK, ToldCached
  <2>2. Place' = Place /\ InProgress' = InProgress
    BY <1>2 DEF vars, Place, InProgress, Guards, V, Idle
  <2>3. StatusFresh' = StatusFresh
    BY <1>2 DEF vars, StatusFresh, LeafKnown, Holds, Known, ValueOf
  <2> QED BY <2>1, <2>2, <2>3 DEF CacheInv
<1> QED BY <1>1, <1>2

\* The invariant for all data, whatever the constraints say.
THEOREM CacheInvariant == Spec => []CacheInv
<1>1. Init => CacheInv
  BY InitCacheInv
<1>2. CacheInv /\ [Next]_vars => CacheInv'
  BY CacheStep
<1> QED BY <1>1, <1>2, PTL DEF Spec

\* Every variable keeps its type: among it, that a call of check is one of a
\* constraint that exists, however deep it is, that no value is stored beyond
\* those of the parcel, and that getTargetConstraint's result is a leaf.
THEOREM TypeCorrect == Spec => []TypeOK
<1>1. CacheInv => TypeOK
  BY DEF CacheInv
<1> QED BY <1>1, CacheInvariant, PTL

\* storeValue leaves no status behind that the values contradict, whoever stores:
\* the loop, the item that is written or read, a value that is tried, or check
\* itself when it sets a counter.
THEOREM CacheFresh == Spec => []StatusFresh
<1>1. CacheInv => StatusFresh
  BY DEF CacheInv
<1> QED BY <1>1, CacheInvariant, PTL

\* Between two writes of its variables check tells one thing of a constraint,
\* even of one whose status it has drawn.
THEOREM CheckConsistent == Spec => []AnswersAgree
<1>1. CacheInv => AnswersAgree
  <2>1. ASSUME ToldCached, NEW n \in Name
        PROVE  told[n] # BOOLEAN
    <3>1. ~(TRUE \in told[n] /\ FALSE \in told[n])
      BY <2>1 DEF ToldCached
    <3> QED BY <3>1
  <2> QED BY <2>1 DEF CacheInv, AnswersAgree
<1> QED BY <1>1, CacheInvariant, PTL

-----------------------------------------------------------------------------
(* Every step keeps ScopeInv *)

\* JunctionFresh speaks of the operands.
LEMMA JunctionLemma ==
  ASSUME TypeOK
  PROVE  JunctionFresh <=> OperandsTell
<1>1. \A n \in DOMAIN status : status[n] \in BOOLEAN /\ Neutral(n) \in BOOLEAN
  BY DEF TypeOK, Neutral
<1>2. ASSUME NEW n \in DOMAIN status \ Leaf
      PROVE  (LET sides == {Append(n, side) : side \in Side}
                  neutral == node[n].opcode = "&&"
              IN IF status[n] = neutral
                 THEN \A m \in sides : m \in DOMAIN status /\ status[m] = neutral
                 ELSE \E m \in sides : m \in DOMAIN status /\ status[m] # neutral)
             <=> (IF status[n] = Neutral(n)
                  THEN \A side \in Side : Cached(Append(n, side), Neutral(n))
                  ELSE \E side \in Side : Cached(Append(n, side), ~Neutral(n)))
  <2> DEFINE a == node[n].opcode = "&&"
  <2>1. Neutral(n) = a /\ a \in BOOLEAN
    BY DEF Neutral
  <2>2. \A m : Cached(m, a) <=> m \in DOMAIN status /\ status[m] = a
    BY DEF Cached
  <2>3. \A m : Cached(m, ~a) <=> m \in DOMAIN status /\ status[m] # a
    BY <1>1, <2>1 DEF Cached
  <2> HIDE DEF a
  <2> QED BY <2>1, <2>2, <2>3, ZenonT(30) DEF a
<1> QED BY <1>2 DEF JunctionFresh, OperandsTell

\* With the status of an operand goes that of the junction.
LEMMA JunctionReset ==
  ASSUME TypeOK, OperandsTell, NEW v \in Var, Reset(v)
  PROVE  OperandsTell'
<1>1. /\ DOMAIN status' = DOMAIN status \ Dropped(v) /\ DOMAIN status \subseteq Name
      /\ \A n \in DOMAIN status' : status'[n] = status[n]
  BY ResetLemma DEF TypeOK
<1>2. ASSUME NEW n \in DOMAIN status' \ Leaf, NEW side \in Side, NEW b,
             Cached(Append(n, side), b)
      PROVE  Cached(Append(n, side), b)'
  BY <1>1, <1>2, DroppedLemma DEF Cached
<1> QED BY <1>1, <1>2 DEF OperandsTell, Neutral

\* A junction that is answered has its answer from its operands.
LEMMA JunctionAnswer ==
  ASSUME TypeOK, OperandsTell, Operated, ~Idle,
         NEW b \in BOOLEAN, Answer(b), N \notin DOMAIN status,
         \/ N \in Leaf
         \/ b = result /\ C.at = "lhs" /\ result # Neutral(N)
         \/ b = result /\ C.at = "rhs"
  PROVE  OperandsTell'
<1>1. /\ DOMAIN status' = DOMAIN status \cup {N}
      /\ \A n \in DOMAIN status' : status'[n] = IF n = N THEN b ELSE status[n]
  BY AnswerLemma
<1>2. ASSUME NEW n, NEW c, Cached(n, c)
      PROVE  Cached(n, c)'
  BY <1>1, <1>2 DEF Cached
<1>3. ASSUME NEW n \in DOMAIN status \ Leaf
      PROVE  IF status'[n] = Neutral(n)
             THEN \A side \in Side : Cached(Append(n, side), Neutral(n))'
             ELSE \E side \in Side : Cached(Append(n, side), ~Neutral(n))'
  <2>1. status'[n] = status[n]
    BY <1>1
  <2>2. CASE status[n] = Neutral(n)
    <3>1. \A side \in Side : Cached(Append(n, side), Neutral(n))
      BY <2>2 DEF OperandsTell
    <3> QED BY <1>2, <2>1, <2>2, <3>1 DEF Neutral
  <2>3. CASE status[n] # Neutral(n)
    <3>1. PICK side \in Side : Cached(Append(n, side), ~Neutral(n))
      BY <2>3 DEF OperandsTell
    <3> QED BY <1>2, <2>1, <2>3, <3>1 DEF Neutral
  <2> QED BY <2>2, <2>3
<1>4. ASSUME NEW n \in Name \ Leaf, n = N
      PROVE  IF status'[n] = Neutral(n)
             THEN \A side \in Side : Cached(Append(n, side), Neutral(n))'
             ELSE \E side \in Side : Cached(Append(n, side), ~Neutral(n))'
  <2>1. C.at \in Side => Cached(Append(n, C.at), b)
    BY <1>4 DEF Operated
  <2>2. status'[n] = b /\ b = result /\ Neutral(n) \in BOOLEAN
    BY <1>1, <1>4 DEF Neutral
  <2>3. CASE C.at = "lhs" /\ b # Neutral(n)
    <3>1. "lhs" \in Side /\ Cached(Append(n, "lhs"), ~Neutral(n))
      BY <2>1, <2>2, <2>3 DEF Side
    <3>2. Cached(Append(n, "lhs"), ~Neutral(n))'
      BY <1>2, <3>1 DEF Neutral
    <3> QED BY <2>2, <2>3, <3>1, <3>2
  <2>4. CASE C.at = "rhs"
    <3>1. Cached(Append(n, "lhs"), Neutral(n)) /\ Cached(Append(n, "rhs"), b)
      BY <1>4, <2>1, <2>4, TopLemma DEF Operated, Side
    <3>2. Cached(Append(n, "lhs"), Neutral(n))' /\ Cached(Append(n, "rhs"), b)'
      BY <1>2, <3>1 DEF Neutral
    <3>3. CASE b = Neutral(n)
      <4>1. Cached(Append(n, "rhs"), Neutral(n))'
        BY <3>2, <3>3 DEF Neutral
      <4> QED BY <2>2, <3>2, <3>3, <4>1 DEF Side
    <3>4. CASE b # Neutral(n)
      <4>1. Cached(Append(n, "rhs"), ~Neutral(n))'
        BY <2>2, <3>2, <3>4 DEF Neutral
      <4> QED BY <2>2, <3>4, <4>1 DEF Side
    <3> QED BY <3>3, <3>4
  <2> QED BY <1>4, <2>2, <2>3, <2>4
<1>5. \A n \in DOMAIN status' \ Leaf :
        IF status'[n] = Neutral(n)
        THEN \A side \in Side : Cached(Append(n, side), Neutral(n))'
        ELSE \E side \in Side : Cached(Append(n, side), ~Neutral(n))'
  <2>1. N \in Name
    BY TopLemma
  <2> QED BY <1>1, <1>3, <1>4, <2>1
<1> QED BY <1>5 DEF OperandsTell, Neutral

\* A counter is set by check only while it tries a value, and then the call is
\* one of a leaf: no junction is half evaluated.
LEMMA CounterStep ==
  ASSUME ScopeInv, Check, NEW v \in Counter, v \in Operands(N), ~cached[v],
         N \in Leaf, Begin, UNCHANGED <<pc, calls>>
  PROVE  pc = "tried" /\ Len(calls) = 1 /\ C.at = "begin"
<1>1. TypeOK /\ Place /\ InProgress /\ CountersKnown /\ ~Idle
  BY DEF ScopeInv, CacheInv, Begin
<1>2. N = calls[Len(calls)].name /\ Len(calls) \in Nat /\ Len(calls) >= 1 /\ C.at = "begin"
  BY <1>1, TopLemma DEF Begin
<1>3. pc \notin {"loop", "guarded"}
  <2>1. v \in CountersOf(N)
    BY VarsOfLeaf DEF CountersOf
  <2>2. ~CountersSet(N)
    BY <2>1 DEF CountersSet
  <2> QED BY <1>1, <1>2, <2>2 DEF CountersKnown
<1>4. pc = "tried"
  BY <1>1, <1>3 DEF Place
<1>5. ASSUME Len(calls) > 1 PROVE FALSE
  <2>1. 1 \in 1..(Len(calls) - 1) /\ 1 \in 1..Len(calls)
    BY <1>2, <1>5
  <2>2. calls[1].at \in Side
    BY <1>1, <2>1 DEF InProgress
  <2>3. calls[1].name \notin Leaf
    BY <1>1, <2>1, <2>2 DEF InProgress
  <2>4. calls[1].name \in Leaf
    BY <1>1, <1>4, <2>1 DEF Place
  <2> QED BY <2>3, <2>4
<1>6. Len(calls) = 1
  <2>1. \A k \in Nat : k >= 1 /\ ~(k > 1) => k = 1
    OBVIOUS
  <2> QED BY <1>2, <1>5, <2>1
<1> QED BY <1>2, <1>4, <1>6

\* A step of check, as it is seen by ScopeInv.
LEMMA CheckScope ==
  ASSUME ScopeInv, Check
  PROVE  /\ UNCHANGED <<control, pc>>
         /\ \/ /\ \E v \in Counter : Store(v, 0)
               /\ pc = "tried" /\ Len(calls) = 1 /\ C.at = "begin" /\ UNCHANGED calls
            \/ /\ UNCHANGED <<store, status>>
               /\ \E b \in BOOLEAN : Return(b) /\ Cached(N, b)
            \/ /\ N \in Name \ Leaf
               /\ \E side \in Side : /\ Descend(side)
                                     /\ side = "rhs" => Cached(Append(N, "lhs"), Neutral(N))
            \/ /\ N \notin DOMAIN status
               /\ \E b \in BOOLEAN :
                    /\ Answer(b)
                    /\ \/ N \in Leaf
                       \/ b = result /\ C.at = "lhs" /\ result # Neutral(N)
                       \/ b = result /\ C.at = "rhs"
<1>1. TypeOK /\ InProgress /\ Operated /\ result \in BOOLEAN
  BY DEF ScopeInv, CacheInv, TypeOK
<1>2. UNCHANGED <<control, pc>>
  BY DEF Check, CheckCached, CheckLhs, CheckRhs, CheckJunction, CheckKnown, InitCounter,
         CheckUnknown, Answer, Return, Descend
<1>3. CASE /\ \E v \in Counter : Store(v, 0) /\ ~cached[v] /\ v \in Operands(N)
           /\ N \in Leaf /\ Begin /\ UNCHANGED <<control, pc, calls, result>>
  <2>1. PICK v \in Counter : Store(v, 0) /\ ~cached[v] /\ v \in Operands(N)
    BY <1>3
  <2>2. pc = "tried" /\ Len(calls) = 1 /\ C.at = "begin"
    BY <1>3, <2>1, CounterStep
  <2> QED BY <1>2, <1>3, <2>1, <2>2
<1>4. CASE CheckCached
  <2>1. /\ Return(status[N]) /\ UNCHANGED <<store, status>>
        /\ Cached(N, status[N]) /\ status[N] \in BOOLEAN
    BY <1>1, <1>4 DEF CheckCached, Return, Cached, TypeOK
  <2> QED BY <1>2, <2>1
<1>5. CASE /\ N \in Name \ (Leaf \cup DOMAIN status)
           /\ C.at = "lhs" /\ result = Neutral(N) /\ Descend("rhs")
  <2>1. ~Idle
    BY CheckLemma, <1>1
  <2>2. Cached(Append(N, "lhs"), Neutral(N))
    BY <1>1, <1>5, <2>1 DEF Operated, Side
  <2> QED BY <1>2, <1>5, <2>2 DEF Side
<1>6. CASE N \in Name \ (Leaf \cup DOMAIN status) /\ Descend("lhs")
  BY <1>2, <1>6 DEF Side
<1>7. CASE N \in Leaf \ DOMAIN status /\ \E b \in BOOLEAN : Answer(b)
  BY <1>2, <1>7
<1>8. CASE /\ N \in Name \ (Leaf \cup DOMAIN status) /\ Answer(result)
           /\ \/ C.at = "lhs" /\ result # Neutral(N)
              \/ C.at = "rhs"
  BY <1>1, <1>2, <1>8
<1> QED BY <1>1, <1>3, <1>4, <1>5, <1>6, <1>7, <1>8, CheckLemma

\* A store keeps what is cached, but for what it drops; a counter that is set
\* stays set.
LEMMA StoreScope ==
  ASSUME TypeOK, NEW v \in Var, NEW x \in Value, Store(v, x)
  PROVE  \A w \in Var : cached[w] => cached'[w]
BY StoreLemma DEF TypeOK

LEMMA JunctionStep ==
  ASSUME ScopeInv, Next
  PROVE  OperandsTell'
<1>1. TypeOK /\ Place /\ InProgress /\ OperandsTell /\ Operated
  BY DEF ScopeInv, CacheInv
<1>2. UNCHANGED status => OperandsTell'
  BY <1>1 DEF OperandsTell, Cached, Neutral
<1>3. ASSUME NEW v \in Var, NEW x, Store(v, x)
      PROVE  OperandsTell'
  BY <1>1, <1>3, JunctionReset DEF Store
<1>4. CASE ~Check
  <2>1. PICK v \in Var, x \in Value : Settle(v, x)
    BY <1>1, <1>4, OutsideLemma DEF Outside
  <2> QED BY <1>1, <1>2, <1>3, <2>1, JunctionReset DEF Settle
<1>5. CASE Check
  <2>1. ~Idle
    BY <1>1, <1>5, CheckLemma
  <2>2. CASE \E v \in Counter : Store(v, 0)
    BY <1>3, <2>2, ConstraintAssumption
  <2>3. CASE \E side \in Side : Descend(side)
    BY <1>2, <2>3 DEF Descend
  <2>4. CASE /\ N \notin DOMAIN status
             /\ \E b \in BOOLEAN :
                  /\ Answer(b)
                  /\ \/ N \in Leaf
                     \/ b = result /\ C.at = "lhs" /\ result # Neutral(N)
                     \/ b = result /\ C.at = "rhs"
    BY <1>1, <2>1, <2>4, JunctionAnswer
  <2> QED BY <1>2, <1>5, <2>2, <2>3, <2>4, CheckScope
<1> QED BY <1>4, <1>5

LEMMA OperatedStep ==
  ASSUME ScopeInv, Next
  PROVE  Operated'
<1>1. TypeOK /\ Place /\ InProgress /\ Operated
  BY DEF ScopeInv, CacheInv
<1>2. CASE ~Check
  <2>1. \/ calls' = <<>>
        \/ Len(calls') = 1 /\ calls'[1].at = "begin"
    BY <1>1, <1>2, OutsideLemma, OutsideCalls
  <2>2. Idle' <=> calls' = <<>>
    BY DEF Idle
  <2>3. ~Idle' => C'.at = "begin"
    BY <2>1, <2>2 DEF C
  <2> QED BY <2>1, <2>3 DEF Operated, Side
<1>3. CASE Check
  <2>1. ~Idle /\ Len(calls) \in Nat /\ Len(calls) >= 1 /\ N = calls[Len(calls)].name
        /\ C = calls[Len(calls)]
    BY <1>1, <1>3, CheckLemma, TopLemma
  <2>2. CASE Len(calls) = 1 /\ C.at = "begin" /\ UNCHANGED calls
    <3>1. C' = C /\ C.at \notin Side
      BY <2>2 DEF C, Side
    <3>2. \A i \in 1..Len(calls') : calls'[i].at # "rhs"
      <4>1. calls[1].at = "begin"
        BY <2>1, <2>2
      <4>2. \A i \in 1..Len(calls) : i = 1
        BY <2>2
      <4> QED BY <2>2, <4>1, <4>2
    <3> QED BY <3>1, <3>2 DEF Operated
  <2>3. ASSUME NEW n, n = N, NEW b \in BOOLEAN, Return(b), Cached(n, b)',
               \A m \in DOMAIN status : m \in DOMAIN status' /\ status'[m] = status[m]
        PROVE  Operated'
    <3>1. /\ Len(calls') = Len(calls) - 1 /\ result' = b
          /\ \A i \in 1..Len(calls') : calls'[i] = calls[i]
      BY <1>1, <2>1, <2>3, ReturnLemma
    <3>2. \A m, c : Cached(m, c) => m \in DOMAIN status' /\ status'[m] = c
      BY <2>3 DEF Cached
    <3>3. ASSUME NEW i \in 1..Len(calls'), calls'[i].at = "rhs"
          PROVE  Cached(Append(calls[i].name, "lhs"), Neutral(calls[i].name))
      <4>1. i \in 1..Len(calls) /\ calls[i].at = "rhs"
        BY <2>1, <3>1, <3>3
      <4> QED BY <1>1, <4>1 DEF Operated
    <3>4. ASSUME ~Idle', C'.at \in Side
          PROVE  Append(N', C'.at) = n
      <4>1. Len(calls') >= 1 /\ Len(calls') \in Nat
        BY <1>1, <2>1, <3>1, <3>4, ReturnLemma, <2>3, EmptySeq DEF Idle
      <4>2. C' = calls[Len(calls) - 1] /\ N' = calls[Len(calls) - 1].name
        BY <2>1, <3>1, <4>1 DEF C, N
      <4>3. Len(calls) - 1 \in 1..(Len(calls) - 1)
        BY <2>1, <3>1, <4>1
      <4>4. calls[Len(calls) - 1 + 1].name
              = Append(calls[Len(calls) - 1].name, calls[Len(calls) - 1].at)
        BY <1>1, <4>3 DEF InProgress
      <4>5. Len(calls) - 1 + 1 = Len(calls)
        BY <2>1
      <4> QED BY <2>1, <2>3, <4>2, <4>4, <4>5
    <3>5. \A i \in 1..Len(calls') : calls'[i].at = "rhs" =>
            LET m == Append(calls'[i].name, "lhs") IN
            m \in DOMAIN status' /\ status'[m] = Neutral(calls'[i].name)
      BY <3>1, <3>2, <3>3
    <3> QED BY <2>3, <3>1, <3>4, <3>5 DEF Operated, Cached, Neutral
  <2>4. ASSUME NEW side \in Side, Descend(side), N \in Name \ Leaf,
               side = "rhs" => Cached(Append(N, "lhs"), Neutral(N))
        PROVE  Operated'
    <3>1. /\ Len(calls') = Len(calls) + 1 /\ UNCHANGED status
          /\ \A i \in 1..(Len(calls) - 1) : calls'[i] = calls[i]
          /\ calls'[Len(calls)].name = N /\ calls'[Len(calls)].at = side
          /\ calls'[Len(calls) + 1] = Call(Append(N, side))
      BY <1>1, <2>1, <2>4, DescendLemma
    <3>2. calls'[Len(calls) + 1].at = "begin"
      BY <3>1 DEF Call
    <3>3. C'.at \notin Side
      BY <3>1, <3>2 DEF C, Side
    <3>4. ASSUME NEW i \in 1..Len(calls'), calls'[i].at = "rhs"
          PROVE  Cached(Append(calls'[i].name, "lhs"), Neutral(calls'[i].name))
      <4>1. i \in 1..(Len(calls) - 1) \/ i = Len(calls) \/ i = Len(calls) + 1
        BY <2>1, <3>1
      <4>2. CASE i = Len(calls)
        BY <2>4, <3>1, <3>4, <4>2
      <4>3. CASE i \in 1..(Len(calls) - 1)
        <5>1. calls'[i] = calls[i] /\ i \in 1..Len(calls)
          BY <2>1, <3>1, <4>3
        <5> QED BY <1>1, <3>4, <5>1 DEF Operated
      <4> QED BY <3>2, <3>4, <4>1, <4>2, <4>3
    <3> QED BY <3>1, <3>3, <3>4 DEF Operated, Cached, Neutral
  <2>5. CASE /\ UNCHANGED <<store, status>>
             /\ \E b \in BOOLEAN : Return(b) /\ Cached(N, b)
    BY <2>3, <2>5 DEF Cached
  <2>6. CASE \E b \in BOOLEAN : Answer(b) /\ N \notin DOMAIN status
    <3>1. PICK b \in BOOLEAN : Answer(b) /\ N \notin DOMAIN status
      BY <2>6
    <3>2. /\ Return(b) /\ DOMAIN status' = DOMAIN status \cup {N}
          /\ \A n \in DOMAIN status' : status'[n] = IF n = N THEN b ELSE status[n]
      BY <1>1, <2>1, <3>1, AnswerLemma
    <3> QED BY <2>3, <3>1, <3>2 DEF Cached
  <2> QED BY <1>3, <2>2, <2>4, <2>5, <2>6, CheckScope
<1> QED BY <1>2, <1>3

LEMMA GuardsStep ==
  ASSUME ScopeInv, Next
  PROVE  GuardsSoFar'
<1>1. /\ TypeOK /\ Place /\ InProgress /\ GuardsSoFar
      /\ guard \in Nat
  BY DEF ScopeInv, CacheInv, TypeOK
<1>2. CASE Check
  <2>1. /\ ~Idle /\ Len(calls) \in Nat /\ Len(calls) >= 1 /\ N = calls[Len(calls)].name
        /\ UNCHANGED <<control, pc>>
    BY <1>1, <1>2, CheckLemma, CheckScope, TopLemma
  <2>2. pc # "guards" /\ Guards' = Guards /\ UNCHANGED <<idx, guard, flag>>
    BY <1>1, <2>1 DEF Place, Guards, V, control
  <2>3. CASE pc # "guarded"
    BY <2>1, <2>2, <2>3 DEF GuardsSoFar, Guarding
  <2>4. CASE pc = "guarded"
    <3> DEFINE n == Resolve(Guards[guard].name)
    <3>1. calls[1].name = n
      BY <1>1, <2>1, <2>4 DEF GuardsSoFar
    <3>2. ASSUME \A m \in DOMAIN status : m \in DOMAIN status' /\ status'[m] = status[m],
                 IF calls' = <<>> THEN n \in DOMAIN status' /\ status'[n] = result'
                                  ELSE calls'[1].name = n
          PROVE  GuardsSoFar'
      <4>1. flag => \A i \in 1..(guard - 1) :
                      Cached(Resolve(Guards[i].name), Guards[i].status)
        BY <1>1, <2>4 DEF GuardsSoFar, Guarding
      <4>2. flag => \A i \in 1..(guard - 1) :
                      LET m == Resolve(Guards[i].name) IN
                      m \in DOMAIN status' /\ status'[m] = Guards[i].status
        BY <3>2, <4>1 DEF Cached
      <4> QED BY <2>2, <3>2, <4>2 DEF GuardsSoFar, Cached, Idle
    <3>3. ASSUME NEW b \in BOOLEAN, Return(b), N \in DOMAIN status', status'[N] = b
          PROVE  IF calls' = <<>> THEN n \in DOMAIN status' /\ status'[n] = result'
                                  ELSE calls'[1].name = n
      <4>1. /\ calls' \in Seq(CallSet) /\ Len(calls') = Len(calls) - 1 /\ result' = b
            /\ \A i \in 1..Len(calls') : calls'[i] = calls[i]
        BY <1>1, <2>1, <3>3, ReturnLemma
      <4>2. CASE calls' = <<>>
        <5>1. Len(calls) = 1
          BY <2>1, <4>1, <4>2
        <5> QED BY <2>1, <3>1, <3>3, <4>1, <4>2, <5>1
      <4>3. CASE calls' # <<>>
        <5>1. 1 \in 1..Len(calls')
          BY <4>1, <4>3, EmptySeq
        <5> QED BY <3>1, <4>1, <4>3, <5>1
      <4> QED BY <4>2, <4>3
    <3>4. CASE UNCHANGED <<store, status>> /\ \E b \in BOOLEAN : Return(b) /\ Cached(N, b)
      <4>1. PICK b \in BOOLEAN : Return(b) /\ Cached(N, b)
        BY <3>4
      <4> HIDE DEF n
      <4> QED BY <3>2, <3>3, <3>4, <4>1 DEF Cached
    <3>5. CASE N \in Name \ Leaf /\ \E side \in Side : Descend(side)
      <4>1. PICK side \in Side : Descend(side)
        BY <3>5
      <4>2. /\ Len(calls') = Len(calls) + 1 /\ UNCHANGED status
            /\ \A i \in 1..(Len(calls) - 1) : calls'[i] = calls[i]
            /\ calls'[Len(calls)].name = N
        BY <1>1, <2>1, <3>5, <4>1, DescendLemma
      <4>3. calls'[1].name = n /\ calls' # <<>>
        <5> HIDE DEF n
        <5>1. CASE Len(calls) = 1
          BY <2>1, <3>1, <4>2, <5>1
        <5>2. CASE Len(calls) # 1
          <6>1. 1 \in 1..(Len(calls) - 1)
            <7>1. \A k \in Nat : k >= 1 /\ k # 1 => 1 \in 1..(k - 1)
              OBVIOUS
            <7> QED BY <2>1, <5>2, <7>1
          <6> QED BY <2>1, <3>1, <4>2, <6>1
        <5> QED BY <5>1, <5>2
      <4> HIDE DEF n
      <4> QED BY <3>2, <4>2, <4>3
    <3>6. CASE \E b \in BOOLEAN : Answer(b) /\ N \notin DOMAIN status
      <4>1. PICK b \in BOOLEAN : Answer(b) /\ N \notin DOMAIN status
        BY <3>6
      <4>2. /\ Return(b) /\ DOMAIN status' = DOMAIN status \cup {N}
            /\ \A m \in DOMAIN status' : status'[m] = IF m = N THEN b ELSE status[m]
        BY <1>1, <2>1, <4>1, AnswerLemma
      <4> HIDE DEF n
      <4> QED BY <3>2, <3>3, <4>1, <4>2
    <3>7. pc # "tried"
      BY <2>4
    <3> HIDE DEF n
    <3> QED BY <1>2, <3>4, <3>5, <3>6, <3>7, CheckScope
  <2> QED BY <2>3, <2>4
<1>3. CASE ~Check
  <2>1. Idle
    BY <1>1, <1>3, OutsideLemma DEF Outside
  <2>2. CASE CheckGuard
    <3>1. /\ pc = "guards" /\ pc' = "guarded" /\ UNCHANGED <<idx, guard, flag, status>>
          /\ calls' = <<Call(Resolve(Guards[guard].name))>> /\ Guards' = Guards
      BY <2>2 DEF CheckGuard, At, CheckThen, control, Guards, V
    <3>2. calls'[1].name = Resolve(Guards[guard].name) /\ ~Idle'
      BY <3>1 DEF Call, Idle
    <3> QED BY <1>1, <3>1, <3>2 DEF GuardsSoFar, Guarding, Cached
  <2>3. CASE TestGuard
    <3>1. /\ pc = "guarded" /\ pc' = "guards" /\ UNCHANGED <<idx, status>>
          /\ guard' = guard + 1 /\ flag' = (flag /\ result = Guards[guard].status)
          /\ Guards' = Guards
      BY <2>3 DEF TestGuard, At, GoTo, Guards, V
    <3>2. Cached(Resolve(Guards[guard].name), result)
      BY <1>1, <2>1, <3>1 DEF GuardsSoFar
    <3>3. flag' => \A i \in 1..guard : Cached(Resolve(Guards[i].name), Guards[i].status)
      <4>1. \A i \in 1..guard : i \in 1..(guard - 1) \/ i = guard
        BY <1>1
      <4> QED BY <1>1, <3>1, <3>2, <4>1 DEF GuardsSoFar, Guarding
    <3>4. guard' - 1 = guard
      BY <1>1, <3>1
    <3> QED BY <3>1, <3>3, <3>4 DEF GuardsSoFar, Guarding, Cached
  <2>4. CASE TestLoop \/ NextItem
    <3>1. pc' \in {"guards", "done"} /\ guard' = 1
      BY <1>1, <2>4 DEF TestLoop, NextItem, GoTo, control, At, Place
    <3> QED BY <3>1 DEF GuardsSoFar
  <2>5. ~(CheckGuard \/ TestGuard \/ TestLoop \/ NextItem) => pc' \notin Guarding
    BY <1>3 DEF Next, InitLoop, NextIteration, Skip, Read, Write, WithoutValue, Select,
                Special, Try, Tried, NoTry, Written, ItemDone, GoTo, CheckThen, Guarding
  <2> QED BY <2>2, <2>3, <2>4, <2>5 DEF GuardsSoFar, Guarding
<1> QED BY <1>2, <1>3

LEMMA CountersStep ==
  ASSUME CountersInScope, ScopeInv, Next
  PROVE  CountersKnown'
<1>1. /\ TypeOK /\ Place /\ InProgress /\ CountersKnown
      /\ idx \in Nat /\ first \in Nat /\ Len(parcel) \in Nat /\ first <= Len(parcel)
      /\ loop.counter \in Var /\ cached \in [Var -> BOOLEAN]
  <2>1. parcel \in Seq(Var) /\ first \in 1..Len(parcel)
    BY ConstraintAssumption
  <2> QED BY <2>1, LenProperties, CounterLemma DEF ScopeInv, CacheInv, TypeOK
<1>2. \A n : CountersOf(n) \subseteq Var
  BY ConstraintAssumption DEF CountersOf
<1> DEFINE Within == pc = "loop" \/ idx > first \/ (idx = first /\ pc # "next")
<1>3. CASE Check
  <2>1. /\ ~Idle /\ Len(calls) \in Nat /\ Len(calls) >= 1 /\ N = calls[Len(calls)].name
        /\ UNCHANGED <<idx, pc>>
    BY <1>1, <1>3, CheckLemma, CheckScope, TopLemma DEF control
  <2>2. \A w \in Var : cached[w] => cached'[w]
    <3>1. CASE \E v \in Counter : Store(v, 0)
      BY <1>1, <3>1, StoreScope, CounterLemma, ConstraintAssumption
    <3>2. (\E b : Return(b)) \/ (\E side : Descend(side)) => UNCHANGED cached
      BY DEF Return, Descend, store
    <3>3. \A b : Answer(b) => Return(b)
      BY DEF Answer
    <3> QED BY <1>3, <3>1, <3>2, <3>3, CheckScope
  <2>3. ASSUME pc \in {"loop", "guarded"}
        PROVE  \A i \in 1..Len(calls') : CountersSet(calls'[i].name)
    <3>1. \A i \in 1..Len(calls) : CountersSet(calls[i].name)
      BY <1>1, <2>3 DEF CountersKnown
    <3>2. CASE \E b \in BOOLEAN : Return(b)
      <4>1. Len(calls') = Len(calls) - 1 /\ \A i \in 1..Len(calls') : calls'[i] = calls[i]
        BY <1>1, <2>1, <3>2, ReturnLemma
      <4> QED BY <2>1, <3>1, <4>1
    <3>3. CASE N \in Name \ Leaf /\ \E side \in Side : Descend(side)
      <4>1. PICK side \in Side : Descend(side)
        BY <3>3
      <4>2. /\ Len(calls') = Len(calls) + 1 /\ Append(N, side) \in Name
            /\ \A i \in 1..(Len(calls) - 1) : calls'[i] = calls[i]
            /\ calls'[Len(calls)].name = N
            /\ calls'[Len(calls) + 1].name = Append(N, side)
        <5>1. \A n : Call(n).name = n
          BY DEF Call
        <5> QED BY <1>1, <2>1, <3>3, <4>1, <5>1, DescendLemma
      <4>3. CountersSet(N) /\ CountersSet(Append(N, side))
        <5>1. CountersSet(N)
          BY <2>1, <3>1
        <5>2. CountersOf(Append(N, side)) \subseteq CountersOf(N)
          BY <3>3, <4>2, VarsOfOperand DEF CountersOf
        <5> QED BY <5>1, <5>2 DEF CountersSet
      <4>4. \A i \in 1..Len(calls') :
              i \in 1..(Len(calls) - 1) \/ i = Len(calls) \/ i = Len(calls) + 1
        BY <2>1, <4>2
      <4>5. \A i \in 1..(Len(calls) - 1) : i \in 1..Len(calls)
        BY <2>1
      <4> QED BY <3>1, <4>2, <4>3, <4>4, <4>5
    <3>4. \A b : Answer(b) => Return(b)
      BY DEF Answer
    <3> QED BY <1>3, <2>3, <3>2, <3>3, <3>4, CheckScope
  <2>4. pc \in {"loop", "guarded"} =>
          \A i \in 1..Len(calls') : \A v \in CountersOf(calls'[i].name) : cached'[v]
    BY <1>2, <2>2, <2>3 DEF CountersSet
  <2> QED BY <1>1, <2>1, <2>2, <2>4 DEF CountersKnown, CountersSet, CountersOf
<1>4. ASSUME pc' \notin {"loop", "guarded"},
             cached'[loop.counter] \/ ~(idx' > first \/ (idx' = first /\ pc' # "next"))
      PROVE  CountersKnown'
  BY <1>4 DEF CountersKnown
<1>5. ASSUME NEW n, calls' = <<Call(n)>>, cached'[loop.counter],
             CountersOf(n) \subseteq {loop.counter}
      PROVE  CountersKnown'
  <2>1. \A i \in 1..Len(calls') : calls'[i].name = n
    BY <1>5 DEF Call
  <2>2. \A w \in CountersOf(n) : cached'[w]
    BY <1>5
  <2> QED BY <1>5, <2>1, <2>2 DEF CountersKnown, CountersSet, CountersOf
<1>6. Within => cached[loop.counter]
  BY <1>1 DEF CountersKnown
<1>7. CASE InitLoop
  <2>1. cached'[loop.counter] /\ calls' = <<Call(Resolve(loop.constraint))>>
    BY <1>1, <1>7, CounterLemma, StoreLemma DEF InitLoop, CheckThen
  <2> QED BY <1>5, <2>1 DEF CountersInScope
<1>8. CASE NextIteration
  <2>1. CASE value[loop.counter] + 1 \in Value
    <3>1. cached'[loop.counter] /\ calls' = <<Call(Resolve(loop.constraint))>>
      BY <1>1, <1>8, <2>1, StoreLemma DEF NextIteration, CheckThen
    <3> QED BY <1>5, <3>1 DEF CountersInScope
  <2>2. CASE value[loop.counter] + 1 \notin Value
    BY <1>1, <1>4, <1>6, <1>8, <2>2 DEF NextIteration, GoTo, store
  <2> QED BY <2>1, <2>2
<1>9. CASE TestLoop
  BY <1>4, <1>6, <1>9 DEF TestLoop, GoTo, At, store
<1>10. CASE NextItem
  BY <1>1, <1>4, <1>6, <1>10 DEF NextItem, GoTo, control, store
<1>11. CASE CheckGuard
  <2>1. /\ pc = "guards" /\ guard <= Len(Guards) /\ UNCHANGED <<idx, cached>>
        /\ calls' = <<Call(Resolve(Guards[guard].name))>>
    BY <1>11 DEF CheckGuard, At, CheckThen, control, store
  <2> DEFINE n == Resolve(Guards[guard].name)
  <2>2. idx \in 1..Len(parcel) /\ guard \in 1..Len(Guards)
    BY <1>1, <2>1 DEF Place, Guarding, TypeOK
  <2>3. parcel \in Seq(Var) /\ Guards \in Seq([name : Name, status : BOOLEAN])
    BY <1>1, <2>1, VLemma, ConstraintAssumption DEF Guarding
  <2>4. idx \in DOMAIN parcel /\ guard \in DOMAIN under[parcel[idx]]
    BY <2>2, <2>3 DEF Guards, V
  <2>5. CountersOf(n) \subseteq IF idx < first THEN {} ELSE {loop.counter}
    BY <2>4 DEF CountersInScope, Guards, V
  <2> HIDE DEF n
  <2>6. CASE idx < first
    <3>1. \A i \in 1..Len(calls') : calls'[i].name = n
      BY <2>1 DEF Call, n
    <3>2. CountersOf(n) = {}
      BY <2>5, <2>6
    <3>3. pc' = "guarded" /\ ~(idx' > first) /\ idx' # first
      BY <1>1, <1>11, <2>1, <2>6 DEF CheckGuard, CheckThen
    <3> QED BY <3>1, <3>2, <3>3 DEF CountersKnown, CountersSet, CountersOf
  <2>7. CASE ~(idx < first)
    <3>1. cached[loop.counter] /\ CountersOf(n) \subseteq {loop.counter}
      BY <1>1, <1>6, <2>1, <2>5, <2>7
    <3> QED BY <1>5, <2>1, <3>1 DEF n
  <2> QED BY <2>6, <2>7
<1>12. ASSUME ItemDone, pc # "next", cached[loop.counter] => cached'[loop.counter]
       PROVE  CountersKnown'
  BY <1>1, <1>4, <1>6, <1>12 DEF ItemDone, GoTo
<1>13. CASE Skip \/ Written
  BY <1>12, <1>13 DEF Skip, Written, Guarded, At, store
<1>14. CASE Read
  <2>1. pc = "guards" /\ V \in Var
    BY <1>1, <1>14, VLemma DEF Read, Guarded, At, Guarding
  <2>2. \E x \in Value : Store(V, x)
    BY <1>14 DEF Read
  <2>3. cached[loop.counter] => cached'[loop.counter]
    BY <1>1, <2>1, <2>2, StoreScope
  <2> QED BY <1>12, <1>14, <2>1, <2>3 DEF Read
<1>15. ASSUME UNCHANGED idx, pc # "next", pc' \notin {"loop", "guarded"},
              cached[loop.counter] => cached'[loop.counter]
       PROVE  CountersKnown'
  BY <1>4, <1>6, <1>15
<1>16. CASE Write
  <2>1. pc = "guards" /\ idx \in 1..Len(parcel) /\ pc' = "generate" /\ UNCHANGED idx
    BY <1>1, <1>16 DEF Write, Guarded, At, Guarding, GoTo, control, Place
  <2>2. V \notin Counter /\ loop.counter \in Counter
    <3>1. parcel \in Seq(Var) /\ loop.counter \in Counter
      BY ConstraintAssumption
    <3>2. idx \in DOMAIN parcel
      BY <2>1, <3>1
    <3> QED BY <3>1, <3>2 DEF V, CountersInScope
  <2>3. cached' = [cached EXCEPT ![V] = FALSE]
    BY <1>16 DEF Write
  <2> QED BY <1>1, <1>15, <2>1, <2>2, <2>3
<1>17. CASE TestGuard \/ WithoutValue \/ Select \/ Tried \/ NoTry
  BY <1>15, <1>17 DEF TestGuard, WithoutValue, Select, Tried, NoTry, At, GoTo, control, store
<1>18. CASE Special \/ Try
  <2>1. pc = "try" /\ UNCHANGED idx /\ pc' \notin {"loop", "guarded"} /\ V \in Var
    BY <1>1, <1>18, VLemma DEF Special, Try, At, GoTo, CheckThen, control, Writing
  <2>2. \E x : Store(V, x)
    BY <1>18 DEF Special, Try
  <2>3. cached' = [cached EXCEPT ![V] = TRUE]
    BY <2>2 DEF Store
  <2>4. cached[loop.counter] => cached'[loop.counter]
    BY <1>1, <2>1, <2>3
  <2>5. pc # "next" /\ pc' \notin {"loop", "guarded"} /\ UNCHANGED idx
    BY <2>1
  <2> QED BY <1>15, <2>4, <2>5
<1> QED
  BY <1>3, <1>7, <1>8, <1>9, <1>10, <1>11, <1>13, <1>14, <1>16, <1>17, <1>18 DEF Next

LEMMA InitScopeInv ==
  ASSUME Init
  PROVE  ScopeInv
<1>1. parcel \in Seq(Var) /\ first \in 1..Len(parcel)
  BY ConstraintAssumption
<1>2. CacheInv
  BY InitCacheInv
<1>3. CountersKnown
  BY <1>1 DEF Init, CountersKnown
<1>4. Operated /\ OperandsTell /\ GuardsSoFar
  BY DEF Init, Operated, Idle, OperandsTell, GuardsSoFar, Guarding
<1> QED BY <1>2, <1>3, <1>4 DEF ScopeInv

LEMMA ScopeStep ==
  ASSUME CountersInScope, ScopeInv, [Next]_vars
  PROVE  ScopeInv'
<1>1. CacheInv'
  BY CacheStep DEF ScopeInv
<1>2. CASE Next
  BY <1>1, <1>2, CountersStep, OperatedStep, JunctionStep, GuardsStep DEF ScopeInv
<1>3. CASE UNCHANGED vars
  <2>1. CountersKnown' = CountersKnown /\ OperandsTell' = OperandsTell
    BY <1>3 DEF vars, CountersKnown, CountersSet, CountersOf, OperandsTell, Cached, Neutral
  <2>2. Operated' = Operated
    BY <1>3 DEF vars, Operated, Cached, Neutral, Idle, C, N
  <2>3. GuardsSoFar' = GuardsSoFar
    BY <1>3 DEF vars, GuardsSoFar, Cached, Guards, V, Idle
  <2> QED BY <1>1, <2>1, <2>2, <2>3 DEF ScopeInv
<1> QED BY <1>2, <1>3

\* With counters in scope, a junction in the middle of its check has the status of
\* its operands so far, and the guards that have been checked still hold.
THEOREM ScopeInvariant ==
  ASSUME CountersInScope
  PROVE  Spec => []ScopeInv
<1>1. Init => ScopeInv
  BY InitScopeInv
<1>2. ScopeInv /\ [Next]_vars => ScopeInv'
  BY ScopeStep
<1> QED BY <1>1, <1>2, PTL DEF Spec

\* What is cached of a conjunction or disjunction never contradicts what is
\* cached of its operands, if counters are used where they are in scope: the
\* only store that check itself makes is then made for a leaf that is checked
\* alone, and resetConstraints drops a junction with each of its operands.
THEOREM JunctionsAgree ==
  ASSUME CountersInScope
  PROVE  Spec => []JunctionFresh
<1>1. ScopeInv => JunctionFresh
  BY JunctionLemma DEF ScopeInv, CacheInv
<1> QED BY <1>1, ScopeInvariant, PTL

\* An item is written, or read, only if the comparisons it is under have the
\* status that the item asks for: every guard is checked, a single one that
\* fails is remembered, and what one guard was told is still so when the last
\* has been checked.
THEOREM GuardsRespected ==
  ASSUME CountersInScope, GuardsFound
  PROVE  Spec => []GuardsHold
<1>1. ASSUME ScopeInv
      PROVE  GuardsHold
  <2>1. TypeOK /\ Place /\ StatusFresh /\ GuardsSoFar
    BY <1>1 DEF ScopeInv, CacheInv
  <2>2. SUFFICES ASSUME Guarded, flag, NEW i \in DOMAIN Guards
        PROVE  LET n == Guards[i].name IN
               n \in Leaf /\ LeafKnown(n) => Holds(n) = Guards[i].status
    BY DEF GuardsHold
  <2>3. pc = "guards" /\ guard > Len(Guards) /\ guard \in Nat
    BY <2>1, <2>2 DEF Guarded, At, TypeOK
  <2>4. V \in Var /\ Guards \in Seq([name : Name, status : BOOLEAN])
    BY <2>1, <2>3, VLemma DEF Guarding
  <2>5. i \in 1..(guard - 1)
    BY <2>2, <2>3, <2>4
  <2>6. Resolve(Guards[i].name) = Guards[i].name
    BY <2>2, <2>4 DEF GuardsFound, Guards
  <2>7. Cached(Guards[i].name, Guards[i].status)
    BY <2>1, <2>2, <2>3, <2>5, <2>6 DEF GuardsSoFar, Guarding
  <2> QED BY <2>1, <2>7 DEF Cached, StatusFresh
<1> QED BY <1>1, ScopeInvariant, PTL

=============================================================================
