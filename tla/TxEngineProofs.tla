--------------------------- MODULE TxEngineProofs ---------------------------
(***************************************************************************)
(* Theorems about TxEngine, for every set of transactions, interfaces,     *)
(* services and dependencies.                                              *)
(*                                                                         *)
(* The actions differ in what they compute, but as far as the recursion is *)
(* concerned each of them is one of seven shapes: the loop begins, the top *)
(* frame moves, is issued, finishes the iteration, calls, returns, or the  *)
(* process ends.  Lemma StepShape classifies the actions once; the         *)
(* invariants are then proved shape by shape.                              *)
(***************************************************************************)
EXTENDS TxEngine, TLAPS, SequenceTheorems, FiniteSetTheorems, FunctionTheorems

-----------------------------------------------------------------------------
(* The stack *)

\* Replacing the top frame.
LEMMA SetTopLemma ==
  ASSUME stack \in Seq(FrameSet), stack # <<>>, NEW f \in FrameSet
  PROVE  /\ SetTop(f) \in Seq(FrameSet)
         /\ Len(SetTop(f)) = Len(stack)
         /\ \A i \in 1..Len(stack) :
              SetTop(f)[i] = IF i = Len(stack) THEN f ELSE stack[i]
BY DEF SetTop

\* Replacing the top frame and pushing another.
LEMMA CallLemma ==
  ASSUME stack \in Seq(FrameSet), stack # <<>>, NEW f \in FrameSet, NEW g \in FrameSet
  PROVE  /\ Append(SetTop(f), g) \in Seq(FrameSet)
         /\ Len(Append(SetTop(f), g)) = Len(stack) + 1
         /\ \A i \in 1..Len(stack) :
              Append(SetTop(f), g)[i] = IF i = Len(stack) THEN f ELSE stack[i]
         /\ Append(SetTop(f), g)[Len(stack) + 1] = g
<1>1. SetTop(f) \in Seq(FrameSet) /\ Len(SetTop(f)) = Len(stack)
  BY SetTopLemma
<1>2. \A i \in 1..Len(stack) : Append(SetTop(f), g)[i] = SetTop(f)[i]
  BY <1>1
<1> QED
  BY <1>1, <1>2, SetTopLemma

\* The top of a non-empty stack.
LEMMA TopLemma ==
  ASSUME stack \in Seq(FrameSet), stack # <<>>
  PROVE  /\ Len(stack) \in Nat \ {0}
         /\ DOMAIN stack = 1..Len(stack)
         /\ Top \in FrameSet
BY DEF Top

\* The frame of the loop is the first one, and only that.
LoopAtBottom == \A i \in DOMAIN stack : stack[i].purpose = "loop" <=> i = 1

-----------------------------------------------------------------------------
(* The shapes of a step *)

\* The frames 1..n stand for the same calls as before.
SameCalls(n) ==
  \A i \in 1..n : /\ stack'[i].tx = stack[i].tx
                  /\ stack'[i].purpose = stack[i].purpose

SameIssued(n) ==
  \A i \in 1..n : stack'[i].pc = "reply" <=> stack[i].pc = "reply"

Begins ==
  /\ stack = <<>> /\ Len(stack') = 1
  /\ stack'[1].purpose = "loop" /\ stack'[1].pc = "write"
  /\ usedTxs' = usedTxs \cup {stack'[1].tx}

Moves ==
  /\ Len(stack') = Len(stack)
  /\ SameCalls(Len(stack)) /\ SameIssued(Len(stack))
  /\ usedTxs' = usedTxs

Issues ==
  /\ stack # <<>> /\ Len(stack') = Len(stack)
  /\ SameCalls(Len(stack)) /\ SameIssued(Len(stack) - 1)
  /\ Top.pc # "reply" /\ stack'[Len(stack)].pc = "reply" /\ Top.purpose # "loop"
  /\ usedTxs' = usedTxs \ {Top.tx}

Finishes ==
  /\ stack # <<>> /\ stack' = <<>>
  /\ Top.pc # "reply" /\ Top.purpose = "loop"
  /\ usedTxs' = usedTxs \ {Top.tx}

Calls ==
  LET n == Len(stack) + 1 IN
  /\ stack # <<>> /\ Len(stack') = n
  /\ SameCalls(Len(stack)) /\ SameIssued(Len(stack)) /\ Top.pc # "reply"
  /\ stack'[n].purpose # "loop" /\ stack'[n].pc = "write"
  /\ usedTxs' = usedTxs \cup {stack'[n].tx}
  /\ CheckedOnly => stack'[n].tx \notin usedTxs
  /\ stack'[n].purpose = "value" => Cardinality(usedTxs) < MaxUsed

Returns ==
  /\ stack # <<>> /\ Len(stack') = Len(stack) - 1
  /\ SameCalls(Len(stack) - 1) /\ SameIssued(Len(stack) - 1)
  /\ Top.pc = "reply"
  /\ usedTxs' = usedTxs

Ends == stack' = <<>> /\ usedTxs' = {}

Shape == Begins \/ Moves \/ Issues \/ Finishes \/ Calls \/ Returns \/ Ends

\* A new frame is a frame.
LEMMA FrameLemma ==
  ASSUME NEW t \in Tx, NEW p \in Purpose
  PROVE  /\ Frame(t, p) \in FrameSet
         /\ Frame(t, p).tx = t /\ Frame(t, p).purpose = p /\ Frame(t, p).pc = "write"
BY DEF Frame, FrameSet, PC, BinderOrNull

\* The end of the process.
LEMMA ProcessEndsLemma ==
  ASSUME TypeOK, ProcessEnds
  PROVE  TypeOK' /\ Ends
BY EmptySeq DEF TypeOK, ProcessEnds, Ends, BinderOrNull

\* SetTop with a frame of the same call that is issued only if Top is.
LEMMA MoveLemma ==
  ASSUME TypeOK, stack # <<>>, NEW f \in FrameSet, stack' = SetTop(f), usedTxs' = usedTxs,
         f.tx = Top.tx, f.purpose = Top.purpose, f.pc = "reply" <=> Top.pc = "reply"
  PROVE  stack' \in Seq(FrameSet) /\ Moves
<1>1. stack \in Seq(FrameSet)
  BY DEF TypeOK
<1>2. /\ stack' \in Seq(FrameSet)
      /\ Len(stack') = Len(stack)
      /\ \A i \in 1..Len(stack) : stack'[i] = IF i = Len(stack) THEN f ELSE stack[i]
  BY <1>1, SetTopLemma
<1> QED
  BY <1>2 DEF Moves, SameCalls, SameIssued, Top

\* A call, or the death of the process when the C++ stack is exhausted.
LEMMA SolveLemma ==
  ASSUME TypeOK, stack # <<>>, Top.pc # "reply", NEW f \in FrameSet,
         f.tx = Top.tx, f.purpose = Top.purpose, f.pc # "reply",
         NEW name, NEW p \in Purpose \ {"loop"},
         SolveTxDependency(f, name, p),
         CheckedOnly => name \notin usedTxs,
         p = "value" => Cardinality(usedTxs) < MaxUsed
  PROVE  TypeOK' /\ (Calls \/ Ends)
<1>1. CASE ProcessEnds
  BY <1>1, ProcessEndsLemma
<1>2. CASE /\ name \in Tx
           /\ stack' = Append(SetTop(f), Frame(name, p))
           /\ usedTxs' = usedTxs \cup {name}
           /\ UNCHANGED <<generatedInterface, running, up>>
  <2> DEFINE g == Frame(name, p)
  <2>1. g \in FrameSet /\ g.tx = name /\ g.purpose = p /\ g.pc = "write"
    BY <1>2, FrameLemma
  <2>2. stack \in Seq(FrameSet)
    BY DEF TypeOK
  <2>3. /\ stack' \in Seq(FrameSet)
        /\ Len(stack') = Len(stack) + 1
        /\ \A i \in 1..Len(stack) : stack'[i] = IF i = Len(stack) THEN f ELSE stack[i]
        /\ stack'[Len(stack) + 1] = g
    <3>1. stack' = Append(SetTop(f), g)
      BY <1>2
    <3> HIDE DEF g
    <3>2. g \in FrameSet
      BY <2>1
    <3>3. /\ Append(SetTop(f), g) \in Seq(FrameSet)
          /\ Len(Append(SetTop(f), g)) = Len(stack) + 1
          /\ \A i \in 1..Len(stack) :
               Append(SetTop(f), g)[i] = IF i = Len(stack) THEN f ELSE stack[i]
          /\ Append(SetTop(f), g)[Len(stack) + 1] = g
      BY <2>2, <3>2, CallLemma, ZenonT(30)
    <3> QED
      BY <3>1, <3>3, Zenon
  <2>4. usedTxs' \in SUBSET Tx /\ UNCHANGED <<generatedInterface, running, up>>
    BY <1>2 DEF TypeOK
  <2>5. TypeOK'
    BY <2>3, <2>4 DEF TypeOK
  <2>6. Calls
    BY <1>2, <2>1, <2>2, <2>3, TopLemma DEF Calls, SameCalls, SameIssued, Top
  <2> QED
    BY <2>5, <2>6
<1> QED
  BY <1>1, <1>2 DEF SolveTxDependency, Construct

\* A step that only replaces the top frame by one of the same call.
LEMMA RetopLemma ==
  ASSUME TypeOK, stack # <<>>, NEW f \in FrameSet, stack' = SetTop(f), usedTxs' = usedTxs,
         f.tx = Top.tx, f.purpose = Top.purpose, f.pc # "reply", Top.pc # "reply",
         generatedInterface' \in [Iface -> BinderOrNull], UNCHANGED <<up, running>>
  PROVE  TypeOK' /\ Moves
<1>1. stack' \in Seq(FrameSet) /\ Moves
  BY MoveLemma
<1> QED
  BY <1>1 DEF TypeOK

\* Executor::run gives the transaction up, or issues it.
LEMMA IssueLemma ==
  ASSUME TypeOK, stack # <<>>, Top.pc # "reply",
         NEW b \in BinderOrNull,
         usedTxs' = usedTxs \ {Top.tx},
         stack' = IF Top.purpose = "loop" THEN <<>>
                  ELSE SetTop([Top EXCEPT !.pc = "reply", !.reply = b]),
         UNCHANGED <<generatedInterface, up, running>>
  PROVE  TypeOK' /\ (Issues \/ Finishes)
<1> DEFINE f == [Top EXCEPT !.pc = "reply", !.reply = b]
<1>1. stack \in Seq(FrameSet) /\ Top \in FrameSet
  BY TopLemma DEF TypeOK
<1>2. /\ f \in FrameSet /\ f.tx = Top.tx /\ f.purpose = Top.purpose /\ f.pc = "reply"
  BY <1>1 DEF FrameSet, PC
<1>3. CASE Top.purpose = "loop"
  BY <1>3 DEF Finishes, TypeOK
<1>4. CASE Top.purpose # "loop"
  <2>1. stack' = SetTop(f)
    BY <1>4
  <2>2. /\ stack' \in Seq(FrameSet)
        /\ Len(stack') = Len(stack)
        /\ \A i \in 1..Len(stack) : stack'[i] = IF i = Len(stack) THEN f ELSE stack[i]
    <3> HIDE DEF f
    <3>1. f \in FrameSet
      BY <1>2
    <3> QED
      BY <1>1, <2>1, <3>1, SetTopLemma
  <2>3. TypeOK'
    BY <2>2 DEF TypeOK
  <2>4. Issues
    <3> HIDE DEF f
    <3> QED
      BY <1>1, <1>2, <1>4, <2>2, TopLemma DEF Issues, SameCalls, SameIssued, Top
  <2> QED
    BY <2>3, <2>4
<1> QED
  BY <1>3, <1>4

\* getService returns a binder.
LEMMA BindLemma ==
  ASSUME TypeOK, stack # <<>>, Top.pc # "reply", NEW b \in BinderOrNull,
         Bind(b), UNCHANGED <<up, running>>
  PROVE  TypeOK' /\ Moves
<1> DEFINE f == [Top EXCEPT !.binder = b, !.pc = "transact"]
<1>1. Top \in FrameSet
  BY TopLemma DEF TypeOK
<1>2. f \in FrameSet /\ f.tx = Top.tx /\ f.purpose = Top.purpose /\ f.pc # "reply"
  BY <1>1 DEF FrameSet, PC
<1>3. stack' = SetTop(f) /\ usedTxs' = usedTxs /\ generatedInterface' \in [Iface -> BinderOrNull]
  BY DEF Bind, TypeOK
<1> HIDE DEF f
<1> QED
  BY <1>2, <1>3, RetopLemma

\* getService returns NULL.
LEMMA GiveUpLemma ==
  ASSUME TypeOK, stack # <<>>, Top.pc # "reply", GiveUp, UNCHANGED <<up, running>>
  PROVE  TypeOK' /\ (Issues \/ Finishes)
<1>1. Top \in FrameSet
  BY TopLemma DEF TypeOK
<1>2. /\ Top.reply \in BinderOrNull
      /\ [Top EXCEPT !.pc = "reply"] = [Top EXCEPT !.pc = "reply", !.reply = Top.reply]
  BY <1>1 DEF FrameSet
<1> QED
  BY <1>2, IssueLemma DEF GiveUp

\* Every step of the system has one of the shapes, and keeps the types.
LEMMA StepShape ==
  ASSUME TypeOK, LoopAtBottom, [Next]_vars
  PROVE  TypeOK' /\ (Shape \/ UNCHANGED <<stack, usedTxs>>)
<1> USE DEF Shape
<1>0. stack \in Seq(FrameSet) /\ usedTxs \subseteq Tx
  BY DEF TypeOK
<1>t. ASSUME stack # <<>>
      PROVE  Top \in FrameSet /\ Top.tx \in Tx /\ Top.item \in Nat \ {0} /\ Top.binder \in BinderOrNull
  BY <1>0, <1>t, TopLemma DEF FrameSet
<1>1. ASSUME NEW t \in Target, GenerateTx(t)
      PROVE  TypeOK' /\ Begins
  <2>1. t \in Tx /\ "loop" \in Purpose
    BY TxAssumption DEF Purpose
  <2>2. Frame(t, "loop") \in FrameSet /\ Frame(t, "loop").tx = t
        /\ Frame(t, "loop").purpose = "loop" /\ Frame(t, "loop").pc = "write"
    BY <2>1, FrameLemma
  <2>3. stack = <<>> /\ stack' = <<Frame(t, "loop")>> /\ usedTxs' = usedTxs \cup {t}
        /\ UNCHANGED <<generatedInterface, up, running>>
    BY <1>1 DEF GenerateTx
  <2>4. stack' \in Seq(FrameSet) /\ Len(stack') = 1 /\ stack'[1] = Frame(t, "loop")
    BY <2>2, <2>3
  <2>5. TypeOK'
    BY <2>1, <2>3, <2>4 DEF TypeOK
  <2>6. Begins
    BY <2>2, <2>3, <2>4 DEF Begins
  <2> QED BY <2>5, <2>6
<1>2. CASE WriteManually
  <2> DEFINE f == Written
  <2>1. stack # <<>> /\ Top.pc = "write" /\ stack' = SetTop(f)
        /\ UNCHANGED <<usedTxs, generatedInterface, up, running>>
    BY <1>2 DEF WriteManually, At
  <2>2. f \in FrameSet /\ f.tx = Top.tx /\ f.purpose = Top.purpose /\ f.pc = "write"
    BY <1>t, <2>1 DEF FrameSet, Written
  <2>3. generatedInterface' \in [Iface -> BinderOrNull]
    BY <2>1 DEF TypeOK
  <2> HIDE DEF f
  <2> QED BY <2>1, <2>2, <2>3, RetopLemma
<1>3. CASE Complete
  <2> DEFINE f == [Top EXCEPT !.pc = "getService"]
  <2>1. stack # <<>> /\ Top.pc = "write" /\ stack' = SetTop(f)
        /\ UNCHANGED <<usedTxs, generatedInterface, up, running>>
    BY <1>3 DEF Complete, At
  <2>2. f \in FrameSet /\ f.tx = Top.tx /\ f.purpose = Top.purpose /\ f.pc = "getService"
    BY <1>t, <2>1 DEF FrameSet, PC
  <2>3. generatedInterface' \in [Iface -> BinderOrNull]
    BY <2>1 DEF TypeOK
  <2> HIDE DEF f
  <2> QED BY <2>1, <2>2, <2>3, RetopLemma
<1>4. ASSUME stack # <<>>, Top.pc = "write", MoreItems,
             NEW dep \in items[Top.tx][Top.item].deps,
             WriteFromTx(dep) \/ WriteFromStruct(dep)
      PROVE  TypeOK' /\ (Calls \/ Ends)
  <2> DEFINE f == Written
  <2>1. f \in FrameSet /\ f.tx = Top.tx /\ f.purpose = Top.purpose /\ f.pc = "write"
    BY <1>t, <1>4 DEF FrameSet, Written
  <2>2. Top.item \in DOMAIN items[Top.tx]
    BY <1>t, <1>4, TxAssumption DEF MoreItems
  <2>3. CASE WriteFromTx(dep)
    <3> DEFINE p == IF items[Top.tx][Top.item].binder THEN "binder" ELSE "value"
    <3>1. SolveTxDependency(f, dep.name, p) /\ dep.name \notin usedTxs
      BY <2>3 DEF WriteFromTx, CanUseDependency
    <3>2. p = "value" => ~items[Top.tx][Top.item].binder
      OBVIOUS
    <3>3. p = "value" => Cardinality(usedTxs) < MaxUsed
      BY <2>3, <3>2 DEF WriteFromTx, CanUseDependency
    <3>4. p \in Purpose \ {"loop"}
      BY DEF Purpose
    <3> HIDE DEF f, p
    <3> QED BY <1>4, <2>1, <3>1, <3>3, <3>4, SolveLemma
  <2>4. CASE WriteFromStruct(dep)
    <3>1. ~CheckedOnly
      BY <1>t, <1>4, <2>2, <2>4 DEF CheckedOnly, WriteFromStruct
    <3>2. "struct" \in Purpose \ {"loop"} /\ "struct" # "value"
      BY DEF Purpose
    <3>3. CASE ProcessEnds
      BY <3>3, ProcessEndsLemma
    <3>4. ASSUME NEW name \in structDeps[dep.name], SolveTxDependency(f, name, "struct")
          PROVE  TypeOK' /\ (Calls \/ Ends)
      <4> HIDE DEF f
      <4> QED BY <1>4, <2>1, <3>1, <3>2, <3>4, SolveLemma
    <3> QED BY <2>4, <3>3, <3>4 DEF WriteFromStruct
  <2> QED BY <1>4, <2>3, <2>4
<1>5. ASSUME stack # <<>>, NEW name \in ifaceDeps[Top.tx], SolveInterface(name)
      PROVE  TypeOK' /\ (Calls \/ Ends)
  <2> DEFINE f == [Top EXCEPT !.pc = "solve"]
  <2>1. f \in FrameSet /\ f.tx = Top.tx /\ f.purpose = Top.purpose /\ f.pc = "solve"
    BY <1>t, <1>5 DEF FrameSet, PC
  <2>2. SolveTxDependency(f, name, "interface") /\ Top.pc = "generate" /\ ~TopLevelTx(Top.tx)
    BY <1>5 DEF SolveInterface, At, TopLevel
  <2>3. ~CheckedOnly
    BY <1>t, <1>5, <2>2 DEF CheckedOnly, TopLevelTx
  <2>4. "interface" \in Purpose \ {"loop"} /\ "interface" # "value"
    BY DEF Purpose
  <2> HIDE DEF f
  <2> QED BY <1>5, <2>1, <2>2, <2>3, <2>4, SolveLemma
<1>6. CASE LookUp
  <2>1. /\ stack # <<>> /\ Top.pc = "getService"
        /\ Cached \in BinderOrNull /\ NoBinder \in BinderOrNull
    BY <1>6, <1>t, TxAssumption DEF LookUp, At, Cached, TypeOK, BinderOrNull
  <2>2. CASE /\ stack' = SetTop([Top EXCEPT !.binder = Cached, !.pc = "transact"])
             /\ UNCHANGED generatedInterface
    <3> DEFINE f == [Top EXCEPT !.binder = Cached, !.pc = "transact"]
    <3>1. f \in FrameSet /\ f.tx = Top.tx /\ f.purpose = Top.purpose /\ f.pc # "reply"
      BY <1>t, <2>1 DEF FrameSet, PC
    <3>2. stack' = SetTop(f) /\ generatedInterface' \in [Iface -> BinderOrNull]
      BY <2>2 DEF TypeOK
    <3>3. UNCHANGED <<usedTxs, up, running>>
      BY <1>6 DEF LookUp
    <3> HIDE DEF f
    <3> QED BY <2>1, <3>1, <3>2, <3>3, RetopLemma
  <2>3. CASE /\ stack' = SetTop([Top EXCEPT !.pc = "generate"])
             /\ generatedInterface' = [generatedInterface EXCEPT ![ifaceOf[Top.tx]] = NoBinder]
    <3> DEFINE f == [Top EXCEPT !.pc = "generate"]
    <3>1. f \in FrameSet /\ f.tx = Top.tx /\ f.purpose = Top.purpose /\ f.pc # "reply"
      BY <1>t, <2>1 DEF FrameSet, PC
    <3>2. stack' = SetTop(f) /\ generatedInterface' \in [Iface -> BinderOrNull]
      BY <2>1, <2>3 DEF TypeOK
    <3>3. UNCHANGED <<usedTxs, up, running>>
      BY <1>6 DEF LookUp
    <3> HIDE DEF f
    <3> QED BY <2>1, <3>1, <3>2, <3>3, RetopLemma
  <2> QED BY <1>6, <2>2, <2>3 DEF LookUp
<1>b. Alive(Fuzzer) \in BinderOrNull
  BY DEF Alive, BinderOrNull, Handle
<1>s. ASSUME stack # <<>>, serviceOf[Top.tx] \in up
      PROVE  Alive(serviceOf[Top.tx]) \in BinderOrNull
  BY <1>s DEF Alive, BinderOrNull, Handle, TypeOK
<1>m. ASSUME stack # <<>>, Top.pc # "reply", GenerateManually, UNCHANGED <<up, running>>
      PROVE  TypeOK' /\ (Moves \/ Issues \/ Finishes)
  BY <1>b, <1>m, BindLemma, GiveUpLemma DEF GenerateManually
<1>7. CASE CheckService
  <2>1. stack # <<>> /\ Top.pc = "generate" /\ UNCHANGED <<up, running>>
    BY <1>7 DEF CheckService, At
  <2>2. CASE serviceOf[Top.tx] \in up /\ Bind(Alive(serviceOf[Top.tx]))
    BY <1>s, <2>1, <2>2, BindLemma
  <2>3. CASE GenerateManually
    BY <1>m, <2>1, <2>3
  <2>4. CASE /\ stack' = SetTop([Top EXCEPT !.pc = "retry"])
             /\ UNCHANGED <<usedTxs, generatedInterface>>
    <3> DEFINE f == [Top EXCEPT !.pc = "retry"]
    <3>1. f \in FrameSet /\ f.tx = Top.tx /\ f.purpose = Top.purpose /\ f.pc # "reply"
      BY <1>t, <2>1 DEF FrameSet, PC
    <3>2. stack' = SetTop(f) /\ generatedInterface' \in [Iface -> BinderOrNull]
      BY <2>4 DEF TypeOK
    <3> HIDE DEF f
    <3> QED BY <2>1, <2>4, <3>1, <3>2, RetopLemma
  <2> QED BY <1>7, <2>2, <2>3, <2>4 DEF CheckService
<1>8. CASE CheckServiceAgain
  <2>1. stack # <<>> /\ Top.pc = "retry" /\ UNCHANGED <<up, running>>
    BY <1>8 DEF CheckServiceAgain, At
  <2>2. CASE serviceOf[Top.tx] \in up /\ Bind(Alive(serviceOf[Top.tx]))
    BY <1>s, <2>1, <2>2, BindLemma
  <2>3. CASE GiveUp
    BY <2>1, <2>3, GiveUpLemma
  <2> QED BY <1>8, <2>2, <2>3 DEF CheckServiceAgain
<1>9. CASE GenerateInterface
  BY <1>9, <1>m DEF GenerateInterface, At
<1>10. CASE InterfaceSolved
  <2>1. stack # <<>> /\ Top.pc = "solve" /\ UNCHANGED <<up, running>>
    BY <1>10 DEF InterfaceSolved, At
  <2> QED
    BY <1>10, <1>t, <2>1, BindLemma, GiveUpLemma DEF InterfaceSolved
<1>11. CASE Transact
  <2>1. /\ stack # <<>> /\ Top.pc = "transact" /\ usedTxs' = usedTxs \ {Top.tx}
        /\ UNCHANGED <<generatedInterface, up, running>>
    BY <1>11 DEF Transact, At
  <2>2. PICK b \in BinderOrNull :
          stack' = IF Top.purpose = "loop" THEN <<>>
                   ELSE SetTop([Top EXCEPT !.pc = "reply", !.reply = b])
    <3>1. Top.binder \in BinderOrNull /\ NoBinder \in BinderOrNull
      BY <1>t, <2>1 DEF BinderOrNull
    <3> QED BY <1>11, <3>1 DEF Transact
  <2> QED BY <2>1, <2>2, IssueLemma
<1>12. CASE ReadReply
  <2> DEFINE n == Len(stack) - 1
             below == SubSeq(stack, 1, Len(stack) - 1)
  <2>1. /\ stack # <<>> /\ Top.pc = "reply"
        /\ UNCHANGED <<usedTxs, generatedInterface, up, running>>
    BY <1>12 DEF ReadReply, At
  <2>2. /\ below \in Seq(FrameSet) /\ Len(below) = n /\ n \in Nat
        /\ \A i \in 1..n : below[i] = stack[i]
    BY <1>0, <2>1, TopLemma
  <2>3. Top.reply \in BinderOrNull
    BY <1>t, <2>1 DEF FrameSet
  <2>4. /\ stack' \in Seq(FrameSet) /\ Len(stack') = n
        /\ \A i \in 1..n : /\ stack'[i].tx = stack[i].tx
                           /\ stack'[i].purpose = stack[i].purpose
                           /\ stack'[i].pc = stack[i].pc
    <3>1. CASE stack' = below
      BY <2>2, <3>1
    <3>2. CASE /\ Top.purpose = "interface"
               /\ stack' = [below EXCEPT ![Len(below)].binder = Top.reply]
      <4>1. CASE n = 0
        <5>1. Top.purpose = "loop"
          BY <1>0, <2>1, <4>1, SMTT(30) DEF LoopAtBottom, Top
        <5> QED BY <3>2, <5>1
      <4>2. CASE n # 0
        <5> DEFINE g == [below[n] EXCEPT !.binder = Top.reply]
        <5>1. below[n] \in FrameSet
          BY <2>2, <4>2
        <5>2. g \in FrameSet /\ g.tx = below[n].tx /\ g.purpose = below[n].purpose /\ g.pc = below[n].pc
          BY <2>3, <5>1 DEF FrameSet
        <5>3. stack' = [below EXCEPT ![n] = g]
          BY <2>2, <3>2
        <5> HIDE DEF g, below
        <5> QED BY <2>2, <4>2, <5>2, <5>3
      <4> QED BY <4>1, <4>2
    <3> QED BY <1>12, <3>1, <3>2 DEF ReadReply
  <2>5. TypeOK'
    BY <2>1, <2>4 DEF TypeOK
  <2>6. Returns
    BY <2>1, <2>4 DEF Returns, SameCalls, SameIssued
  <2> QED BY <2>5, <2>6
<1>13. ASSUME NEW s \in Service, Crash(s)
       PROVE  TypeOK' /\ Moves
  <2> DEFINE Die(b) == IF b # NoBinder /\ b.host = s THEN [b EXCEPT !.alive = FALSE] ELSE b
  <2>1. ASSUME NEW b \in BinderOrNull
        PROVE  Die(b) \in BinderOrNull
    BY DEF BinderOrNull, Handle
  <2>2. generatedInterface' \in [Iface -> BinderOrNull]
    <3>1. generatedInterface' = [i \in Iface |-> Die(generatedInterface[i])]
      BY <1>13 DEF Crash
    <3>2. \A i \in Iface : generatedInterface[i] \in BinderOrNull
      BY DEF TypeOK
    <3> HIDE DEF Die
    <3> QED BY <2>1, <3>1, <3>2
  <2>3. stack' = [i \in DOMAIN stack |->
                    [stack[i] EXCEPT !.binder = Die(@), !.reply = Die(@)]]
    BY <1>13 DEF Crash
  <2>4. /\ stack' \in Seq(FrameSet) /\ Len(stack') = Len(stack)
        /\ \A i \in 1..Len(stack) : /\ stack'[i].tx = stack[i].tx
                                    /\ stack'[i].purpose = stack[i].purpose
                                    /\ stack'[i].pc = stack[i].pc
    <3> DEFINE G(i) == [stack[i] EXCEPT !.binder = Die(@), !.reply = Die(@)]
    <3>1. Len(stack) \in Nat /\ DOMAIN stack = 1..Len(stack)
      BY <1>0
    <3>2. ASSUME NEW i \in 1..Len(stack)
          PROVE  /\ G(i) \in FrameSet /\ G(i).tx = stack[i].tx
                 /\ G(i).purpose = stack[i].purpose /\ G(i).pc = stack[i].pc
      <4>1. stack[i] \in FrameSet
        BY <1>0, <3>1
      <4>2. Die(stack[i].binder) \in BinderOrNull /\ Die(stack[i].reply) \in BinderOrNull
        BY <2>1, <4>1 DEF FrameSet
      <4> HIDE DEF Die
      <4> QED BY <4>1, <4>2 DEF FrameSet
    <3>3. stack' = [i \in 1..Len(stack) |-> G(i)]
      BY <2>3, <3>1
    <3>4. \A i \in 1..Len(stack) : stack'[i] = G(i)
      BY <3>3
    <3> HIDE DEF G, Die
    <3>5. stack' \in [1..Len(stack) -> FrameSet]
      BY <3>2, <3>3
    <3>6. stack' \in Seq(FrameSet) /\ Len(stack') = Len(stack)
      BY <3>1, <3>5
    <3> QED BY <3>2, <3>4, <3>6
  <2>5. up' \in SUBSET Service /\ UNCHANGED <<usedTxs, running>>
    BY <1>13 DEF Crash, TypeOK
  <2>6. TypeOK'
    BY <2>2, <2>4, <2>5 DEF TypeOK
  <2>7. Moves
    BY <2>4, <2>5 DEF Moves, SameCalls, SameIssued
  <2> QED BY <2>6, <2>7
<1>14. ASSUME NEW s \in Service, Register(s)
       PROVE  TypeOK' /\ UNCHANGED <<stack, usedTxs>>
  BY <1>14 DEF Register, TypeOK
<1>15. CASE Kill
  BY <1>15, ProcessEndsLemma DEF Kill
<1>16. CASE Start
  BY <1>16 DEF Start, TypeOK
<1>17. CASE UNCHANGED vars
  BY <1>17 DEF vars, TypeOK
<1>18. CASE Solve
  <2>1. CASE stack # <<>> /\ \E name \in ifaceDeps[Top.tx] : SolveInterface(name)
    BY <1>5, <2>1
  <2>2. CASE stack # <<>> /\ MoreItems /\ \E dep \in items[Top.tx][Top.item].deps :
               WriteFromTx(dep) \/ WriteFromStruct(dep)
    <3>1. Top.pc = "write"
      BY <2>2 DEF WriteFromTx, WriteFromStruct, At
    <3> QED BY <1>4, <2>2, <3>1
  <2> QED BY <1>18, <2>1, <2>2 DEF Solve
<1> QED
  BY <1>1, <1>2, <1>3, <1>6, <1>7, <1>8, <1>9, <1>10, <1>11, <1>12, <1>13, <1>14,
     <1>15, <1>16, <1>17, <1>18 DEF Next, Work, Environment

-----------------------------------------------------------------------------
(* Marks *)

\* Only the innermost transaction can have been issued: its reply is read before
\* anything else happens.
ReplyOnTop ==
  \A i \in DOMAIN stack :
    stack[i].pc = "reply" => i = Len(stack) /\ stack[i].purpose # "loop"

CallInv == TypeOK /\ LoopAtBottom /\ ReplyOnTop /\ MarksArePending

LEMMA CallInit == Init => CallInv
BY EmptySeq DEF Init, CallInv, TypeOK, LoopAtBottom, ReplyOnTop, MarksArePending, BinderOrNull

\* The invariant over the frames 1..n of a stack.
Frames(s, n) ==
  /\ \A i \in 1..n : s[i].purpose = "loop" <=> i = 1
  /\ \A i \in 1..n : s[i].pc = "reply" => i = n /\ s[i].purpose # "loop"

Marked(s, n, marks) ==
  \A u \in marks : \E i \in 1..n : s[i].pc # "reply" /\ s[i].tx = u

LEMMA FramesLemma ==
  ASSUME TypeOK
  PROVE  /\ LoopAtBottom /\ ReplyOnTop <=> Frames(stack, Len(stack))
         /\ MarksArePending <=> Marked(stack, Len(stack), usedTxs)
<1>1. Len(stack) \in Nat /\ DOMAIN stack = 1..Len(stack)
  BY DEF TypeOK
<1> QED
  BY <1>1, Zenon DEF LoopAtBottom, ReplyOnTop, MarksArePending, Frames, Marked, Pending, Unissued

LEMMA CallStep == CallInv /\ [Next]_vars => CallInv'
<1> SUFFICES ASSUME CallInv, [Next]_vars PROVE CallInv'
  OBVIOUS
<1> DEFINE n == Len(stack)
           m == Len(stack')
<1>1. TypeOK' /\ (Shape \/ UNCHANGED <<stack, usedTxs>>)
  BY StepShape DEF CallInv
<1>2. /\ n \in Nat /\ m \in Nat
      /\ (stack = <<>>) <=> (n = 0)
      /\ Top = stack[n]
  BY <1>1 DEF CallInv, TypeOK, Top
<1>3. Frames(stack, n) /\ Marked(stack, n, usedTxs)
  BY FramesLemma DEF CallInv
<1>4. (Frames(stack', m) /\ Marked(stack', m, usedTxs')) => CallInv'
  <2>1. /\ LoopAtBottom' /\ ReplyOnTop' <=> Frames(stack', m)
        /\ MarksArePending' <=> Marked(stack', m, usedTxs')
    <3>1. (Len(stack') \in Nat /\ DOMAIN stack' = 1..Len(stack'))
      BY <1>1 DEF TypeOK
    <3> QED
      BY <3>1, Zenon DEF LoopAtBottom, ReplyOnTop, MarksArePending, Frames, Marked, Pending, Unissued
  <2> QED BY <1>1, <2>1 DEF CallInv
<1>g. SUFFICES Frames(stack', m) /\ Marked(stack', m, usedTxs')
  BY <1>4
<1>5. CASE UNCHANGED <<stack, usedTxs>>
  BY <1>3, <1>5
<1>6. CASE Begins
  <2>1. /\ n = 0 /\ m = 1 /\ stack'[1].purpose = "loop" /\ stack'[1].pc = "write"
        /\ usedTxs' = usedTxs \cup {stack'[1].tx}
    BY <1>2, <1>6 DEF Begins
  <2> HIDE DEF n, m
  <2>2. usedTxs = {}
    BY <1>3, <2>1 DEF Marked
  <2> QED BY <2>1, <2>2 DEF Frames, Marked
<1>7. CASE Moves
  <2>1. m = n /\ SameCalls(n) /\ SameIssued(n) /\ usedTxs' = usedTxs
    BY <1>7 DEF Moves
  <2> HIDE DEF n, m
  <2> QED BY <1>2, <1>3, <2>1 DEF SameCalls, SameIssued, Frames, Marked
<1>8. CASE Issues
  <2>1. /\ n > 0 /\ m = n /\ SameCalls(n) /\ SameIssued(n - 1)
        /\ stack[n].pc # "reply" /\ stack'[n].pc = "reply" /\ stack[n].purpose # "loop"
        /\ usedTxs' = usedTxs \ {stack[n].tx}
    BY <1>2, <1>8 DEF Issues
  <2> HIDE DEF n, m
  <2>2. \A i \in 1..n : i # n => i \in 1..(n - 1)
    BY <1>2
  <2>3. Frames(stack', m)
    BY <1>2, <1>3, <2>1, <2>2 DEF SameCalls, SameIssued, Frames
  <2>4. Marked(stack', m, usedTxs')
    BY <1>2, <1>3, <2>1, <2>2 DEF SameCalls, SameIssued, Marked
  <2> QED BY <2>3, <2>4
<1>9. CASE Finishes
  <2>1. /\ n > 0 /\ m = 0 /\ stack[n].purpose = "loop"
        /\ usedTxs' = usedTxs \ {stack[n].tx}
    BY <1>2, <1>9 DEF Finishes
  <2> HIDE DEF n, m
  <2>2. n = 1
    BY <1>2, <1>3, <2>1 DEF Frames
  <2>3. usedTxs' = {}
    BY <1>3, <2>1, <2>2 DEF Marked
  <2> QED BY <2>1, <2>3 DEF Frames, Marked
<1>10. CASE Calls
  <2>1. /\ n > 0 /\ m = n + 1 /\ SameCalls(n) /\ SameIssued(n) /\ stack[n].pc # "reply"
        /\ stack'[m].purpose # "loop" /\ stack'[m].pc = "write"
        /\ usedTxs' = usedTxs \cup {stack'[m].tx}
    BY <1>2, <1>10 DEF Calls
  <2> HIDE DEF n, m
  <2>2. \A i \in 1..m : i # m => i \in 1..n
    BY <1>2, <2>1
  <2>3. Frames(stack', m)
    BY <1>2, <1>3, <2>1, <2>2 DEF SameCalls, SameIssued, Frames
  <2>4. Marked(stack', m, usedTxs')
    BY <1>2, <1>3, <2>1, <2>2 DEF SameCalls, SameIssued, Marked
  <2> QED BY <2>3, <2>4
<1>11. CASE Returns
  <2>1. /\ n > 0 /\ m = n - 1 /\ SameCalls(m) /\ SameIssued(m) /\ stack[n].pc = "reply"
        /\ usedTxs' = usedTxs
    BY <1>2, <1>11 DEF Returns
  <2> HIDE DEF n, m
  <2>2. /\ \A i \in 1..n : i # n => i \in 1..m
        /\ \A i \in 1..m : i \in 1..n /\ i # n
    BY <1>2, <2>1
  <2>3. Frames(stack', m)
    BY <1>2, <1>3, <2>1, <2>2 DEF SameCalls, SameIssued, Frames
  <2>4. Marked(stack', m, usedTxs')
    BY <1>2, <1>3, <2>1, <2>2 DEF SameCalls, SameIssued, Marked
  <2> QED BY <2>3, <2>4
<1>12. CASE Ends
  <2>1. m = 0 /\ usedTxs' = {}
    BY <1>12 DEF Ends
  <2> HIDE DEF n, m
  <2> QED BY <2>1 DEF Frames, Marked
<1> QED
  BY <1>1, <1>5, <1>6, <1>7, <1>8, <1>9, <1>10, <1>11, <1>12 DEF Shape

\* What the theorems below rest on.
THEOREM CallInvariant == Spec => []CallInv
BY CallInit, CallStep, PTL DEF Spec

\* The variables of the engine have their types, whatever the data.
THEOREM TypeInvariant == Spec => []TypeOK
BY CallInvariant, PTL DEF CallInv

\* Executor::run and the constructor of Transaction keep usedTxs free of marks
\* whose transaction is over.
THEOREM MarksInvariant == Spec => []MarksArePending
BY CallInvariant, PTL DEF CallInv

-----------------------------------------------------------------------------
(* Checked dependencies only *)

Distinct(s, n) == \A i, j \in 1..n : s[i].tx = s[j].tx => i = j
AllMarked(s, n, marks) == \A i \in 1..n : s[i].pc # "reply" => s[i].tx \in marks
Shallow(s, n) == \A i \in 1..n : s[i].purpose = "value" => i <= MaxUsed

\* With checked dependencies the marks are exactly the transactions that are
\* still to be issued, so the check finds every one of them.
CheckInv ==
  CheckedOnly => /\ Distinct(stack, Len(stack))
                 /\ AllMarked(stack, Len(stack), usedTxs)
                 /\ Shallow(stack, Len(stack))

\* As many marks as frames.
LEMMA MarksCount ==
  ASSUME NEW s, NEW n \in Nat, NEW marks,
         \A i \in 1..n : s[i].pc # "reply",
         Distinct(s, n), AllMarked(s, n, marks), Marked(s, n, marks)
  PROVE  Cardinality(marks) = n
<1> DEFINE f == [i \in 1..n |-> s[i].tx]
<1>1. f \in Injection(1..n, marks)
  BY DEF Injection, IsInjective, Distinct, AllMarked
<1>2. f \in Surjection(1..n, marks)
  BY DEF Surjection, Marked, AllMarked
<1>3. ExistsBijection(1..n, marks)
  BY <1>1, <1>2 DEF ExistsBijection, Bijection
<1> QED
  BY <1>3, FS_CountingElements

LEMMA CheckInit == Init => CheckInv
BY DEF Init, CheckInv, Distinct, AllMarked, Shallow

LEMMA CheckStep == CallInv /\ CheckInv /\ [Next]_vars => CheckInv'
<1> SUFFICES ASSUME CallInv, CheckInv, [Next]_vars, CheckedOnly
             PROVE  /\ Distinct(stack', Len(stack'))
                    /\ AllMarked(stack', Len(stack'), usedTxs')
                    /\ Shallow(stack', Len(stack'))
  <2>1. CheckInv' <=> (CheckedOnly => /\ Distinct(stack', Len(stack'))
                                      /\ AllMarked(stack', Len(stack'), usedTxs')
                                      /\ Shallow(stack', Len(stack')))
    BY DEF CheckInv, Distinct, AllMarked, Shallow, CheckedOnly, TopLevelTx
  <2> QED BY <2>1
<1> DEFINE n == Len(stack)
           m == Len(stack')
<1>1. TypeOK' /\ (Shape \/ UNCHANGED <<stack, usedTxs>>)
  BY StepShape DEF CallInv
<1>2. /\ n \in Nat /\ m \in Nat
      /\ (stack = <<>>) <=> (n = 0)
      /\ Top = stack[n]
  BY <1>1 DEF CallInv, TypeOK, Top
<1>3. Frames(stack, n) /\ Marked(stack, n, usedTxs)
  BY FramesLemma DEF CallInv
<1>4. Distinct(stack, n) /\ AllMarked(stack, n, usedTxs) /\ Shallow(stack, n)
  BY DEF CheckInv
<1>g. SUFFICES Distinct(stack', m) /\ AllMarked(stack', m, usedTxs') /\ Shallow(stack', m)
  OBVIOUS
<1>5. CASE UNCHANGED <<stack, usedTxs>>
  BY <1>4, <1>5
<1>6. CASE Begins
  <2>1. /\ m = 1 /\ stack'[1].purpose = "loop"
        /\ usedTxs' = usedTxs \cup {stack'[1].tx}
    BY <1>2, <1>6 DEF Begins
  <2> HIDE DEF n, m
  <2> QED BY <2>1 DEF Distinct, AllMarked, Shallow
<1>7. CASE Moves
  <2>1. m = n /\ SameCalls(n) /\ SameIssued(n) /\ usedTxs' = usedTxs
    BY <1>7 DEF Moves
  <2> HIDE DEF n, m
  <2> QED BY <1>2, <1>4, <2>1 DEF SameCalls, SameIssued, Distinct, AllMarked, Shallow
<1>8. CASE Issues
  <2>1. /\ n > 0 /\ m = n /\ SameCalls(n) /\ SameIssued(n - 1)
        /\ stack'[n].pc = "reply" /\ usedTxs' = usedTxs \ {stack[n].tx}
    BY <1>2, <1>8 DEF Issues
  <2> HIDE DEF n, m
  <2>2. \A i \in 1..n : i # n => i \in 1..(n - 1)
    BY <1>2
  <2>3. Distinct(stack', m) /\ Shallow(stack', m)
    BY <1>2, <1>4, <2>1 DEF SameCalls, Distinct, Shallow
  <2>4. AllMarked(stack', m, usedTxs')
    <3> SUFFICES ASSUME NEW i \in 1..n, stack'[i].pc # "reply"
                 PROVE  stack[i].tx \in usedTxs /\ stack[i].tx # stack[n].tx
      BY <2>1 DEF AllMarked, SameCalls
    <3>1. i # n
      BY <2>1
    <3>2. stack[i].pc # "reply" /\ n \in 1..n
      BY <1>2, <2>1, <2>2, <3>1 DEF SameIssued
    <3> QED BY <1>4, <3>1, <3>2 DEF AllMarked, Distinct
  <2> QED BY <2>3, <2>4
<1>9. CASE Finishes
  <2>1. m = 0
    BY <1>9 DEF Finishes
  <2> HIDE DEF n, m
  <2> QED BY <2>1 DEF Distinct, AllMarked, Shallow
<1>10. CASE Calls
  <2>1. /\ n > 0 /\ m = n + 1 /\ SameCalls(n) /\ SameIssued(n) /\ stack[n].pc # "reply"
        /\ usedTxs' = usedTxs \cup {stack'[m].tx}
        /\ stack'[m].tx \notin usedTxs
        /\ stack'[m].purpose = "value" => Cardinality(usedTxs) < MaxUsed
    BY <1>2, <1>10 DEF Calls
  <2> HIDE DEF n, m
  <2>2. \A i \in 1..m : i # m => i \in 1..n
    BY <1>2, <2>1
  <2>3. \A i \in 1..n : stack[i].pc # "reply" /\ stack[i].tx \in usedTxs
    BY <1>3, <1>4, <2>1 DEF Frames, AllMarked
  <2>4. Cardinality(usedTxs) = n
    BY <1>2, <1>3, <1>4, <2>3, MarksCount
  <2>5. Distinct(stack', m)
    BY <1>4, <2>1, <2>2, <2>3 DEF SameCalls, Distinct
  <2>6. AllMarked(stack', m, usedTxs')
    BY <2>1, <2>2, <2>3 DEF SameCalls, AllMarked
  <2>7. Shallow(stack', m)
    BY <1>2, <1>4, <2>1, <2>2, <2>4, BoundAssumption DEF SameCalls, Shallow
  <2> QED BY <2>5, <2>6, <2>7
<1>11. CASE Returns
  <2>1. /\ n > 0 /\ m = n - 1 /\ SameCalls(m) /\ SameIssued(m) /\ usedTxs' = usedTxs
    BY <1>2, <1>11 DEF Returns
  <2> HIDE DEF n, m
  <2>2. \A i \in 1..m : i \in 1..n
    BY <1>2, <2>1
  <2> QED BY <1>4, <2>1, <2>2 DEF SameCalls, SameIssued, Distinct, AllMarked, Shallow
<1>12. CASE Ends
  <2>1. m = 0
    BY <1>12 DEF Ends
  <2> HIDE DEF n, m
  <2> QED BY <2>1 DEF Distinct, AllMarked, Shallow
<1> QED
  BY <1>1, <1>5, <1>6, <1>7, <1>8, <1>9, <1>10, <1>11, <1>12 DEF Shape

LEMMA CheckInvariant == Spec => [](CallInv /\ CheckInv)
BY CallInit, CallStep, CheckInit, CheckStep, PTL DEF Spec

\* canUseDependency keeps a transaction from being constructed inside itself,
\* provided it is asked each time: the two unchecked uses of the solver are the
\* only way to do so.
THEOREM CheckedNoReentrance == Spec => [](CheckedOnly => NoReentrance)
<1>1. CallInv /\ CheckInv => (CheckedOnly => NoReentrance)
  <2> SUFFICES ASSUME CallInv, CheckInv, CheckedOnly PROVE NoReentrance
    OBVIOUS
  <2>1. DOMAIN stack = 1..Len(stack)
    BY DEF CallInv, TypeOK
  <2> QED BY <2>1, Zenon DEF CheckInv, Distinct, NoReentrance
<1> QED
  BY <1>1, CheckInvariant, PTL

\* The limit on used transactions bounds the nesting of values.
THEOREM ValuesShallowInvariant == Spec => []ValuesAreShallow
<1>1. CallInv /\ CheckInv => ValuesAreShallow
  <2> SUFFICES ASSUME CallInv, CheckInv, CheckedOnly
               PROVE  \A i \in DOMAIN stack : stack[i].purpose = "value" => i <= MaxUsed
    BY DEF ValuesAreShallow
  <2>1. DOMAIN stack = 1..Len(stack)
    BY DEF CallInv, TypeOK
  <2> QED BY <2>1, Zenon DEF CheckInv, Shallow
<1> QED
  BY <1>1, CheckInvariant, PTL

\* The marks bound the whole recursion, binders included, by the number of
\* transactions that were loaded.
THEOREM DepthInvariant == Spec => []DepthBounded
<1>1. CallInv /\ CheckInv => DepthBounded
  <2> SUFFICES ASSUME CallInv, CheckInv, CheckedOnly
               PROVE  Len(stack) <= Cardinality(Tx)
    BY DEF DepthBounded
  <2> DEFINE n == Len(stack)
             f == [i \in 1..n |-> stack[i].tx]
  <2>1. n \in Nat /\ \A i \in 1..n : stack[i].tx \in Tx
    <3>1. stack \in Seq(FrameSet)
      BY DEF CallInv, TypeOK
    <3>2. n \in Nat /\ \A i \in 1..n : stack[i] \in FrameSet
      BY <3>1
    <3> HIDE DEF n
    <3> QED BY <3>2 DEF FrameSet
  <2>2. f \in Injection(1..n, Tx)
    <3>1. Distinct(stack, n)
      BY DEF CheckInv
    <3> HIDE DEF n
    <3> QED BY <2>1, <3>1 DEF Injection, IsInjective, Distinct
  <2>3. Cardinality(1..n) <= Cardinality(Tx)
    <3> HIDE DEF f, n
    <3> QED BY <2>2, FS_Injection, TxAssumption
  <2>4. Cardinality(1..n) = n
    <3> DEFINE id == [i \in 1..n |-> i]
    <3> HIDE DEF n
    <3>1. id \in Bijection(1..n, 1..n)
      BY DEF Bijection, Injection, Surjection, IsInjective
    <3>2. ExistsBijection(1..n, 1..n)
      BY <3>1 DEF ExistsBijection
    <3> QED BY <2>1, <3>2, FS_CountingElements
  <2> QED BY <2>3, <2>4
<1> QED
  BY <1>1, CheckInvariant, PTL

-----------------------------------------------------------------------------
(* The engine implements the main loop *)

LEMMA LoopInit == Init => Loop!Init
BY DEF Init, Loop!Init

LEMMA LoopStep == CallInv /\ [Next]_vars => [Loop!Next]_Loop!vars
<1> SUFFICES ASSUME CallInv, [Next]_vars PROVE [Loop!Next]_Loop!vars
  OBVIOUS
<1> DEFINE n == Len(stack)
           m == Len(stack')
<1>1. TypeOK' /\ (Shape \/ UNCHANGED <<stack, usedTxs>>)
  BY StepShape DEF CallInv
<1>2. /\ n \in Nat /\ m \in Nat
      /\ (stack = <<>>) <=> (n = 0)
      /\ (stack' = <<>>) <=> (m = 0)
      /\ Top = stack[n]
  BY <1>1 DEF CallInv, TypeOK, Top
<1>3. Frames(stack, n) /\ Marked(stack, n, usedTxs)
  BY FramesLemma DEF CallInv
<1>4. usedTxs' \in SUBSET Tx
  BY <1>1 DEF TypeOK
<1>5. n = 0 => usedTxs = {}
  BY <1>3 DEF Marked
<1>6. n > 0 => stack[1].tx # NoTx
  <2> SUFFICES ASSUME n > 0 PROVE stack[1] \in FrameSet
    BY LoopAssumption DEF FrameSet
  <2>1. stack \in Seq(FrameSet)
    BY DEF CallInv, TypeOK
  <2> QED BY <1>2, <2>1
\* The shapes within an iteration are steps of Work.
<1>7. ASSUME n > 0, m > 0, stack'[1].tx = stack[1].tx
      PROVE  Loop!Work
  <2> HIDE DEF n, m
  <2> QED BY <1>2, <1>4, <1>6, <1>7 DEF Loop!Work
\* The shapes that leave no frame end it.
<1>8. ASSUME m = 0, usedTxs' = {}
      PROVE  Loop!End \/ UNCHANGED Loop!vars
  <2>1. CASE n = 0
    BY <1>2, <1>5, <1>8, <2>1 DEF Loop!vars
  <2>2. CASE n > 0
    BY <1>2, <1>6, <1>8, <2>2 DEF Loop!End
  <2> QED BY <1>2, <2>1, <2>2
<1>9. CASE UNCHANGED <<stack, usedTxs>>
  BY <1>9 DEF Loop!vars
<1>10. CASE Begins
  <2> DEFINE t == stack'[1].tx
  <2>1. n = 0 /\ m = 1 /\ usedTxs' = {t}
    BY <1>2, <1>5, <1>10 DEF Begins
  <2>2. t \in Tx
    BY <1>4, <2>1
  <2>3. Loop!Begin(t)
    BY <1>2, <2>1 DEF Loop!Begin
  <2> QED BY <2>2, <2>3 DEF Loop!Next
<1>11. CASE Moves
  <2>1. m = n /\ SameCalls(n) /\ usedTxs' = usedTxs
    BY <1>11 DEF Moves
  <2>2. CASE n = 0
    BY <1>2, <2>1, <2>2 DEF Loop!vars
  <2>3. CASE n > 0
    <3>1. stack'[1].tx = stack[1].tx
      <4> HIDE DEF n, m
      <4> QED BY <1>2, <2>1, <2>3 DEF SameCalls
    <3> QED BY <1>7, <2>1, <2>3, <3>1 DEF Loop!Next
  <2> QED BY <1>2, <2>2, <2>3
<1>12. CASE Issues \/ Calls
  <2>1. n > 0 /\ m > 0 /\ SameCalls(n)
    BY <1>2, <1>12 DEF Issues, Calls
  <2>2. stack'[1].tx = stack[1].tx
    <3> HIDE DEF n, m
    <3> QED BY <1>2, <2>1 DEF SameCalls
  <2> QED BY <1>7, <2>1, <2>2 DEF Loop!Next
<1>13. CASE Returns
  <2>1. n > 0 /\ m = n - 1 /\ SameCalls(m) /\ stack[n].pc = "reply"
    BY <1>2, <1>13 DEF Returns
  <2>2. m > 0 /\ stack'[1].tx = stack[1].tx
    <3> HIDE DEF n, m
    <3>1. n # 1
      BY <1>3, <2>1 DEF Frames
    <3> QED BY <1>2, <2>1, <3>1 DEF SameCalls
  <2> QED BY <1>7, <2>1, <2>2 DEF Loop!Next
<1>14. CASE Finishes
  <2>1. n > 0 /\ m = 0 /\ stack[n].purpose = "loop" /\ usedTxs' = usedTxs \ {stack[n].tx}
    BY <1>2, <1>14 DEF Finishes
  <2>2. usedTxs' = {}
    <3> HIDE DEF n, m
    <3>1. n = 1
      BY <1>2, <1>3, <2>1 DEF Frames
    <3> QED BY <1>3, <2>1, <3>1 DEF Marked
  <2> QED BY <1>8, <2>1, <2>2 DEF Loop!Next
<1>15. CASE Ends
  <2>1. m = 0 /\ usedTxs' = {}
    BY <1>15 DEF Ends
  <2> QED BY <1>8, <2>1 DEF Loop!Next
<1> QED
  BY <1>1, <1>9, <1>10, <1>11, <1>12, <1>13, <1>14, <1>15 DEF Shape

\* Whatever the recursion does, seen from startFuzzing there is one transaction
\* at a time and nothing is marked between two of them.
THEOREM EngineImplementsLoop == Spec => LoopSpec
BY CallInit, CallStep, LoopInit, LoopStep, PTL DEF Spec, LoopSpec, Loop!Spec

-----------------------------------------------------------------------------
(* The interface cache: a transaction of a registered service is only sent to that
   service, and a dead binder of such a service stays in the cache as long as the
   process lives. *)

\* The processes that may host the binder of a registered interface.
Hosts(t) == {serviceOf[t]} \cup (IF ifaceOf[t] \in HarnessOnly THEN {Fuzzer} ELSE {})

CacheOK(cache) ==
  \A t \in Tx : TopLevelTx(t) /\ cache[ifaceOf[t]] # NoBinder => cache[ifaceOf[t]].host \in Hosts(t)

FrameOK(f) ==
  /\ f.pc = "transact" /\ TopLevelTx(f.tx) => f.binder.host \in Hosts(f.tx)
  /\ f.pc = "solve" => ~TopLevelTx(f.tx)
  /\ f.pc = "retry" => TopLevelTx(f.tx)

\* While a service is looked up, nothing else can bind the interface: its entry,
\* dropped at the start of the look-up, stays empty.
Fresh(f, cache) == f.pc \in {"generate", "retry"} => cache[ifaceOf[f.tx]] = NoBinder

BinderInv ==
  /\ CacheOK(generatedInterface)
  /\ \A i \in 1..Len(stack) : FrameOK(stack[i])
  /\ \A i \in 1..Len(stack) : i # Len(stack) => stack[i].pc \in {"write", "solve"}
  /\ stack # <<>> => Fresh(stack[Len(stack)], generatedInterface)

LEMMA BinderInit == Init => BinderInv
<1> SUFFICES ASSUME Init PROVE BinderInv
  OBVIOUS
<1>1. stack = <<>> /\ Len(stack) = 0
  BY DEF Init
<1>2. \A i \in Iface : generatedInterface[i] = NoBinder
  BY DEF Init
<1>3. CacheOK(generatedInterface)
  BY <1>2, TxAssumption DEF CacheOK
<1> QED
  BY <1>1, <1>3 DEF BinderInv

\* The process ends.
LEMMA EndBinder ==
  ASSUME ProcessEnds
  PROVE  BinderInv'
<1>1. stack' = <<>> /\ Len(stack') = 0 /\ \A i \in Iface : generatedInterface'[i] = NoBinder
  BY DEF ProcessEnds
<1>2. CacheOK(generatedInterface')
  BY <1>1, TxAssumption DEF CacheOK
<1> QED
  BY <1>1, <1>2 DEF BinderInv, CacheOK, FrameOK, Fresh

\* The top frame changes.
LEMMA RetopBinder ==
  ASSUME TypeOK, BinderInv, stack # <<>>, NEW f \in FrameSet, stack' = SetTop(f),
         FrameOK(f), CacheOK(generatedInterface'), Fresh(f, generatedInterface')
  PROVE  BinderInv'
<1> DEFINE n == Len(stack)
<1>1. stack \in Seq(FrameSet) /\ n \in Nat /\ n > 0
  BY DEF TypeOK
<1>2. /\ Len(stack') = n /\ stack' # <<>>
      /\ \A i \in 1..n : stack'[i] = IF i = n THEN f ELSE stack[i]
  BY <1>1, SetTopLemma
<1>3. /\ \A i \in 1..n : FrameOK(stack[i])
      /\ \A i \in 1..n : i # n => stack[i].pc \in {"write", "solve"}
  BY DEF BinderInv
<1> HIDE DEF n
<1>4. /\ \A i \in 1..n : FrameOK(stack'[i])
      /\ \A i \in 1..n : i # n => stack'[i].pc \in {"write", "solve"}
      /\ Fresh(stack'[n], generatedInterface')
  BY <1>1, <1>2, <1>3
<1> QED
  BY <1>2, <1>4, Zenon DEF BinderInv, CacheOK, FrameOK, Fresh, TopLevelTx, Hosts

\* A call.
LEMMA SolveBinder ==
  ASSUME TypeOK, BinderInv, stack # <<>>, NEW f \in FrameSet, FrameOK(f),
         f.pc \in {"write", "solve"},
         NEW name, NEW p \in Purpose, SolveTxDependency(f, name, p)
  PROVE  BinderInv'
<1> DEFINE n == Len(stack)
           g == Frame(name, p)
<1>1. CASE ProcessEnds
  BY <1>1, EndBinder
<1>2. CASE /\ name \in Tx /\ stack' = Append(SetTop(f), g) /\ UNCHANGED generatedInterface
  <2>1. stack \in Seq(FrameSet) /\ n \in Nat /\ n > 0
    BY DEF TypeOK
  <2>2. g \in FrameSet /\ g.pc = "write"
    BY <1>2, FrameLemma
  <2>3. /\ Len(stack') = n + 1
        /\ \A i \in 1..n : stack'[i] = IF i = n THEN f ELSE stack[i]
        /\ stack'[n + 1] = g
    <3>1. stack' = Append(SetTop(f), g)
      BY <1>2
    <3> HIDE DEF g
    <3>2. /\ Len(Append(SetTop(f), g)) = n + 1
          /\ \A i \in 1..n : Append(SetTop(f), g)[i] = IF i = n THEN f ELSE stack[i]
          /\ Append(SetTop(f), g)[n + 1] = g
      BY <2>1, <2>2, CallLemma, ZenonT(30)
    <3> QED BY <3>1, <3>2, Zenon
  <2>4. /\ \A i \in 1..n : FrameOK(stack[i])
        /\ \A i \in 1..n : i # n => stack[i].pc \in {"write", "solve"}
        /\ CacheOK(generatedInterface')
    BY <1>2 DEF BinderInv
  <2> HIDE DEF n, g
  <2>5. FrameOK(g) /\ Fresh(g, generatedInterface')
    BY <2>2 DEF FrameOK, Fresh
  <2>6. \A i \in 1..(n + 1) : i # n + 1 => i \in 1..n
    BY <2>1
  <2>7. /\ \A i \in 1..(n + 1) : FrameOK(stack'[i])
        /\ \A i \in 1..(n + 1) : i # n + 1 => stack'[i].pc \in {"write", "solve"}
        /\ Fresh(stack'[n + 1], generatedInterface')
    BY <2>3, <2>4, <2>5, <2>6
  <2> QED
    BY <2>3, <2>4, <2>7, Zenon DEF BinderInv, CacheOK, FrameOK, Fresh, TopLevelTx, Hosts
<1> QED
  BY <1>1, <1>2 DEF SolveTxDependency, Construct

\* getService returns a binder of a permitted host.
LEMMA BindBinder ==
  ASSUME TypeOK, BinderInv, stack # <<>>, NEW b \in BinderOrNull, Bind(b),
         TopLevelTx(Top.tx) => b.host \in Hosts(Top.tx)
  PROVE  BinderInv'
<1> DEFINE f == [Top EXCEPT !.binder = b, !.pc = "transact"]
<1>1. Top \in FrameSet /\ Top.tx \in Tx
  BY TopLemma DEF TypeOK, FrameSet
<1>2. f \in FrameSet /\ f.tx = Top.tx /\ f.binder = b /\ f.pc = "transact"
  BY <1>1 DEF FrameSet, PC
<1>3. stack' = SetTop(f)
      /\ generatedInterface' = [generatedInterface EXCEPT ![ifaceOf[Top.tx]] = b]
  BY DEF Bind
<1>4. CacheOK(generatedInterface')
  <2>1. CacheOK(generatedInterface) /\ generatedInterface \in [Iface -> BinderOrNull]
    BY DEF BinderInv, TypeOK
  <2> SUFFICES ASSUME NEW t \in Tx, TopLevelTx(t), generatedInterface'[ifaceOf[t]] # NoBinder
               PROVE  generatedInterface'[ifaceOf[t]].host \in Hosts(t)
    BY DEF CacheOK
  <2>2. CASE ifaceOf[t] = ifaceOf[Top.tx]
    <3>1. serviceOf[t] = serviceOf[Top.tx]
      BY <1>1, <2>2, DependencyAssumption
    <3>2. TopLevelTx(Top.tx) /\ Hosts(t) = Hosts(Top.tx)
      BY <2>2, <3>1 DEF TopLevelTx, Hosts
    <3>3. generatedInterface'[ifaceOf[t]] = b
      BY <1>3, <2>1, <2>2, TxAssumption
    <3> QED BY <3>2, <3>3
  <2>3. CASE ifaceOf[t] # ifaceOf[Top.tx]
    BY <1>3, <2>1, <2>3, TxAssumption DEF CacheOK
  <2> QED BY <2>2, <2>3
<1> HIDE DEF f
<1>5. FrameOK(f) /\ Fresh(f, generatedInterface')
  BY <1>2 DEF FrameOK, Fresh
<1> QED
  BY <1>2, <1>3, <1>4, <1>5, RetopBinder

\* Executor::run is over.
LEMMA IssueBinder ==
  ASSUME TypeOK, BinderInv, stack # <<>>, NEW b \in BinderOrNull,
         stack' = IF Top.purpose = "loop" THEN <<>>
                  ELSE SetTop([Top EXCEPT !.pc = "reply", !.reply = b]),
         UNCHANGED generatedInterface
  PROVE  BinderInv'
<1> DEFINE f == [Top EXCEPT !.pc = "reply", !.reply = b]
<1>1. CacheOK(generatedInterface')
  BY DEF BinderInv
<1>2. CASE Top.purpose = "loop"
  <2>1. stack' = <<>> /\ Len(stack') = 0
    BY <1>2
  <2> QED BY <1>1, <2>1 DEF BinderInv, CacheOK, FrameOK, Fresh
<1>3. CASE Top.purpose # "loop"
  <2>1. Top \in FrameSet
    BY TopLemma DEF TypeOK
  <2>2. f \in FrameSet /\ f.pc = "reply"
    BY <2>1 DEF FrameSet, PC
  <2>3. stack' = SetTop(f)
    BY <1>3
  <2> HIDE DEF f
  <2>4. FrameOK(f) /\ Fresh(f, generatedInterface')
    BY <2>2 DEF FrameOK, Fresh
  <2> QED BY <1>1, <2>2, <2>3, <2>4, RetopBinder
<1> QED
  BY <1>2, <1>3

LEMMA GiveUpBinder ==
  ASSUME TypeOK, BinderInv, stack # <<>>, GiveUp
  PROVE  BinderInv'
<1>1. Top \in FrameSet
  BY TopLemma DEF TypeOK
<1>2. /\ Top.reply \in BinderOrNull
      /\ [Top EXCEPT !.pc = "reply"] = [Top EXCEPT !.pc = "reply", !.reply = Top.reply]
  BY <1>1 DEF FrameSet
<1> QED
  BY <1>2, IssueBinder DEF GiveUp

\* A reply is read: the frame below, if any, waits for a binder or for nothing.
LEMMA ReadBinder ==
  ASSUME TypeOK, LoopAtBottom, BinderInv, ReadReply
  PROVE  BinderInv'
<1> DEFINE n == Len(stack) - 1
           below == SubSeq(stack, 1, Len(stack) - 1)
<1>1. /\ stack # <<>> /\ Top.pc = "reply" /\ UNCHANGED generatedInterface
      /\ stack \in Seq(FrameSet)
  BY DEF ReadReply, At, TypeOK
<1>2. /\ below \in Seq(FrameSet) /\ Len(below) = n /\ n \in Nat /\ Len(stack) = n + 1
      /\ \A i \in 1..n : below[i] = stack[i]
  BY <1>1, TopLemma
<1>3. \A i \in 1..n : /\ stack[i].pc \in {"write", "solve"} /\ FrameOK(stack[i])
                      /\ stack[i] \in FrameSet
  <2>1. \A i \in 1..n : i \in 1..Len(stack) /\ i # Len(stack)
    <3>1. n \in Nat /\ Len(stack) = n + 1
      BY <1>2
    <3> HIDE DEF n
    <3> QED BY <3>1
  <2>2. \A i \in 1..Len(stack) : stack[i] \in FrameSet
    BY <1>1
  <2> QED BY <2>1, <2>2 DEF BinderInv
<1>4. /\ Len(stack') = n
      /\ \A i \in 1..n : stack'[i].tx = stack[i].tx /\ stack'[i].pc = stack[i].pc
  <2>1. CASE stack' = below
    BY <1>2, <2>1
  <2>2. CASE /\ Top.purpose = "interface"
             /\ stack' = [below EXCEPT ![Len(below)].binder = Top.reply]
    <3>1. n # 0
      BY <1>1, <1>2, <2>2 DEF LoopAtBottom, Top
    <3> DEFINE g == [below[n] EXCEPT !.binder = Top.reply]
    <3>2. g.tx = stack[n].tx /\ g.pc = stack[n].pc /\ g \in FrameSet
      <4>1. Top.reply \in BinderOrNull
        BY <1>1, TopLemma DEF FrameSet
      <4> QED BY <1>2, <1>3, <3>1, <4>1, SMTT(30) DEF FrameSet
    <3>3. stack' = [below EXCEPT ![n] = g]
      BY <1>2, <2>2
    <3> HIDE DEF g, below
    <3> QED BY <1>2, <3>1, <3>2, <3>3
  <2> QED BY <2>1, <2>2 DEF ReadReply
<1> HIDE DEF below
<1>5. /\ \A i \in 1..n : FrameOK(stack'[i]) /\ stack'[i].pc \in {"write", "solve"}
      /\ CacheOK(generatedInterface')
  BY <1>1, <1>3, <1>4 DEF FrameOK, BinderInv
<1>6. stack' # <<>> => n \in 1..n /\ Fresh(stack'[n], generatedInterface')
  <2>1. n = 0 => stack' = <<>>
    <3>1. stack' = SubSeq(stack, 1, Len(stack) - 1)
            \/ Top.purpose = "interface"
      BY DEF ReadReply
    <3>2. n = 0 => Top.purpose = "loop"
      BY <1>1, <1>2 DEF LoopAtBottom, Top
    <3> QED BY <1>1, <1>2, <3>1, <3>2
  <2>2. n # 0 => stack'[n].pc \in {"write", "solve"} /\ n \in 1..n
    BY <1>2, <1>5
  <2> HIDE DEF n
  <2> QED BY <2>1, <2>2 DEF Fresh
<1> HIDE DEF n
<1> QED
  BY <1>4, <1>5, <1>6, Zenon DEF BinderInv, CacheOK, FrameOK, Fresh, TopLevelTx, Hosts

\* A crash leaves every binder where it is, and with its host.
LEMMA CrashBinder ==
  ASSUME TypeOK, TypeOK', BinderInv, NEW s \in Service, Crash(s)
  PROVE  BinderInv'
<1> DEFINE Die(b) == IF b # NoBinder /\ b.host = s THEN [b EXCEPT !.alive = FALSE] ELSE b
           n == Len(stack)
<1>1. ASSUME NEW b \in BinderOrNull
      PROVE  /\ Die(b) = NoBinder <=> b = NoBinder
             /\ b # NoBinder => Die(b).host = b.host
  <2>1. CASE b = NoBinder
    BY <2>1
  <2>2. CASE b # NoBinder
    <3>1. b \in Handle /\ Die(b) \in Handle /\ Die(b).host = b.host
      BY <2>2 DEF BinderOrNull, Handle
    <3>2. NoBinder \notin Handle
      BY HostAssumption DEF Handle
    <3> HIDE DEF Die
    <3> QED BY <3>1, <3>2
  <2> QED BY <2>1, <2>2
<1>2. \A i \in Iface : /\ generatedInterface[i] \in BinderOrNull
                       /\ generatedInterface'[i] = Die(generatedInterface[i])
  BY DEF Crash, TypeOK
<1>3. \A t \in Tx : ifaceOf[t] \in Iface
  BY TxAssumption
<1>4. CacheOK(generatedInterface')
  <2> HIDE DEF Die
  <2>1. CacheOK(generatedInterface)
    BY DEF BinderInv
  <2>2. ASSUME NEW t \in Tx, TopLevelTx(t), generatedInterface'[ifaceOf[t]] # NoBinder
        PROVE  generatedInterface'[ifaceOf[t]].host \in Hosts(t)
    BY <1>1, <1>2, <1>3, <2>1, <2>2 DEF CacheOK
  <2> QED BY <2>2 DEF CacheOK
<1>5. /\ n \in Nat /\ DOMAIN stack = 1..n /\ \A i \in 1..n : stack[i] \in FrameSet
      /\ (stack = <<>>) <=> (n = 0)
  BY DEF TypeOK
<1>6. stack' = [i \in 1..n |-> [stack[i] EXCEPT !.binder = Die(@), !.reply = Die(@)]]
  BY <1>5 DEF Crash
<1>7. Len(stack') = n /\ (stack' # <<>> => n # 0)
  <2>1. stack' \in Seq(FrameSet) /\ DOMAIN stack' = 1..n
    BY <1>6 DEF TypeOK
  <2> HIDE DEF n
  <2> QED BY <1>5, <2>1
<1>8. \A i \in 1..n : /\ stack'[i].tx = stack[i].tx /\ stack'[i].pc = stack[i].pc
                      /\ stack'[i].binder = Die(stack[i].binder)
  <2> HIDE DEF Die, n
  <2> QED BY <1>5, <1>6 DEF FrameSet
<1> HIDE DEF n
<1>9. ASSUME NEW i \in 1..n
      PROVE  FrameOK(stack'[i])
  <2>1. FrameOK(stack[i])
    BY DEF BinderInv, n
  <2>2. CASE stack[i].binder = NoBinder
    BY <1>8, <2>1, <2>2 DEF FrameOK
  <2>3. CASE stack[i].binder # NoBinder
    <3>1. stack[i].binder \in BinderOrNull
      BY <1>5 DEF FrameSet
    <3> HIDE DEF Die
    <3>2. stack'[i].binder.host = stack[i].binder.host
      BY <1>1, <1>8, <2>3, <3>1
    <3> QED BY <1>8, <2>1, <3>2 DEF FrameOK
  <2> QED BY <2>2, <2>3
<1>10. \A i \in 1..n : i # n => stack'[i].pc \in {"write", "solve"}
  BY <1>8 DEF BinderInv, n
<1>11. n # 0 => Fresh(stack'[n], generatedInterface')
  <2> SUFFICES ASSUME n # 0, stack[n].pc \in {"generate", "retry"}
               PROVE  generatedInterface'[ifaceOf[stack[n].tx]] = NoBinder
    <3>1. n \in 1..n <=> n # 0
      BY <1>5
    <3> QED BY <1>8, <3>1 DEF Fresh
  <2>1. stack[n].tx \in Tx
    BY <1>5 DEF FrameSet
  <2>2. generatedInterface[ifaceOf[stack[n].tx]] = NoBinder
    BY <1>5 DEF BinderInv, Fresh, n
  <2> HIDE DEF Die
  <2> QED BY <1>1, <1>2, <1>3, <2>1, <2>2
<1> QED
  BY <1>4, <1>7, <1>9, <1>10, <1>11, Zenon
     DEF BinderInv, CacheOK, FrameOK, Fresh, TopLevelTx, Hosts

\* getService at work on the interface of the top frame.
LEMMA LookUpFacts ==
  ASSUME TypeOK, BinderInv, stack # <<>>
  PROVE  /\ Top \in FrameSet /\ Top.tx \in Tx /\ ifaceOf[Top.tx] \in Iface
         /\ FrameOK(Top) /\ Fresh(Top, generatedInterface)
         /\ Cached \in BinderOrNull
<1>1. Top \in FrameSet /\ Len(stack) \in 1..Len(stack)
  BY TopLemma DEF TypeOK
<1>2. Top.tx \in Tx /\ ifaceOf[Top.tx] \in Iface
  BY <1>1, TxAssumption DEF FrameSet
<1>3. FrameOK(Top) /\ Fresh(Top, generatedInterface)
  BY <1>1 DEF BinderInv, Top
<1> QED
  BY <1>1, <1>2, <1>3 DEF Cached, TypeOK

LEMMA BinderStep == CallInv /\ BinderInv /\ [Next]_vars => BinderInv'
<1> SUFFICES ASSUME CallInv, BinderInv, [Next]_vars PROVE BinderInv'
  OBVIOUS
<1>0. TypeOK /\ LoopAtBottom /\ TypeOK' /\ CacheOK(generatedInterface)
  BY StepShape DEF CallInv, BinderInv
\* A step of the top frame to a frame with another pc that leaves the cache.
<1>r. ASSUME stack # <<>>, NEW f \in FrameSet, stack' = SetTop(f),
             f.pc \in {"write", "getService", "reply"}, UNCHANGED generatedInterface
      PROVE  BinderInv'
  <2>1. FrameOK(f) /\ Fresh(f, generatedInterface') /\ CacheOK(generatedInterface')
    BY <1>0, <1>r DEF FrameOK, Fresh
  <2> QED BY <1>0, <1>r, <2>1, RetopBinder
<1>1. ASSUME NEW t \in Target, GenerateTx(t)
      PROVE  BinderInv'
  <2>1. t \in Tx /\ "loop" \in Purpose
    BY TxAssumption DEF Purpose
  <2>2. Frame(t, "loop").pc = "write"
    BY <2>1, FrameLemma
  <2>3. stack' = <<Frame(t, "loop")>> /\ generatedInterface' = generatedInterface
    BY <1>1 DEF GenerateTx
  <2>4. Len(stack') = 1 /\ stack'[1].pc = "write"
    BY <2>2, <2>3
  <2> QED BY <1>0, <2>3, <2>4 DEF BinderInv, CacheOK, FrameOK, Fresh
<1>2. CASE WriteManually
  <2>1. /\ stack # <<>> /\ Top.pc = "write" /\ stack' = SetTop(Written)
        /\ UNCHANGED generatedInterface
    BY <1>2 DEF WriteManually, At
  <2>2. Written \in FrameSet /\ Written.pc = "write"
    BY <1>0, <2>1, LookUpFacts DEF FrameSet, Written
  <2> QED BY <1>r, <2>1, <2>2
<1>3. CASE Complete
  <2> DEFINE f == [Top EXCEPT !.pc = "getService"]
  <2>1. stack # <<>> /\ stack' = SetTop(f) /\ UNCHANGED generatedInterface
    BY <1>3 DEF Complete, At
  <2>2. f \in FrameSet /\ f.pc = "getService"
    BY <1>0, <2>1, LookUpFacts DEF FrameSet, PC
  <2> HIDE DEF f
  <2> QED BY <1>r, <2>1, <2>2
<1>4. ASSUME NEW dep, WriteFromTx(dep) \/ WriteFromStruct(dep)
      PROVE  BinderInv'
  <2>1. stack # <<>> /\ Top.pc = "write"
    BY <1>4 DEF WriteFromTx, WriteFromStruct, At
  <2>2. Written \in FrameSet /\ Written.pc = "write" /\ FrameOK(Written)
    BY <1>0, <2>1, LookUpFacts DEF FrameSet, Written, FrameOK
  <2>3. ASSUME NEW name, NEW p \in Purpose, SolveTxDependency(Written, name, p)
        PROVE  BinderInv'
    BY <1>0, <2>1, <2>2, <2>3, SolveBinder
  <2>4. {"binder", "value", "struct"} \subseteq Purpose
    BY DEF Purpose
  <2>5. CASE WriteFromTx(dep)
    <3>1. \E p \in {"binder", "value"} : SolveTxDependency(Written, dep.name, p)
      BY <2>5 DEF WriteFromTx
    <3> QED BY <2>3, <2>4, <3>1
  <2>6. CASE WriteFromStruct(dep)
    <3>1. ProcessEnds \/ \E name \in structDeps[dep.name] : SolveTxDependency(Written, name, "struct")
      BY <2>6 DEF WriteFromStruct
    <3> QED BY <2>3, <2>4, <3>1, EndBinder
  <2> QED BY <1>4, <2>5, <2>6
<1>5. ASSUME NEW name, SolveInterface(name)
      PROVE  BinderInv'
  <2> DEFINE f == [Top EXCEPT !.pc = "solve"]
  <2>1. stack # <<>> /\ ~TopLevelTx(Top.tx) /\ SolveTxDependency(f, name, "interface")
    BY <1>5 DEF SolveInterface, At, TopLevel
  <2>2. f \in FrameSet /\ f.pc = "solve" /\ f.tx = Top.tx
    BY <1>0, <2>1, LookUpFacts DEF FrameSet, PC
  <2>3. "interface" \in Purpose
    BY DEF Purpose
  <2> HIDE DEF f
  <2>4. FrameOK(f)
    BY <2>1, <2>2 DEF FrameOK
  <2> QED BY <1>0, <2>1, <2>2, <2>3, <2>4, SolveBinder
<1>6. CASE LookUp
  <2>1. stack # <<>>
    BY <1>6 DEF LookUp, At
  <2>2. CASE /\ Cached # NoBinder
             /\ stack' = SetTop([Top EXCEPT !.binder = Cached, !.pc = "transact"])
             /\ UNCHANGED generatedInterface
    <3> DEFINE f == [Top EXCEPT !.binder = Cached, !.pc = "transact"]
    <3>1. f \in FrameSet /\ f.pc = "transact" /\ f.tx = Top.tx /\ f.binder = Cached
      BY <1>0, <2>1, LookUpFacts DEF FrameSet, PC
    <3>2. stack' = SetTop(f)
      BY <2>2
    <3> HIDE DEF f
    <3>3. FrameOK(f)
      BY <1>0, <2>1, <2>2, <3>1, LookUpFacts DEF FrameOK, CacheOK, Cached
    <3>4. Fresh(f, generatedInterface') /\ CacheOK(generatedInterface')
      BY <1>0, <2>2, <3>1 DEF Fresh
    <3> QED BY <1>0, <2>1, <3>1, <3>2, <3>3, <3>4, RetopBinder
  <2>3. CASE /\ stack' = SetTop([Top EXCEPT !.pc = "generate"])
             /\ generatedInterface' = [generatedInterface EXCEPT ![ifaceOf[Top.tx]] = NoBinder]
    <3> DEFINE f == [Top EXCEPT !.pc = "generate"]
    <3>1. f \in FrameSet /\ f.pc = "generate" /\ f.tx = Top.tx
      BY <1>0, <2>1, LookUpFacts DEF FrameSet, PC
    <3>2. stack' = SetTop(f)
      BY <2>3
    <3>3. generatedInterface \in [Iface -> BinderOrNull]
      BY <1>0 DEF TypeOK
    <3> HIDE DEF f
    <3>4. FrameOK(f) /\ Fresh(f, generatedInterface')
      BY <1>0, <2>1, <2>3, <3>1, <3>3, LookUpFacts DEF FrameOK, Fresh
    <3>5. CacheOK(generatedInterface')
      BY <1>0, <2>3, <3>3, TxAssumption DEF CacheOK
    <3> QED BY <1>0, <2>1, <3>1, <3>2, <3>4, <3>5, RetopBinder
  <2> QED BY <1>6, <2>2, <2>3 DEF LookUp
<1>b. \A s \in Service \cup {Fuzzer} : Alive(s) \in BinderOrNull /\ Alive(s).host = s
  BY DEF Alive, BinderOrNull, Handle
<1>s. ASSUME stack # <<>>, serviceOf[Top.tx] \in up, Bind(Alive(serviceOf[Top.tx]))
      PROVE  BinderInv'
  <2>1. serviceOf[Top.tx] \in Service
    BY <1>0, <1>s DEF TypeOK
  <2>2. Alive(serviceOf[Top.tx]).host \in Hosts(Top.tx)
    BY <1>b, <2>1 DEF Hosts
  <2> QED BY <1>0, <1>b, <1>s, <2>1, <2>2, BindBinder
<1>m. ASSUME stack # <<>>, GenerateManually,
             TopLevelTx(Top.tx) => ifaceOf[Top.tx] \in HarnessOnly
      PROVE  BinderInv'
  <2>1. TopLevelTx(Top.tx) => Alive(Fuzzer).host \in Hosts(Top.tx)
    BY <1>b, <1>m DEF Hosts
  <2>2. CASE Bind(Alive(Fuzzer))
    BY <1>0, <1>b, <1>m, <2>1, <2>2, BindBinder
  <2>3. CASE GiveUp
    BY <1>0, <1>m, <2>3, GiveUpBinder
  <2> QED BY <1>m, <2>2, <2>3 DEF GenerateManually
<1>7. CASE CheckService
  <2>1. stack # <<>> /\ Top.pc = "generate" /\ TopLevelTx(Top.tx)
    BY <1>7 DEF CheckService, At, TopLevel
  <2>2. CASE serviceOf[Top.tx] \in up /\ Bind(Alive(serviceOf[Top.tx]))
    BY <1>s, <2>1, <2>2
  <2>3. CASE ifaceOf[Top.tx] \in HarnessOnly /\ GenerateManually
    BY <1>m, <2>1, <2>3
  <2>4. CASE stack' = SetTop([Top EXCEPT !.pc = "retry"]) /\ UNCHANGED generatedInterface
    <3> DEFINE f == [Top EXCEPT !.pc = "retry"]
    <3>1. f \in FrameSet /\ f.pc = "retry" /\ f.tx = Top.tx
      BY <1>0, <2>1, LookUpFacts DEF FrameSet, PC
    <3>2. stack' = SetTop(f)
      BY <2>4
    <3> HIDE DEF f
    <3>3. FrameOK(f) /\ Fresh(f, generatedInterface') /\ CacheOK(generatedInterface')
      BY <1>0, <2>1, <2>4, <3>1, LookUpFacts DEF FrameOK, Fresh
    <3> QED BY <1>0, <2>1, <3>1, <3>2, <3>3, RetopBinder
  <2> QED BY <1>7, <2>2, <2>3, <2>4 DEF CheckService
<1>8. CASE CheckServiceAgain
  <2>1. stack # <<>>
    BY <1>8 DEF CheckServiceAgain, At
  <2>2. CASE GiveUp
    BY <1>0, <2>1, <2>2, GiveUpBinder
  <2> QED BY <1>8, <1>s, <2>1, <2>2 DEF CheckServiceAgain
<1>9. CASE GenerateInterface
  BY <1>9, <1>m DEF GenerateInterface, At, TopLevel
<1>10. CASE InterfaceSolved
  <2>1. stack # <<>> /\ ~TopLevelTx(Top.tx) /\ Top.binder \in BinderOrNull
    BY <1>0, <1>10, LookUpFacts DEF InterfaceSolved, At, FrameOK, FrameSet
  <2> QED BY <1>0, <1>10, <2>1, BindBinder, GiveUpBinder DEF InterfaceSolved
<1>11. CASE Transact
  <2>1. stack # <<>> /\ UNCHANGED generatedInterface
    BY <1>11 DEF Transact, At
  <2>2. PICK b \in BinderOrNull :
          stack' = IF Top.purpose = "loop" THEN <<>>
                   ELSE SetTop([Top EXCEPT !.pc = "reply", !.reply = b])
    <3>1. Top.binder \in BinderOrNull /\ NoBinder \in BinderOrNull
      BY <1>0, <2>1, LookUpFacts DEF BinderOrNull, FrameSet
    <3> QED BY <1>11, <3>1 DEF Transact
  <2> QED BY <1>0, <2>1, <2>2, IssueBinder
<1>12. CASE ReadReply
  BY <1>0, <1>12, ReadBinder
<1>13. ASSUME NEW s \in Service, Crash(s)
       PROVE  BinderInv'
  BY <1>0, <1>13, CrashBinder
<1>14. CASE UNCHANGED <<stack, generatedInterface>>
  BY <1>14 DEF BinderInv, CacheOK, FrameOK, Fresh, TopLevelTx, Hosts
<1>15. CASE Kill
  BY <1>15, EndBinder DEF Kill
<1>16. CASE Solve
  BY <1>4, <1>5, <1>16 DEF Solve
<1>17. ((\E s \in Service : Register(s)) \/ Start \/ UNCHANGED vars)
          => UNCHANGED <<stack, generatedInterface>>
  BY DEF Register, Start, vars
<1> QED
  BY <1>1, <1>2, <1>3, <1>6, <1>7, <1>8, <1>9, <1>10, <1>11, <1>12, <1>13, <1>14,
     <1>15, <1>16, <1>17 DEF Next, Work, Environment

LEMMA BinderInvariant == Spec => [](CallInv /\ BinderInv)
BY CallInit, CallStep, BinderInit, BinderStep, PTL DEF Spec

\* However deep the recursion and however often services crash and return, a
\* transaction of a registered service is sent to that service only.
THEOREM SentToItsServiceInvariant == Spec => []SentToItsService
<1>1. CallInv /\ BinderInv => SentToItsService
  <2> SUFFICES ASSUME CallInv, BinderInv PROVE SentToItsService
    OBVIOUS
  <2>1. DOMAIN stack = 1..Len(stack)
    BY DEF CallInv, TypeOK
  <2>2. \A i \in 1..Len(stack) : FrameOK(stack[i])
    BY DEF BinderInv
  <2> QED BY <2>1, <2>2, Zenon DEF FrameOK, SentToItsService, Hosts
<1> QED
  BY <1>1, BinderInvariant, PTL
=============================================================================
