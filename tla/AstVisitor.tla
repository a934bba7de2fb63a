----------------------------- MODULE AstVisitor -----------------------------
(***************************************************************************)
(* The AST visitor of the interface model extractor                        *)
(* (post-process/ast_visitor.py): it walks the tree that the clang plugin  *)
(* has written for one transaction and tells a parcel manager what it      *)
(* finds.  There is one operator for each walk_* method; it takes the      *)
(* manager and a node, and returns the manager with what the method        *)
(* returns: [m, e] for an expression, [m, p] for a statement.              *)
(*                                                                         *)
(* A node is [k, n, t, v, o, s, b, a]: its kind, name, type, value,        *)
(* operator or function, the site where it reads or writes a parcel, the   *)
(* object of a member or a call (a sequence of at most one node), and its  *)
(* children.  Names, types and values are those of ParcelManager.          *)
(*                                                                         *)
(* An expression is a leaf, or an opcode with operands.  The opcode "cond" *)
(* is an argument with a value for each outcome of a condition.            *)
(***************************************************************************)
EXTENDS ParcelManager

Leaf(name, type) ==
  [op |-> "leaf", name |-> name, type |-> type, value |-> NoValue, size |-> NoName,
   st |-> COMMON, site |-> NoSite, args |-> <<>>]
Operation(op, args) == [Leaf(NoName, <<"none">>) EXCEPT !.op = op, !.args = args]

Result(m, e) == [m |-> m, e |-> e]
GiveUp(m)    == Result(Exit(m), Leaf(NoName, <<"none">>))

Fresh(m, type, value) ==
  LET after == AllocVariable(m)
  IN Result(after, [Leaf(Allocated(after), type) EXCEPT !.value = value])

Integer    == <<"int">>
Literal    == <<"IntegerLiteral">>
SizeOf     == <<"sizeof">>        \* an IntegerLiteral with the attribute sizeof
BinderType == <<"IBinder">>
Counter    == <<"unsigned int">>
Integers   == {Integer, <<"long">>, Counter, <<"char">>}
BasicTypes == Integers \cup {<<"bool">>, <<"size_t">>, <<"float">>}
IsLiteral(e)     == e.type \in {Literal, SizeOf}
IsParcel(e)      == IsLeaf(e) /\ e.type = <<"Parcel">>
IsAnImplicit(e)  == e.name # NoName /\ e.name[1] = "implicit"
Put(m, e, st, site) == AddVariable(m, [e EXCEPT !.st = st, !.site = site])
PutCommon(m, e)     == AddVariable(m, [e EXCEPT !.st = COMMON])

\* The last name that a variable was given by add_variable, as the code counts.
Latest(m, name) ==
  IF CountOf(m, name) > 1 THEN Numbered(name, CountOf(m, name) - 1) ELSE name

Constraint(m, cond, probability) ==
  [name |-> AllocConstraint(m), cond |-> cond, status |-> TRUE,
   probability |-> probability]
Guarded(m, c) == Push(AddConstraint(m, c), c.name)

\* Visit is all of the recursion: the value of an expression, the path of a block.
RECURSIVE Visit(_, _)
Info(m, n)         == Visit(m, n)
WalkCompound(m, n) == Visit(m, n)

-----------------------------------------------------------------------------
\* Names, literals and casts.

WalkDeclRef(m, n) == Result(m, Leaf(n.n, n.t))

WalkLiteral(m, n) ==
  CASE n.k = "String"   -> Fresh(m, <<"string">>, n.v)
    [] n.k = "NULL"     -> Fresh(m, <<"*", "void">>, Null)
    [] n.k = "Floating" -> Fresh(m, <<"FloatingLiteral">>, n.v)
    [] n.k = "Bool"     -> Fresh(m, <<"bool">>, n.v)
    [] n.k = "This"     -> Fresh(m, n.t, NoValue)

WalkInteger(m, n) ==
  IF n.n # NoName THEN Result(m, [Leaf(n.n, n.t) EXCEPT !.value = n.v])
                  ELSE Fresh(m, Literal, n.v)

WalkSizeof(m, n) ==
  IF n.n # NoName THEN Result(m, Leaf(<<"sizeof">> \o n.n, Counter))
                  ELSE Fresh(m, SizeOf, n.v)

\* walk_memberexpr: the object's name, then the member's, qualified (Qualifier)
\* as the source has it.
Qualifier == "::"
WalkMemberExpr(m, n) ==
  IF n.b = <<>> THEN Result(m, Leaf(n.n, n.t))
  ELSE LET w   == Info(m, n.b[1])
           obj == IF IsLeaf(w.e) THEN w.e ELSE w.e.args[1]
       IN Result(w.m, Leaf(obj.name \o n.n,
                           IF n.o = "c_str" \/ n.b[1].k = "Construct" THEN obj.type
                                                                      ELSE n.t))

\* get_variable_info strips the qualifiers of the parts of a member's name.
Unqualified(e) == [e EXCEPT !.name = SelectSeq(@, LAMBDA part : part # Qualifier)]

WalkUnaryOperator(m, n) ==
  LET w == Info(m, n.a[1])
      e == CASE n.o = "*" /\ w.e.type[1] = "*" -> [w.e EXCEPT !.type = Tail(@)]
             [] n.o = "-" /\ w.e.type = Literal -> [w.e EXCEPT !.value = Const(-@[2])]
             [] OTHER -> w.e
  IN IF n.a = <<>> THEN (IF n.o = "*" THEN Fresh(m, <<"this">>, NoValue) ELSE GiveUp(m))
     ELSE Result(w.m, Operation(n.o, <<e>>))

\* A cast keeps the type of what is not a basic value, and gives its own to what is.
KeepsType(kind, e) ==
  \/ ~IsLeaf(e)
  \/ kind \in BasicTypes \ {<<"bool">>} /\ e.type \notin BasicTypes
  \/ kind \in {BinderType, <<"*", "void">>, <<"Parcelable">>, <<"IInterface">>}
  \/ e.type \in {Literal, SizeOf, <<"class">>, <<"struct">>, BinderType, <<"Parcel">>}

WalkImplicitCast(m, n) ==
  IF n.a = <<>> THEN Fresh(m, n.t, NoValue)
  ELSE LET w == Info(m, n.a[1])
       IN IF KeepsType(n.t, w.e) \/ w.e.type[1] = "[]" THEN w
          ELSE [w EXCEPT !.e.type = n.t]

WalkStaticCast(m, n) ==
  LET w == Info(m, n.a[1])
  IN IF KeepsType(n.t, w.e) \/ n.t \in {<<"bool">>, <<"char">>, <<"size_t">>} THEN w
     ELSE Result(SetType(w.m, w.e.name, n.t), [w.e EXCEPT !.type = n.t])

WalkCStyleCast(m, n) ==
  LET w == Info(m, n.a[1])
      e == IF IsLeaf(w.e) THEN w.e ELSE w.e.args[1]
  IN IF n.t \in {<<"long">>, Integer, Counter, <<"bool">>} THEN Result(w.m, e)
     ELSE Result(SetType(w.m, e.name, n.t), [e EXCEPT !.type = n.t])

WalkSubscript(m, n) ==
  LET l == Info(m, n.a[1])
      r == Info(l.m, n.a[2])
  IN Result(r.m, Leaf(l.e.name \o r.e.name,
                      IF l.e.type[1] \in {"[]", "*"} THEN Tail(l.e.type) ELSE l.e.type))

\* The expressions of a sequence of nodes, in their order: [m, es].
RECURSIVE InfoOfAll(_, _)
InfoOfAll(m, nodes) ==
  IF nodes = <<>> THEN [m |-> m, es |-> <<>>]
  ELSE LET w    == Info(m, Head(nodes))
           rest == InfoOfAll(w.m, Tail(nodes))
       IN [m |-> rest.m, es |-> <<w.e>> \o rest.es]

-----------------------------------------------------------------------------
\* update_var_assgin.  A value that was read gets the name of the variable it is
\* assigned to; any other value is recorded with the variable.

TypeStays(lhs, rhs) ==
  \/ rhs.type = <<"fd">> \/ lhs.type = <<"size_t">>
  \/ lhs.type \in Integers \cup {<<"bool">>, BinderType}
  \/ rhs.type = <<"Function">>
  \/ lhs.type = <<"*">> \o rhs.type

UpdateVarAssign(m, lhs, rhs) ==
  LET read    == IsVariable(m, rhs.name) /\ InParcel(VarNamed(m, rhs.name).st)
      new     == IF IsAnImplicit(rhs) THEN NewName(m, lhs.name) ELSE rhs.name
      renamed == IF IsAnImplicit(rhs) THEN Rename(m, rhs.name, lhs.name) ELSE m
      valued  == IF rhs.value = NoValue THEN m ELSE SetValue(m, lhs.name, rhs.value)
      typed   == IF lhs.type = BinderType THEN SetType(valued, lhs.name, rhs.type) ELSE valued
  IN CASE rhs.value = Null -> m
       [] rhs.value # Null /\ read ->
            IF TypeStays(lhs, rhs) THEN renamed ELSE SetType(renamed, new, lhs.type)
       [] OTHER ->
            PutCommon(typed,
              [lhs EXCEPT !.value = IF rhs.value = NoValue THEN @ ELSE rhs.value,
                          !.type  = IF @ = BinderType THEN rhs.type ELSE @])

WalkOperatorCall(m, n) ==
  LET l == Info(m, n.a[1])
      r == Info(l.m, n.a[2])
  IN CASE n.o = "[]"         -> Result(r.m, Leaf(l.e.name \o r.e.name, n.t))
       [] n.o \in {"*", "->"} -> l
       [] n.o = "++"         -> Result(l.m, Operation("++", <<l.e>>))
       [] n.o \in {"operator==", "operator!="} ->
            Result(r.m, Operation(n.o, <<l.e, r.e>>))
       [] n.o = "="          -> Result(UpdateVarAssign(r.m, l.e, r.e), l.e)
       [] n.o = "log"        -> Fresh(m, Integer, NoValue)
       [] OTHER              -> GiveUp(m)

WalkVarAssign(m, n) ==
  LET lhs  == Leaf(n.n, n.t)
      w    == Info(m, n.a[1])
      flag == Fresh(w.m, Integer, NoValue)
      rhs  == CASE n.a[1].k = "DeclRef" -> GiveUp(m)
                [] n.a[1].k = "BinaryOperator" /\ ~IsLeaf(w.e) ->
                     IF w.e.op \in {"!=", "==", "&&", "&"} THEN flag ELSE GiveUp(m)
                [] n.a[1].k = "BinaryOperator" /\ IsLeaf(w.e) ->
                     IF Len(w.e.value) = 3 /\ w.e.value[1] = "+" THEN w ELSE GiveUp(m)
                [] OTHER -> IF IsLeaf(w.e) THEN w ELSE Result(w.m, w.e.args[1])
  IN Result(IF n.a = <<>> \/ rhs.m.exited THEN (IF n.a = <<>> THEN m ELSE rhs.m)
            ELSE UpdateVarAssign(rhs.m, lhs, rhs.e), lhs)

\* An operand: the last variable of the name that it has.
WalkHs(m, n) ==
  LET w == Info(m, n)
  IN IF n.k \in {"OperatorCall", "Construct", "BinaryOperator"} \/ ~IsLeaf(w.e) THEN w
     ELSE [w EXCEPT !.e.name = Latest(w.m, @)]

AsCondition(e) == IF IsLeaf(e) THEN Operation("", <<e>>) ELSE e

AddUnknown(m, e) == IF IsVariable(m, e.name) THEN m ELSE PutCommon(m, e)

WalkBinaryOperator(m, n) ==
  LET l    == WalkHs(m, n.a[1])
      r    == WalkHs(l.m, n.a[2])
      term == Fresh(r.m, l.e.type, <<n.o, l.e.name, r.e.name>>)
  IN CASE n.o = "=" /\ n.a[2].k \in {"Call", "CStyleCast", "ImplicitCast", "StaticCast"} ->
            Result(UpdateVarAssign(r.m, l.e, r.e), l.e)
       [] n.o = "|" /\ l.e.type = Literal /\ r.e.type = Literal ->
            Result(r.m, [Leaf(Numbered(<<"constraint">>, AllocConstraint(r.m)), Literal)
                           EXCEPT !.value = <<"|", l.e.value, r.e.value>>])
       [] n.o \in {"+", "-", "*", "/", "%"} ->
            Result(AddUnknown(AddUnknown(PutCommon(term.m, term.e), l.e), r.e), term.e)
       [] n.o = "&&" ->
            Result(r.m, Operation("&&", <<AsCondition(l.e), AsCondition(r.e)>>))
       [] OTHER -> Result(r.m, Operation(n.o, <<l.e, r.e>>))

-----------------------------------------------------------------------------
\* Conditions in expressions.

\* walk_conditional_operator: both values are walked before the constraint exists.
ConditionOf(m, test, e) ==
  LET zero == Fresh(PutCommon(m, e), Literal, Const(0))
  IN CASE test.k = "DeclRef" ->
            Result(PutCommon(zero.m, zero.e), Operation("!=", <<e, zero.e>>))
       [] test.k \in {"MemberExpr", "ImplicitCast"} -> Result(m, Operation("", <<e>>))
       [] test.k \in {"BinaryOperator", "OperatorCall"} -> Result(m, e)
       [] OTHER -> GiveUp(m)

ValuesOf(cond, yes, n) ==
  LET no == Info(yes.m, n) IN [m |-> no.m, cond |-> cond, yes |-> yes.e, no |-> no.e]
Branches(c, n) == ValuesOf(c.e, Info(c.m, n.a[2]), n.a[3])

WalkConditional(m, n) ==
  LET test == n.a[1]
      w    == IF test.k = "MemberExpr" THEN WalkMemberExpr(m, test) ELSE Info(m, test)
  IN Branches(ConditionOf(w.m, test, w.e), n)

ArgvCond(m, cond) ==
  LET guarded == Guarded(m, Constraint(m, cond, 5))
      yes     == Fresh(guarded, Literal, Const(1))
      no      == Fresh(yes.m, Literal, Const(0))
  IN Result(no.m, Operation("cond", <<yes.e, no.e>>))

\* walk_argv, one argument
ChosenValue(c) ==
  Result(Guarded(c.m, Constraint(c.m, c.cond, 5)), Operation("cond", <<c.yes, c.no>>))

AsArgument(w, kind) ==
  CASE IsLeaf(w.e) -> w
    [] ~IsLeaf(w.e) /\ kind = "UnaryOperator" -> Result(w.m, w.e.args[1])
    [] ~IsLeaf(w.e) /\ kind = "OperatorCall" ->
         IF w.e.op = "operator!=" THEN ArgvCond(w.m, w.e) ELSE GiveUp(w.m)
    [] ~IsLeaf(w.e) /\ kind = "BinaryOperator" ->
         IF w.e.op \in {"==", "!=", ">=", ">"} THEN ArgvCond(w.m, w.e)
         ELSE IF w.e.op \in {"&", "|"} THEN Fresh(w.m, Integer, NoValue)
         ELSE GiveUp(w.m)
    [] ~IsLeaf(w.e) /\ kind = "ImplicitCast" ->
         IF w.e.op \in {"&", "*"} THEN Result(w.m, w.e.args[1]) ELSE ArgvCond(w.m, w.e)
    [] OTHER -> w

Argument(m, n) ==
  IF n.k = "Conditional" THEN ChosenValue(WalkConditional(m, n))
                         ELSE AsArgument(Info(m, n), n.k)

RECURSIVE WalkArgv(_, _)
Following(w, rest) == [m |-> rest.m, es |-> <<w.e>> \o rest.es]
WalkArgv(m, nodes) ==
  IF nodes = <<>> THEN [m |-> m, es |-> <<>>]
  ELSE LET w == Argument(m, Head(nodes)) IN Following(w, WalkArgv(w.m, Tail(nodes)))

\* The arguments of a function that becomes a variable are variables too.
RECURSIVE AddArgv(_, _)
AddArgv(m, es) ==
  IF es = <<>> THEN m
  ELSE AddArgv(IF IsParcel(Head(es)) THEN m ELSE PutCommon(m, Head(es)), Tail(es))

AsFunction(m, es) ==
  LET f == Fresh(m, <<"Function">>, NoValue) IN Result(AddArgv(f.m, es), f.e)

\* walk_cxxconstructexpr: a string or a pointer is its argument; any other object
\* is a function of its arguments.
WalkConstruct(m, n) ==
  LET w       == InfoOfAll(m, n.a)
      parcels == {e.name : e \in {x \in Range(w.es) : IsParcel(x)}}
      st      == (IF <<"data">> \in parcels THEN INPUT ELSE COMMON)
                 + (IF <<"reply">> \in parcels THEN OUTPUT ELSE COMMON)
      odd     == parcels \notin SUBSET {<<"data">>, <<"reply">>}
      f       == AsFunction(w.m, w.es)
  IN CASE odd -> GiveUp(w.m)
       [] ~odd /\ w.es = <<>> /\ n.t # <<"Function">> -> Fresh(w.m, n.t, NoValue)
       [] ~odd /\ Len(w.es) = 1 /\ n.t # <<"Function">> -> Result(w.m, w.es[1])
       [] OTHER -> Result(Put(f.m, f.e, st, n.s), [f.e EXCEPT !.st = st])

-----------------------------------------------------------------------------
\* walk_call, of a method of the parcel: with no, one, two or three arguments.
\* Each returns the variable of what it read, or a new one.

\* The methods of the parcel whose name begins with read or write.
Reads == {"readInt32", "readString16", "readStrongBinder", "readFileDescriptor", "readExceptionCode",
  "readNativeHandle", "readInplace", "readString16Inplace", "read", "readParcelable",
  "readParcelableVector", "readUtf8FromUtf16", "readUniqueFileDescriptor",
  "readNullableStrongBinder", "readBlob", "readParcelFileDescriptor", "readByteVector"}
Writes == {"writeInt32", "writeString16", "writeStrongBinder", "writeNoException", "writeNativeHandle",
  "writeInplace", "write", "writeDupFileDescriptor", "writeParcelable",
  "writeParcelableVector", "writeUtf8AsUtf16", "writeUniqueFileDescriptor",
  "writeNullableParcelable", "writeByteArray", "writeBlob", "writeFileDescriptor",
  "writeParcelFileDescriptor", "writeByteVector"}
Direction(method) == CASE method \in Reads  -> INPUT
                       [] method \in Writes -> OUTPUT
                       [] OTHER             -> COMMON

Descriptor == Leaf(<<"ServiceInterfaceDescriptor">>, <<"class">>)
Exception  == Leaf(<<"mException">>, Integer)
Plain(type) == SelectSeq(type, LAMBDA c : c # "*")

ParcelCall0(m, n, st) ==
  LET e == CASE n.o \in {"dataSize", "dataAvail"} -> Result(m, Leaf(<<n.o>>, n.t))
             [] n.o = "readFileDescriptor" -> Fresh(m, <<"fd">>, NoValue)
             [] n.o \in {"writeNoException", "readExceptionCode"} ->
                  LET status == Fresh(m, <<"Status">>, NoValue)
                  IN Result(PutCommon(status.m, Exception), status.e)
             [] n.o = "readNativeHandle" -> Fresh(m, Plain(n.t), NoValue)
             [] OTHER -> Fresh(m, n.t, NoValue)
  IN Result(Put(e.m, e.e, st, n.s), [e.e EXCEPT !.st = st])

\* The size of what is read in place is a constant, or its argument if that was
\* read, or else what was read last.
ReadInplace(m, n, arg) ==
  LET w    == Fresh(m, <<"*", "void">>, NoValue)
      data == Last(m.active).data
      size == CASE arg.value # NoValue -> arg.value
                [] arg.value = NoValue /\ arg.name \in Range(data) -> arg.name
                [] OTHER -> Last(data)
      type == IF arg.value # NoValue THEN <<"struct">> ELSE w.e.type
      m1   == IF arg.value # NoValue THEN Find(w.m, <<"raw", n.t>>) ELSE w.m
  IN IF arg.value = NoValue /\ arg.name \notin Range(data) /\ data = <<>> THEN GiveUp(m)
     ELSE Result(Put(m1, [w.e EXCEPT !.size = size, !.type = type], INPUT, n.s),
                 Leaf(w.e.name, n.t))

InPlace(m, type, n, st) ==
  LET w == Fresh(m, type, NoValue) IN Result(Put(w.m, w.e, st, n.s), Leaf(w.e.name, n.t))

\* The type that a method's argument is recorded with.
ArgumentType(n, type) ==
  CASE n.o \in {"writeDupFileDescriptor", "writeUniqueFileDescriptor",
                "readUniqueFileDescriptor"} -> <<"fd">>
    [] n.o \in {"read", "write", "readParcelable", "writeParcelable", "readInt32",
                "writeNativeHandle"} -> Plain(type)
    [] OTHER -> type

\* An argument with a value for each outcome is two variables.
PutCond(m, e, st, site) ==
  LET yes == Put(m, e.args[1], st, site)
  IN Pop(Put(SetStatus(yes, Last(yes.activeCons), FALSE), e.args[2], st, site))

ParcelCall1(m, n, st, arg) ==
  CASE n.o \in {"checkInterface", "enforceInterface"} ->
         Result(Put(m, Descriptor, INPUT, n.s), [Descriptor EXCEPT !.st = INPUT])
    [] n.o = "readInplace" -> ReadInplace(m, n, arg)
    [] n.o = "writeInplace" ->
         InPlace(m, IF arg.name # NoName /\ arg.name[1] = "sizeof" THEN <<"struct">>
                    ELSE <<"*", "void">>, n, st)
    [] n.o = "readString16Inplace" -> InPlace(m, <<"*", "char16">>, n, st)
    [] n.o = "resizeOutVector" ->
         LET w == Fresh(m, Integer, NoValue)
         IN Fresh(Put(w.m, [w.e EXCEPT !.name = Append(@, "vector_size")], INPUT, n.s),
                  n.t, NoValue)
    [] OTHER ->
         Fresh(IF arg.op = "cond" THEN PutCond(m, arg, st, n.s)
               ELSE Put(m, [arg EXCEPT !.type = ArgumentType(n, @)], st, n.s),
               n.t, NoValue)

\* read(buffer, size) and write(buffer, size): the size is a constant, a variable, or
\* a product with a sizeof.
SizeTypes == Integers \cup {Literal, <<"size_t">>}
TypeOf(m, name) == IF IsVariable(m, name) THEN VarNamed(m, name).type ELSE <<"none">>
LastSize(m) ==
  LET reply == Last(m.active).reply
      sizes == {i \in DOMAIN reply : TypeOf(m, reply[i]) \in SizeTypes}
  IN IF sizes = {} THEN NoName ELSE reply[CHOOSE i \in sizes : \A j \in sizes : j <= i]

ProductSize(m, l, r, st) ==
  CASE TypeOf(m, l) \in {Literal, SizeOf} /\ TypeOf(m, r) \in {Literal, SizeOf} ->
         IF TypeOf(m, l) = SizeOf THEN r ELSE l
    [] st = OUTPUT -> LastSize(m)
    [] OTHER -> IF TypeOf(m, l) = SizeOf THEN r ELSE l

IsProduct(e) == Len(e.value) = 3 /\ e.value[1] = "*"
ReadWrite(m, n, st, buf, len) ==
  LET size == CASE IsProduct(len) -> ProductSize(m, len.value[2], len.value[3], st)
                [] len.value # NoValue /\ ~IsProduct(len) -> len.value
                [] OTHER -> Latest(m, len.name)
      type == IF IsProduct(len) THEN <<"[]">> \o Plain(SelectSeq(buf.type, LAMBDA c : c # "[]"))
              ELSE buf.type
      m1   == IF Last(buf.type) = "struct" THEN Find(m, <<"raw", Last(buf.type)>>) ELSE m
  IN AddVariable(Put(m1, [buf EXCEPT !.size = size, !.type = type], st, n.s), len)

PreviousSize(m, e) == IF HasPreviousIO(m) THEN PreviousIO(m).name ELSE e.name

ParcelCall2(m, n, st, a, b) ==
  LET flag == Fresh(m, <<"bool">>, NoValue)
  IN CASE n.o \in {"read", "write"} -> ReadWrite(m, n, st, a, b)
       [] n.o = "writeByteArray" ->
            Put(m, [b EXCEPT !.size = a.name, !.value = NoValue, !.type = <<"[]", "char">>],
                st, n.s)
       [] n.o = "readBlob" ->
            Put(m, [b EXCEPT !.size = PreviousSize(m, a), !.type = <<"Blob">>], st, n.s)
       [] n.o = "writeFileDescriptor" -> Put(m, a, st, n.s)
       [] n.o \in {"writeParcelFileDescriptor", "readParcelFileDescriptor"} ->
            Put(Put(flag.m, flag.e, st, Append(n.s, 0)), a, st, n.s)
       [] n.o = "setData" -> Put(m, [a EXCEPT !.size = b.name], INPUT, n.s)
       [] OTHER -> Exit(m)

ParcelCall3(m, n, st, es) ==
  CASE n.o = "appendFrom" -> m
    [] n.o = "writeBlob" ->
         Put(m, [es[3] EXCEPT !.size = PreviousSize(m, es[1]), !.type = <<"Blob">>], st, n.s)
    [] OTHER -> Exit(m)

ParcelCall(m, n, es) ==
  LET st == Direction(n.o)
  IN CASE Len(es) = 0 -> ParcelCall0(m, n, st)
       [] Len(es) = 1 -> ParcelCall1(m, n, st, es[1])
       [] Len(es) = 2 -> Fresh(ParcelCall2(m, n, st, es[1], es[2]), n.t, NoValue)
       [] Len(es) = 3 -> Fresh(ParcelCall3(m, n, st, es), n.t, NoValue)
       [] OTHER -> IF n.o = "init" THEN Fresh(m, n.t, NoValue) ELSE GiveUp(m)

-----------------------------------------------------------------------------
\* walk_call, of callLocal (an interface written with the helpers of
\* SafeInterface): the interface check, then a variable for every parameter of the
\* method that is its third argument.

RECURSIVE PutParameters(_, _)
PutParameters(m, params) ==
  IF params = <<>> THEN m
  ELSE LET param == Head(params)
           out   == param.t[1] = "*"
       IN PutParameters(Put(m, Leaf(param.n, IF out THEN Plain(param.t) ELSE param.t),
                            IF out THEN OUTPUT ELSE INPUT, param.s),
                        Tail(params))

CallLocal(m, n) ==
  LET checked == Put(m, Descriptor, INPUT, n.s)
      cons    == Constraint(checked, Operation("!", <<Descriptor>>), 1)
      forked  == RecoverActive(ClearActive(Guarded(checked, cons)), checked.active)
  IN Fresh(PutParameters(SetStatus(forked, cons.name, FALSE), n.a[3].a[1].a), n.t, NoValue)

-----------------------------------------------------------------------------
\* walk_call, of a function that takes the parcel as an argument.

AidlStatus == <<"_aidl_status">>
NoException(m) ==
  LET m1 == PutCommon(m, Exception)
  IN Guarded(m1, Constraint(m1, Operation("==", <<Exception,
                   [Leaf(<<"android::EXNONE">>, Integer) EXCEPT !.value = Const(0)]>>), 9))

\* object.writeToParcel(parcel), or a function of two arguments of that name
WholeObject(m, n, es) ==
  LET st  == IF n.o = "writeToParcel" THEN OUTPUT ELSE INPUT
      obj == Info(m, n.b[1])
      w   == IF Len(es) = 2 THEN AsFunction(Find(m, <<"misc", n.o>>), es)
             ELSE Result(obj.m, [obj.e EXCEPT !.type = Plain(@)])
      put == Put(w.m, w.e, st, n.s)
  IN IF st = OUTPUT /\ w.e.name = AidlStatus THEN NoException(put) ELSE put

\* The functions the code knows, by what they read or write.
OfObject == {"ComposerState::read", "DisplayState::read"}
OfFirst  == {"readDecryptHandleFromParcelData", "writeDecryptHandleToParcelData",
             "writeParamSetToParcel", "writeKeyParameterToParcel"}
OfSecond == {"readStringVector", "writeStringVector", "readVector", "writeVector"}
OfNone   == {"layer_state_t::read", "MetaData::createFromParcel", "readKeyParameterFromParcel",
             "readParamSetFromParcel", "MetaDataBase::updateFromParcel",
             "readMaybeEmptyString16"}
KnownWrites  == {"writeDecryptHandleToParcelData", "writeParamSetToParcel",
                 "writeKeyParameterToParcel", "writeStringVector", "writeVector"}
NotSpecial   == OfSecond \cup {"readMaybeEmptyString16"}
ReturnsValue == {"readKeyParameterFromParcel", "readParamSetFromParcel"}

KnownFunction(m, n, es) ==
  LET w    == CASE n.o \in OfObject -> Info(m, n.b[1])
                [] n.o \in OfFirst  -> Result(m, [es[1] EXCEPT !.type = Plain(@)])
                [] n.o \in OfSecond -> Result(m, es[2])
                [] n.o \in OfNone   -> Fresh(m, <<"class">>, NoValue)
      st   == IF n.o \in KnownWrites THEN OUTPUT ELSE INPUT
      m1   == IF n.o \in NotSpecial THEN w.m ELSE Find(w.m, <<"special", n.o>>)
      put  == Put(m1, w.e, st, n.s)
  IN IF n.o \in ReturnsValue THEN Result(put, w.e) ELSE Fresh(put, n.t, NoValue)

\* A function whose own code is to be extracted is a variable of type Function.
MiscReads  == {"setMetadataFilter", "unmarshallFilter", "readKeymasterBlob"}
MiscWrites == {"getMetadata", "pullBatteryData", "exportToParcel"}
MiscBoth   == {"invoke"}
MiscLocal  == {"setPointer"}
\* ... and one that is not listed stops the extractor, to be listed.
MiscFunction(m, n, es) ==
  LET f  == AsFunction(m, es)
      st == CASE n.o \in MiscReads  -> INPUT
              [] n.o \in MiscWrites -> OUTPUT
              [] n.o \in MiscBoth   -> Both
              [] OTHER              -> COMMON
  IN IF n.o \notin MiscReads \cup MiscWrites \cup MiscBoth \cup MiscLocal THEN GiveUp(m)
     ELSE Fresh(Find(Put(f.m, f.e, st, n.s), <<"misc", n.o>>), n.t, NoValue)

ParcelArgument(m, n, es) ==
  CASE n.o \in {"writeToParcel", "readFromParcel"} ->
         Fresh(WholeObject(m, n, es), n.t, NoValue)
    [] n.o \in OfObject \cup OfFirst \cup OfSecond \cup OfNone -> KnownFunction(m, n, es)
    [] n.o \in {"__android_log_print", "transact"} -> Fresh(m, n.t, NoValue)
    [] OTHER -> MiscFunction(m, n, es)

-----------------------------------------------------------------------------
\* walk_call, of any other function, and the call itself.

\* The methods that begin with get or set, and the rest of each name: it is the variable,
\* whatever the object.
Accessors == [get |-> <<>>, getWidth |-> <<"Width">>]

\* p->size() ... : a variable named for the object and the method, or for the method
\* alone when the object has no name of its own.
GetterName(obj, method) ==
  CASE method = "c_str" -> obj.name
    [] method # "c_str" /\ IsAnImplicit(obj) -> <<method>>
    [] OTHER -> Append(obj.name, method)

MemCopy(m, n, es) ==
  LET renamed == Rename(m, es[1].name, es[2].name)
  IN SetType(renamed, es[2].name, IF IsLiteral(es[3]) THEN n.t ELSE es[2].type)

OtherCall(m, n, es) ==
  CASE n.o \in {"asBinder", "asInterface", "dup"} -> Result(m, es[1])
    [] n.o = "interface_cast" -> Result(SetType(m, es[1].name, n.t), Leaf(es[1].name, n.t))
    [] n.o \in {"GetClientInterfaces", "GetApInterfaces"} ->
         Fresh(SetType(m, es[1].name, <<"[]", "IBinder">>), n.t, NoValue)
    [] n.o = "resize" ->
         LET obj == Info(m, n.b[1])
         IN Fresh(PutCommon(obj.m, [obj.e EXCEPT !.size = es[1].name]), n.t, NoValue)
    [] n.o = "operator int" ->
         LET obj == Info(m, n.b[1])
             fd  == Leaf(obj.e.name, <<"fd">>)
         IN Result(PutCommon(obj.m, fd), fd)
    [] n.o = "memcpy" -> Fresh(MemCopy(m, n, es), n.t, NoValue)
    [] n.o = "FOURCC" ->
         LET w == Fresh(m, Literal, es[1].value) IN Result(PutCommon(w.m, w.e), w.e)
    [] n.o \in DOMAIN Accessors /\ es = <<>> /\ n.b # <<>> ->
         LET e == Leaf(Accessors[n.o], n.t) IN Result(PutCommon(m, e), e)
    [] n.o \notin {"resize", "operator int"} \cup DOMAIN Accessors /\ es = <<>> /\ n.b # <<>> ->
         LET obj == Info(m, n.b[1])
             e   == Leaf(GetterName(obj.e, n.o), IF n.o = "c_str" THEN <<"*", "char">> ELSE n.t)
         IN Result(IF n.o = "end" THEN obj.m ELSE PutCommon(obj.m, e), e)
    [] OTHER -> Fresh(m, n.t, NoValue)

CallOf(w, onParcel, n) ==
  CASE onParcel -> ParcelCall(w.m, n, w.es)
    [] ~onParcel /\ n.o = "callLocal" -> CallLocal(w.m, n)
    [] ~onParcel /\ n.o # "callLocal" /\ (\E i \in DOMAIN w.es : IsParcel(w.es[i])) ->
         ParcelArgument(w.m, n, w.es)
    [] OTHER -> OtherCall(w.m, n, w.es)

WalkCall(m, n) ==
  IF n.b = <<>> THEN CallOf(WalkArgv(m, n.a), FALSE, n)
  ELSE LET obj == Info(m, n.b[1]) IN CallOf(WalkArgv(obj.m, n.a), IsParcel(obj.e), n)

-----------------------------------------------------------------------------
\* a ?: b, where a is a call: the false value is walked under the constraint that
\* the call returned 0.

Otherwise(c, m, n) ==
  LET cons == Constraint(m, Operation("", <<c>>), 5)
      no   == SetStatus(Guarded(m, cons), cons.name, FALSE)
  IN CASE n.k = "Conditional" -> Result(Pop(WalkConditional(no, n).m), c)
       [] n.k = "BinaryConditional" -> Result(Pop(Info(no, n).m), c)
       [] n.k = "Call" -> LET f == Info(no, n) IN Result(Pop(f.m), f.e)
       [] OTHER -> GiveUp(m)

WalkBinaryConditional(m, n) ==
  LET c == Info(m, n.a[1])
  IN CASE n.a[1].k = "ImplicitCast" -> Otherwise(c.e, PutCommon(c.m, c.e), n.a[2])
       [] n.a[1].k = "Call"         -> Otherwise(c.e, c.m, n.a[2])
       [] OTHER                     -> GiveUp(m)

-----------------------------------------------------------------------------
\* get_variable_info: what an expression is, by the kind of its node.  The
\* condition of a ?: is dropped here.
VariableInfo(m, n) ==
  CASE n.k = "DeclRef"          -> WalkDeclRef(m, n)
    [] n.k \in {"String", "NULL", "Floating", "Bool", "This"} -> WalkLiteral(m, n)
    [] n.k = "IntegerLiteral"          -> WalkInteger(m, n)
    [] n.k = "MemberExpr"       ->
         LET w == WalkMemberExpr(m, n) IN Result(w.m, Unqualified(w.e))
    [] n.k = "Call"             -> WalkCall(m, n)
    [] n.k = "CStyleCast"       -> WalkCStyleCast(m, n)
    [] n.k = "ImplicitCast"     -> WalkImplicitCast(m, n)
    [] n.k = "StaticCast"       -> WalkStaticCast(m, n)
    [] n.k = "Conditional"      -> Fresh(WalkConditional(m, n).m, Integer, NoValue)
    [] n.k = "BinaryConditional" -> WalkBinaryConditional(m, n)
    [] n.k = "OperatorCall"     -> WalkOperatorCall(m, n)
    [] n.k = "BinaryOperator"   -> WalkBinaryOperator(m, n)
    [] n.k = "Construct"        -> WalkConstruct(m, n)
    [] n.k = "Subscript"        -> WalkSubscript(m, n)
    [] n.k = "UnaryOperator"    -> WalkUnaryOperator(m, n)
    [] n.k = "Sizeof"           -> WalkSizeof(m, n)
    [] OTHER                    -> GiveUp(m)

-----------------------------------------------------------------------------
\* Statements.  p is the status that the path returned, as far as the code knows
\* it; NoName is a path that goes on.

NoPath(m) == [m |-> m, p |-> NoName]

WalkCond(m, n) ==
  LET w == IF n.k = "MemberExpr" THEN WalkMemberExpr(m, n) ELSE Info(m, n)
      c == IF n.k = "Bool" THEN Fresh(m, Literal, Const(0)) ELSE w
  IN [m |-> IF n.k \in {"UnaryOperator", "DeclRef", "BinaryOperator", "OperatorCall", "Call",
                        "MemberExpr", "Bool", "ImplicitCast"}
               /\ (n.k = "BinaryOperator" => ~IsLeaf(c.e))
            THEN c.m ELSE Exit(m),
      cons |-> Constraint(m, IF n.k = "ImplicitCast" THEN Operation("", <<c.e>>)
                             ELSE AsCondition(c.e), 5)]

\* is_error_path
IsErrorPath(p) == p # NoName /\ p[1] \notin {"NO_ERROR", "OK", "status"}

Weighted(m, c, thenPath, elsePath) ==
  CASE IsErrorPath(thenPath) /\ ~IsErrorPath(elsePath) -> SetProbability(m, c, 1)
    [] ~IsErrorPath(thenPath) /\ IsErrorPath(elsePath) -> SetProbability(m, c, 9)
    [] OTHER -> m

\* After a branch that returned, the paths from before it go on.  The constraint
\* stays active, as not holding, when the first branch returned and there is no
\* other, and after the check of the interface.
Branch(m, nodes, at) == IF Len(nodes) < at THEN NoPath(m) ELSE WalkCompound(m, nodes[at])

Joined(yes, no, c, stays) ==
  NoPath(Weighted(IF stays THEN no.m ELSE Pop(no.m), c.name, yes.p, no.p))

Else(guarded, c, yes, n) ==
  LET forked  == IF yes.p = NoName THEN yes.m
                 ELSE RecoverActive(ClearActive(yes.m), guarded.active)
      isCheck == c.name = 0 /\ c.cond.args[1].name = Descriptor.name
  IN Joined(yes, Branch(SetStatus(forked, c.name, FALSE), n.a, 3), c,
            Len(n.a) = 2 /\ (yes.p # NoName \/ isCheck))

Then(guarded, c, n) == Else(guarded, c, Branch(guarded, n.a, 2), n)
Tested(c, n)        == Then(Guarded(c.m, c.cons), c.cons, n)
WalkIf(m, n) ==
  Tested(WalkCond(IF n.b = <<>> THEN m ELSE WalkVarAssign(m, n.b[1]).m, n.a[1]), n)

\* The status of the path is the last constant that was written, or the value
\* returned.  The paths stay active.
WalkReturn(m, n) ==
  LET w        == Info(m, n.a[1])
      e        == IF IsLeaf(w.e) THEN w.e ELSE w.e.args[1]
      name     == Latest(w.m, e.name)
      added    == IF IsVariable(w.m, e.name) THEN w.m ELSE AddVariable(w.m, e)
      returned == SetReturnVar(added, name)
      status   == HasPreviousIO(returned) /\ PreviousIO(returned).value # NoValue
                  /\ PreviousIO(returned).name[1] \in {"NO_ERROR", "OK", "BAD_VALUE"}
  IN [m |-> returned, p |-> IF status THEN PreviousIO(returned).name ELSE name]

-----------------------------------------------------------------------------
\* Loops.  The constraint of a loop is its condition and is not active in it; the
\* names of the active loops are recorded with a variable instead.

LoopRecord(l, counter, cons) == [name |-> l, counter |-> counter, constraint |-> cons]
Looping(m, counter, cons, l) ==
  AddLoop(AddConstraint(m, cons), LoopRecord(l, counter, cons.name))

ForIncrement(m, n) ==
  CASE n.k = "UnaryOperator" -> LET w == WalkUnaryOperator(m, n) IN Result(w.m, w.e.args[1])
    [] n.k = "BinaryOperator" /\ n.o = "," ->
         LET w == WalkUnaryOperator(m, n.a[1]) IN Result(w.m, w.e.args[1])
    [] n.k = "BinaryOperator" /\ n.o = "=" -> Result(m, Leaf(<<"interator">>, Integer))
    [] n.k = "OperatorCall" -> LET w == WalkOperatorCall(m, n) IN Result(w.m, w.e.args[1])
    [] OTHER -> GiveUp(m)

WalkForInit(m, n) ==
  CASE n.k = "Var"  -> WalkVarAssign(m, n)
    [] n.k = "None" -> Result(m, Leaf(NoName, Integer))
    [] OTHER        -> GiveUp(m)

\* The counter is that of the first part, or else of the third.
LoopOn(m, cons, counter, l, n) ==
  LET inc     == ForIncrement(AddConstraint(m, cons), n.a[3])
      entered == AddLoop(inc.m, LoopRecord(l, counter, cons.name))
  IN PopLoop(WalkCompound(entered, n.a[4]).m)
CountedLoop(m, counter, n) ==
  LET added == PutCommon(m, counter)
      l     == AllocLoop(added)
      c     == WalkCond(PushLoop(added, l), n.a[2])
  IN LoopOn(c.m, c.cons, counter.name, l, n)
CounterOf(init, n) == IF init.e.name = NoName THEN ForIncrement(init.m, n.a[3]) ELSE init
WalkFor(m, n) ==
  LET counter == CounterOf(WalkForInit(m, n.a[1]), n)
  IN NoPath(CountedLoop(counter.m, counter.e, n))

\* The bound is the size of the container, or what was read last.
WalkForRange(m, n) ==
  LET counter == Fresh(m, Counter, Const(0))
      added   == PutCommon(counter.m, counter.e)
      l       == AllocLoop(added)
      vector  == Info(PushLoop(added, l), n.a[1])
      size    == IF IsVariable(vector.m, vector.e.name)
                 THEN VarNamed(vector.m, vector.e.name).size ELSE NoName
      known   == n.a[1].k # "None"
      bound   == IF known THEN size
                 ELSE IF HasPreviousIO(added) THEN PreviousIO(added).name ELSE <<"unknown">>
      m1      == IF known THEN vector.m ELSE PushLoop(added, l)
      cons    == Constraint(m1, Operation("<", <<counter.e, Leaf(bound, Counter)>>), 5)
  IN IF m.vars = <<>> THEN NoPath(Exit(m))
     ELSE NoPath(PopLoop(WalkCompound(Looping(m1, counter.e.name, cons, l), n.a[2]).m))

\* Of while (a < b) the counter is a; of an iterator it is new, and the bound is
\* guessed to be the last variable; of any other value there is no loop.
WalkWhile(m, n) ==
  LET l       == AllocLoop(m)
      pushed  == PushLoop(m, l)
      test    == n.a[1]
      w       == Info(pushed, test)
      from    == IF test.k = "Call" THEN pushed ELSE w.m
      counter == Fresh(from, Counter, Const(0))
      guess   == PutCommon(counter.m, counter.e)
      cons    == IF test.k = "BinaryOperator"
                 THEN Constraint(w.m, Operation("<", w.e.args), 9)
                 ELSE Constraint(guess, Operation("<", <<counter.e,
                        Leaf(Last(from.vars).name, Counter)>>), 9)
      entered == CASE test.k = "BinaryOperator" -> Looping(w.m, w.e.args[1].name, cons, l)
                   [] test.k = "OperatorCall" \/ (test.k = "Call" /\ test.o = "hasNext") ->
                        IF from.vars = <<>> THEN Exit(m)
                        ELSE Looping(guess, counter.e.name, cons, l)
                   [] test.k = "ImplicitCast" -> pushed
                   [] OTHER -> Exit(pushed)
  IN IF entered.exited THEN NoPath(entered)
     ELSE NoPath(PopLoop(WalkCompound(entered, n.a[2]).m))

WalkDo(m, n) == NoPath(WalkCompound(m, n.a[1]).m)

-----------------------------------------------------------------------------
\* Switch.  Each case has its constraint, and only the code of the innermost of
\* several labels; the constraint of a case without code stays active.

RECURSIVE Innermost(_)
Innermost(case) ==
  IF case.a # <<>> /\ case.a[1].k = "code" THEN Innermost(case.a[1]) ELSE case

CaseKinds   == {"BinaryOperator", "Call", "OperatorCall", "Var", "ReturnStmt"}
BesideKinds == {"Call", "BinaryOperator", "ReturnStmt"}
RECURSIVE WalkCases(_, _, _)
WalkCases(m, var, nodes) ==
  IF nodes = <<>> THEN m
  ELSE LET n     == Head(nodes)
           label == Fresh(m, Literal, n.v)
           c     == Constraint(label.m, Operation("==", <<var, label.e>>), 9)
           case  == Guarded(label.m, c)
           body  == [Innermost(n) EXCEPT !.k = "Compound"]
           m1    == CASE n.k = "ReturnStmt" -> m
                      [] n.k # "ReturnStmt" /\ n.k # "code" ->
                           WalkCompound(m, [n EXCEPT !.k = "Compound", !.a = <<n>>]).m
                      [] n.k = "code" /\ n.a = <<>> -> case
                      [] OTHER -> Pop(WalkCompound(case, body).m)
           known == IF n.k = "code" THEN CaseKinds ELSE BesideKinds
           met   == IF n.k = "code" THEN {x.k : x \in Range(body.a)} ELSE {n.k}
       IN IF met \subseteq known \/ "Compound" \in met THEN WalkCases(m1, var, Tail(nodes))
          ELSE Exit(m)

WalkSwitch(m, n) ==
  LET w == Info(m, n.a[1])
  IN IF n.a[1].k \notin {"DeclRef", "MemberExpr", "ImplicitCast", "Call"} THEN NoPath(Exit(m))
     ELSE NoPath(WalkCases(AddVariable(w.m, w.e), w.e, Tail(n.a)))

-----------------------------------------------------------------------------
\* walk_compoundstmt: the path's status is that of its last return or block.

Expressions == {"Call", "Construct", "StaticCast", "CStyleCast", "OperatorCall",
                "BinaryOperator", "BinaryConditional", "ImplicitCast"}
WalkStatement(m, n) ==
  CASE n.k \in Expressions   -> NoPath(Info(m, n).m)
    [] n.k = "Var"           -> NoPath(WalkVarAssign(m, n).m)
    [] n.k \in {"DeclRef", "DeclStmt"} -> NoPath(m)
    [] n.k = "Compound"      -> WalkCompound(m, n)
    [] n.k = "IfStmt"        -> WalkIf(m, n)
    [] n.k = "ReturnStmt"    -> WalkReturn(m, n)
    [] n.k = "ForStmt"       -> WalkFor(m, n)
    [] n.k = "ForRangeStmt"  -> WalkForRange(m, n)
    [] n.k = "WhileStmt"     -> WalkWhile(m, n)
    [] n.k = "DoStmt"        -> WalkDo(m, n)
    [] n.k = "switch"        -> WalkSwitch(m, n)
    [] OTHER                 -> NoPath(Exit(m))

RECURSIVE WalkStatements(_, _, _)
WalkStatements(m, p, nodes) ==
  IF nodes = <<>> \/ m.exited THEN [m |-> m, p |-> p]
  ELSE LET w == WalkStatement(m, Head(nodes))
       IN WalkStatements(w.m, IF Head(nodes).k \in {"ReturnStmt", "Compound"} THEN w.p ELSE p,
                         Tail(nodes))

Visit(m, n) ==
  IF n.k = "Compound" THEN WalkStatements(m, NoName, n.a) ELSE VariableInfo(m, n)

\* parse_one_transaction: the code of the innermost of its labels.
ParseOneTransaction(n) ==
  LET code  == Innermost(n).a
      known == \A i \in DOMAIN code : code[i].k \in {"Compound", "ReturnStmt", "IfStmt"}
  IN Dump(IF known THEN WalkCompound(NewManager, [n EXCEPT !.k = "Compound", !.a = code]).m
          ELSE Exit(NewManager))

\* walk_parcel_function: one statement; its parameters are variables.
RECURSIVE AddParameters(_, _)
AddParameters(m, params) ==
  IF params = <<>> THEN m
  ELSE AddParameters(AddUnknown(m, Leaf(Head(params).n, Head(params).t)), Tail(params))

WalkParcelFunction(n) == Dump(AddParameters(WalkCompound(NewManager, [n EXCEPT !.k = "Compound"]).m, n.b))

\* walk_raw_structure: the fields are read in their order; a field that is a
\* structure is one more to extract.
RECURSIVE WalkFields(_, _)
WalkFields(m, fields) ==
  IF fields = <<>> THEN m
  ELSE LET f  == Head(fields)
           m1 == IF Last(f.t) = "struct" THEN Find(m, <<"raw", Last(f.t)>>) ELSE m
       IN WalkFields(Put(m1, Leaf(f.n, f.t), INPUT, f.s), Tail(fields))

WalkRawStructure(n) == Dump(WalkFields(NewManager, n.a))
=============================================================================
