----------------------------- MODULE SourceData -----------------------------
(* Small functions for Extraction: every sequence of two statements after a  *)
(* first read, of a grammar with blocks of depth two, and some functions     *)
(* with the rarer calls.                                                     *)
EXTENDS BinderPlugin

\* Nodes of the source.
N(kind)          == [Unknown EXCEPT !.k = kind]
Ref(name)        == [N("DeclRef") EXCEPT !.n = name, !.t = Integer]
Parcel(name)     == [N("DeclRef") EXCEPT !.n = <<name>>, !.t = <<"Parcel">>]
Lit(i)           == [N("IntegerLiteral") EXCEPT !.t = Literal, !.v = Const(i)]
Cast(n)          == [N("ImplicitCast") EXCEPT !.t = n.t, !.a = <<n>>]
Addr(x)          == [N("UnaryOperator") EXCEPT !.o = "&", !.a = <<Ref(x)>>]
Not(n)           == [N("UnaryOperator") EXCEPT !.o = "!", !.a = <<n>>]
Bin(op, l, r)    == [N("BinaryOperator") EXCEPT !.o = op, !.a = <<l, r>>, !.t = Integer]
On(p, f, args)   == [N("Call") EXCEPT !.o = f, !.b = <<Parcel(p)>>, !.a = args, !.t = Integer]
Fun(f, args)     == [N("Call") EXCEPT !.o = f, !.a = args, !.t = Integer]
Def(x, n)        == [N("DeclStmt") EXCEPT !.a = <<[N("Var") EXCEPT !.n = x, !.t = Integer, !.a = <<n>>]>>]
Body(ns)         == [N("Compound") EXCEPT !.a = ns]
If(c, ns)        == [N("IfStmt") EXCEPT !.a = <<c, Body(ns)>>]
IfElse(c, n1, n2) == [N("IfStmt") EXCEPT !.a = <<c, Body(n1), Body(n2)>>]
For(x, n, ns)    == [N("ForStmt") EXCEPT !.a =
                       <<Def(x, Lit(0)), Bin("<", Cast(Ref(x)), n),
                         [N("UnaryOperator") EXCEPT !.o = "++", !.a = <<Ref(x)>>], Body(ns)>>]
While(c, ns)     == [N("WhileStmt") EXCEPT !.a = <<c, Body(ns)>>]
Each(x, ns)      == [N("ForRangeStmt") EXCEPT !.a = <<Ref(x), Body(ns)>>]
Do(ns)           == [N("DoStmt") EXCEPT !.a = <<Body(ns)>>]
Case(i, n)       == [N("CaseStmt") EXCEPT !.v = Const(i), !.a = <<n>>]
Switch(n, cases) == [N("SwitchStmt") EXCEPT !.a = <<n>> \o cases]
Break            == N("BreakStmt")
Ret(n)           == [N("ReturnStmt") EXCEPT !.a = <<n>>]
Enum(name, i)  == [N("ImplicitCast") EXCEPT !.t = Integer, !.v = Const(i), !.a = <<Ref(name)>>]
RetOK            == Ret(Enum(<<"NO_ERROR">>, 0))

Read           == On("data", "readInt32", <<>>)
ReadInto(x)    == On("data", "readInt32", <<Addr(x)>>)
WriteOf(x)     == On("reply", "writeInt32", <<Cast(Ref(x))>>)
Check == Do(<<If(Not(On("data", "checkInterface", <<N("This")>>)),
                 <<Ret(Enum(<<"PERMISSION_DENIED">>, 1))>>)>>)

RECURSIVE Labelled(_, _)
Labelled(n, path) ==
  [n EXCEPT !.s = path,
            !.a = [i \in DOMAIN @ |-> Labelled(@[i], Append(path, i))],
            !.b = [i \in DOMAIN @ |-> Labelled(@[i], Append(path, 0))]]

-----------------------------------------------------------------------------
X == <<"x">>
\* Statements that read or write at a place of their own; v is a fresh name.
Simple(v) == {Def(v, Read), ReadInto(v), WriteOf(v)}
Inner(v) ==
  {<<s>> : s \in Simple(v)}
  \cup {<<Def(v, Read), WriteOf(v)>>, <<Def(v, Read), RetOK>>, <<RetOK>>,
        <<If(Cast(Ref(X)), <<Def(v, Read)>>)>>, <<For(Append(v, "i"), Cast(Ref(X)), <<Def(v, Read)>>)>>}
Deep(v) ==
  Simple(v)
  \cup {If(Cast(Ref(X)), b) : b \in Inner(v)}
  \cup {If(Bin("==", Cast(Read), Lit(1)), b) : b \in Inner(v)}
  \cup {IfElse(Bin("!=", Cast(Ref(X)), Lit(0)), b, <<Def(Append(v, "e"), Read)>>) : b \in Inner(v)}
  \cup {For(Append(v, "j"), Cast(Ref(X)), b) : b \in Inner(v)}
  \cup {While(Bin("<", Cast(Ref(X)), Cast(Ref(Append(v, "n")))), b) : b \in Inner(v)}
  \cup {Each(X, b) : b \in Inner(v)}
  \cup {Switch(Cast(Ref(X)), <<Case(0, Body(Append(b, Break))),
                               Case(1, Body(<<Def(Append(v, "e"), Read), Break>>))>>) : b \in Inner(v)}
  \cup {Do(b) : b \in Inner(v)}
Shallow(v) ==
  Simple(v) \cup
  {If(Cast(Ref(X)), <<Def(v, Read)>>), If(Cast(Ref(X)), <<RetOK>>),
   For(Append(v, "j"), Cast(Ref(X)), <<Def(v, Read)>>)}

-----------------------------------------------------------------------------
\* Functions with the rarer calls.

Of(n, t)       == [n EXCEPT !.t = t]
Wrap(k, n)     == [N(k) EXCEPT !.t = n.t, !.a = <<n>>]
Method(obj, f, args) == [N("Call") EXCEPT !.o = f, !.b = <<obj>>, !.a = args, !.t = Integer]
Member(obj, x, t) == [N("MemberExpr") EXCEPT !.n = x, !.b = <<obj>>, !.t = t]
Assign(x, n)   == Bin("=", Ref(x), n)
Sizeof(i)      == [N("Sizeof") EXCEPT !.v = Const(i)]
Make(t, ns)    == [N("Construct") EXCEPT !.t = t, !.a = ns]
Choose(c, x, y) == [N("Conditional") EXCEPT !.t = Integer, !.a = <<c, x, y>>]
OrElse(c, x)   == [N("BinaryConditional") EXCEPT !.t = Integer, !.a = <<c, x>>]
Operator(o, ns) == [N("OperatorCall") EXCEPT !.o = o, !.t = Integer, !.a = ns]
DataParcel  == Parcel("data")
ReplyParcel == Parcel("reply")
W     == <<"w">>
Y     == <<"y">>
Len_  == <<"len">>
Buf   == Of(Ref(<<"buf">>), <<"*", "void">>)
Info_ == Of(Ref(<<"info">>), <<"struct">>)

Curated == {
  \* sizes
  <<Def(Len_, Read), On("data", "read", <<Buf, Cast(Ref(Len_))>>), On("reply", "write", <<Buf, Lit(8)>>)>>,
  <<Def(Len_, Read), On("data", "read", <<Of(Ref(Y), <<"*", "struct">>), Bin("*", Cast(Ref(Len_)), Sizeof(4))>>)>>,
  <<On("data", "read", <<Of(Addr(Y), <<"*", "struct">>), Sizeof(4)>>)>>,
  <<Def(Len_, Read), Def(Y, On("data", "readInplace", <<Cast(Ref(Len_))>>))>>,
  <<Def(Y, Of(On("data", "readInplace", <<Sizeof(16)>>), <<"info_t">>))>>,
  <<Def(Len_, Read), Def(Y, On("data", "readString16Inplace", <<Addr(Len_)>>))>>,
  <<Def(Len_, Read), On("data", "readBlob", <<Cast(Ref(Len_)), Addr(Y)>>),
    On("reply", "writeByteArray", <<Cast(Ref(Len_)), Buf>>)>>,
  <<On("data", "resizeOutVector", <<Addr(Y)>>), On("reply", "writeInplace", <<Sizeof(4)>>)>>,
  \* objects
  <<Def(Y, Of(On("data", "readStrongBinder", <<>>), BinderType)), On("reply", "writeStrongBinder", <<Of(Ref(Y), BinderType)>>)>>,
  <<Def(Y, Make(<<"class">>, <<Of(On("data", "readString16", <<>>), <<"class">>)>>))>>,
  <<Def(Y, Wrap("StaticCast", Read)), On("data", "readFileDescriptor", <<>>), On("reply", "writeNoException", <<>>)>>,
  <<On("data", "readNullableStrongBinder", <<Addr(Y)>>), On("data", "readParcelFileDescriptor", <<Ref(Y)>>)>>,
  <<On("reply", "writeDupFileDescriptor", <<Ref(Y)>>), On("reply", "writeFileDescriptor", <<Ref(W), Lit(1)>>)>>,
  <<On("data", "readNativeHandle", <<>>), On("data", "enforceInterface", <<Ref(Y)>>)>>,
  \* structures and functions
  <<Method(Info_, "readFromParcel", <<DataParcel>>), Method(Of(Ref(W), <<"class">>), "writeToParcel", <<ReplyParcel>>)>>,
  <<Fun("readVector", <<DataParcel, Ref(Y)>>), Fun("writeVector", <<ReplyParcel, Ref(W)>>)>>,
  <<Fun("readMaybeEmptyString16", <<DataParcel>>), Fun("writeParamSetToParcel", <<Ref(Y), ReplyParcel>>)>>,
  <<Method(Ref(Y), "setMetadataFilter", <<DataParcel>>), Method(Ref(W), "getMetadata", <<Ref(X), ReplyParcel>>),
    Method(Ref(Y), "invoke", <<DataParcel, ReplyParcel>>)>>,
  <<Method(Ref(Y), "setPointer", <<DataParcel>>)>>,
  <<Def(Y, Fun("readParamSetFromParcel", <<DataParcel>>))>>,
  <<Def(Y, Make(<<"Function">>, <<DataParcel, Lit(2)>>))>>,
  <<Fun("callLocal", <<DataParcel, ReplyParcel, [Addr(<<"f">>) EXCEPT !.a[1].a =
       <<[N("Var") EXCEPT !.n = Y, !.t = Integer], [N("Var") EXCEPT !.n = W, !.t = <<"*", "int">>]>>]>>)>>,
  \* locals
  <<Assign(Y, Fun("interface_cast", <<On("data", "readStrongBinder", <<>>)>>)),
    On("reply", "writeStrongBinder", <<Fun("asBinder", <<Ref(W)>>)>>)>>,
  <<Def(Y, Method(Ref(<<"obj">>), "getWidth", <<>>)), WriteOf(Y)>>,
  <<Def(W, Method(Ref(<<"obj">>), "size", <<>>)), Def(Y, Method(Ref(<<"obj">>), "get", <<>>)), WriteOf(W)>>,
  <<Def(Y, Bin("+", Cast(Ref(X)), Lit(1))), Def(W, Bin("!=", Cast(Ref(X)), Lit(1))), WriteOf(W)>>,
  <<On("reply", "writeInt32", <<Bin("!=", Cast(Ref(X)), Lit(0))>>), Def(Y, Read)>>,
  <<On("reply", "writeInt32", <<Choose(Bin("!=", Cast(Ref(X)), Lit(0)), Lit(1), Lit(0))>>)>>,
  <<On("reply", "writeInt32", <<Wrap("Paren", Member(Info_, Y, Integer))>>), If(Cast(Member(Info_, Y, Integer)), <<Def(W, Read)>>)>>,
  <<Def(Y, [N("UnaryOperator") EXCEPT !.o = "-", !.a = <<Lit(1)>>]), WriteOf(Y)>>,
  <<Def(<<"status">>, OrElse(On("data", "readInt32", <<Addr(Y)>>), On("data", "readInt32", <<Addr(W)>>)))>>,
  <<Def(Y, Wrap("Cleanups", Wrap("BindTemporary", Wrap("Materialize", Wrap("ConstCast", Wrap("CStyleCast", Read))))))>>,
  <<Def(Y, Wrap("New", Make(<<"class">>, <<Read>>))), WriteOf(Y)>>,
  <<On("reply", "writeInt32", <<Wrap("FunctionalCast", Cast(Ref(Y))), N("DefaultArg")>>)>>,
  <<Operator("=", <<Ref(Y), Read>>), WriteOf(Y)>>,
  <<If(Operator("operator!=", <<Cast(Ref(X)), Lit(0)>>), <<Def(Y, Read)>>)>>,
  <<While(Operator("operator!=", <<Ref(Y), Ref(W)>>), <<Def(Y, Read)>>)>>,
  <<On("reply", "writeInt32", <<[N("Subscript") EXCEPT !.a = <<Of(Ref(Y), <<"[]", "int">>), Cast(Ref(X))>>, !.t = Integer]>>)>>,
  <<Switch(Cast(Ref(X)), <<Case(0, Body(<<Def(Y, Read), Break>>)), [N("DefaultStmt") EXCEPT !.a = <<Break>>]>>), WriteOf(X)>>,
  <<On("data", "appendFrom", <<ReplyParcel, Lit(0), Lit(0)>>), On("data", "setData", <<Buf, Cast(Ref(X))>>)>>
 }

-----------------------------------------------------------------------------
\* The sources.

OnCodes(bodies) ==
  Body(<<[N("SwitchStmt") EXCEPT !.a =
            <<Cast(Ref(<<"code">>))>> \o [i \in DOMAIN bodies |-> Case(i, Body(bodies[i]))]]>>)
OnTransact(bodies) == [entry |-> "onTransact", body |-> Labelled(OnCodes(bodies), <<"@">>)]
FunctionOf(params, ns) ==
  [entry |-> "function", body |-> Labelled([Body(ns) EXCEPT !.b = params], <<"@">>)]
RecordOf(fields) == [entry |-> "record", body |-> Labelled([N("record") EXCEPT !.a = fields], <<"@">>)]

Ends == {RetOK, Ret(WriteOf(W))}
Generated == {OnTransact(<<<<Def(X, Read), s1, s2, end>>>>) :
                s1 \in Deep(Y), s2 \in Shallow(<<"z">>), end \in Ends}
\* A value that is read again, a switch that ends the case, two transactions.
Again  == {<<Def(X, Read), ReadInto(X), If(Bin("==", Cast(Ref(X)), Lit(1)), b), RetOK>> : b \in Inner(Y)}
Double == {OnTransact(<<b, <<Def(X, Read), s, RetOK>>>>) : b \in Again, s \in Shallow(Y)}
Calls(ns, f) == \E n \in UNION {Nodes(m) : m \in Range(ns)} : n.o = f
Rare == {OnTransact(<<(IF Calls(ns, "callLocal") THEN <<>> ELSE <<Check, Def(X, Read)>>)
                        \o ns \o <<RetOK>>>>) : ns \in Curated}
Parts == {FunctionOf(<<Ref(<<"size">>)>>, <<Def(X, Read), s1, s2, RetOK>>) :
            s1 \in Deep(Y), s2 \in Simple(<<"z">>)}

Field(x, t) == [N("Field") EXCEPT !.n = x, !.t = t]
FieldTypes  == {Integer, <<"struct">>, <<"[]", "int">>, <<"[]", "struct">>}
Records == {RecordOf(<<Field(X, t1), Field(Y, t2), Field(W, t3)>>) :
              t1 \in FieldTypes, t2 \in FieldTypes, t3 \in FieldTypes}

MCSource == Generated \cup Double \cup Rare \cup Parts \cup Records
MCValue  == {0, 1}

\* Functions with a branch after else that returns.
MCElse == {OnTransact(<<<<Def(X, Read), IfElse(Cast(Ref(X)), <<Def(Y, Read)>>, <<b, RetOK>>),
                          s, RetOK>>>>) : b \in Simple(W), s \in Shallow(<<"z">>)}
=============================================================================
