---------------------------- MODULE BinderPlugin ----------------------------
(***************************************************************************)
(* The clang plugin of the interface model extractor                       *)
(* (pre-process/BinderIface/BinderIface.cpp): it writes what a function    *)
(* says of a parcel as a tree.  There is one operator for each Walk method *)
(* of the plugin's visitor.  It takes a node of clang's AST and returns a  *)
(* sequence: of one node, or of none where the method returns NULL.  The   *)
(* nodes of both trees are those of AstVisitor; a statement that clang's   *)
(* tree names differently has clang's name here.                           *)
(*                                                                         *)
(* Where a method meets a node it does not know the plugin ends (exit(0)); *)
(* such trees are Unknown.                                                 *)
(***************************************************************************)
EXTENDS AstVisitor

Unknown == [k |-> "Unknown", n |-> NoName, t |-> <<"none">>, v |-> NoValue, o |-> "",
            s |-> NoSite, b |-> <<>>, a |-> <<>>]

RECURSIVE IsKnown(_)
IsKnown(n) == n.k # "Unknown" /\ \A c \in Range(n.a) \cup Range(n.b) : IsKnown(c)

RECURSIVE Nodes(_)
Nodes(n) == {n} \cup UNION {Nodes(c) : c \in Range(n.a) \cup Range(n.b)}

\* isDataReplyExists: the dump of the statement names data or reply and a parcel, or
\* something else that matters.  In a structure's function any parcel will do.
Mentions(n, inStructure) ==
  \E c \in Nodes(n) :
     \/ c.t = <<"Parcel">> /\ (inStructure \/ c.n \in {<<"data">>, <<"reply">>})
     \/ c.o \in {"readFromParcel", "writeToParcel", "interface_cast"}
     \/ c.t = BinderType
     \/ c.k = "ReturnStmt"

RECURSIVE WalkCommonExpr(_), Visited(_)
Visited(nodes) == IF nodes = <<>> THEN <<>>
                  ELSE WalkCommonExpr(Head(nodes)) \o Visited(Tail(nodes))

-----------------------------------------------------------------------------
\* Expressions.

Unwrapped(n) ==
  LET kids == Visited(n.a) IN IF Len(kids) < 2 THEN kids ELSE <<[n EXCEPT !.a = kids]>>

WalkParenExpr(n)            == Unwrapped(n)
WalkFunctionalCast(n)       == WalkCommonExpr(n.a[1])
WalkNewExpr(n)              == WalkCommonExpr(n.a[1])
WalkConstCast(n)            == Unwrapped(n)
WalkOpaqueValue(n)          == WalkCommonExpr(n.a[1])
WalkTemporaries(n)          == Unwrapped(n)
WalkExprWithCleanups(n)     == Unwrapped(n)
WalkReinterpretCast(n)      == Unwrapped(n)
WalkDefaultArg(n)           == <<>>

\* The kind of the cast is added by WalkCommonExpr, whatever is left in it.
WalkStaticCastExpr(n)       == Unwrapped(n)
WalkCStyleCastExpr(n)       == Unwrapped(n)

\* A cast of a constant is the constant, named if it is a name.
WalkImplicitCastExpr(n) ==
  IF n.v # NoValue
  THEN <<[n EXCEPT !.k = "IntegerLiteral",
                   !.n = IF n.a[1].k = "DeclRef" THEN n.a[1].n ELSE NoName,
                   !.t = n.a[1].t, !.a = <<>>]>>
  ELSE Unwrapped(n)

WalkReference(n)  == <<n>>
WalkUnary(n)      == <<[n EXCEPT !.a = Visited(@)]>>
WalkOperator(n)   == <<[n EXCEPT !.a = Visited(@)]>>
WalkConstructor(n) == <<[n EXCEPT !.a = Visited(@)]>>
WalkArraySubscript(n) == <<[n EXCEPT !.a = Visited(@)]>>
WalkTraitExpr(n)  == <<n>>
WalkBinaryExpr(n) == <<[n EXCEPT !.a = Visited(@)]>>
WalkMember(n)     == <<[n EXCEPT !.b = Visited(@)]>>

\* An argument that the plugin leaves out (a default, a lambda) is no argument.
WalkMemberCall(n) == <<[n EXCEPT !.b = Visited(@), !.a = Visited(@)]>>
WalkCallExpr(n)   == <<[n EXCEPT !.a = Visited(@)]>>

\* Fewer than two parts that the plugin knows, and a ?: is its part.
WalkConditionalExpr(n) == Unwrapped(n)

\* The condition of a ?: b stands for its true value too.
WalkBinaryConditionalExpr(n) == <<[n EXCEPT !.a = Visited(@)]>>

WalkCommonExpr(n) ==
  CASE n.k = "BinaryOperator"   -> WalkBinaryExpr(n)
    [] n.k = "ImplicitCast"     -> <<[n EXCEPT !.a = WalkImplicitCastExpr(n), !.v = NoValue]>>
    [] n.k = "OperatorCall"     -> WalkOperator(n)
    [] n.k = "Call" /\ n.b # <<>> -> WalkMemberCall(n)
    [] n.k = "Call" /\ n.b = <<>> -> WalkCallExpr(n)
    [] n.k = "UnaryOperator"    -> WalkUnary(n)
    [] n.k = "Cleanups"         -> WalkExprWithCleanups(n)
    [] n.k = "Opaque"           -> WalkOpaqueValue(n)
    [] n.k = "Paren"            -> WalkParenExpr(n)
    [] n.k \in {"BindTemporary", "Materialize"} -> WalkTemporaries(n)
    [] n.k = "StaticCast"       -> <<[n EXCEPT !.a = WalkStaticCastExpr(n)]>>
    [] n.k = "CStyleCast"       -> <<[n EXCEPT !.a = WalkCStyleCastExpr(n)]>>
    [] n.k = "DefaultArg"       -> WalkDefaultArg(n)
    [] n.k = "Sizeof"           -> WalkTraitExpr(n)
    [] n.k = "New"              -> WalkNewExpr(n)
    [] n.k = "BinaryConditional" -> WalkBinaryConditionalExpr(n)
    [] n.k = "ReinterpretCast"  -> WalkReinterpretCast(n)
    [] n.k \in {"DeclRef", "IntegerLiteral", "Floating", "String", "Bool", "NULL", "This"} ->
         WalkReference(n)
    [] n.k = "MemberExpr"       -> WalkMember(n)
    [] n.k = "ConstCast"        -> WalkConstCast(n)
    [] n.k \in {"Predefined", "Lambda"} -> <<>>
    [] n.k = "Subscript"        -> WalkArraySubscript(n)
    [] n.k = "Conditional"      -> WalkConditionalExpr(n)
    [] n.k = "Construct"        -> WalkConstructor(n)
    [] n.k = "FunctionalCast"   -> WalkFunctionalCast(n)
    [] OTHER                    -> <<Unknown>>

-----------------------------------------------------------------------------
\* Statements.  inS is the plugin's inStructure.

\* Statement is all of the recursion.
RECURSIVE Statement(_, _)
WalkCompoundStmt(n, inS) == Statement(n, inS)

WalkVar(n) == <<[n EXCEPT !.a = Visited(@)]>>

\* Of several declarations in one statement the visitor gets a node it passes over.
WalkDeclStmt(n) ==
  LET kids == FlattenSeq([i \in DOMAIN n.a |-> WalkVar(n.a[i])])
  IN IF Len(kids) < 2 THEN kids ELSE <<[n EXCEPT !.a = kids]>>

\* The condition of an if, a while or a do.
WalkCondition(n) == WalkCommonExpr(n)

NoNode == [Unknown EXCEPT !.k = "None"]
One(nodes) == IF nodes = <<>> THEN NoNode ELSE nodes[1]
Block(nodes) == [Unknown EXCEPT !.k = "Compound", !.a = nodes]

WalkForBody(n, inS) == IF n.k = "Compound" THEN WalkCompoundStmt(n, inS) ELSE <<Unknown>>

WalkForStmt(n, inS) ==
  LET init == CASE n.a[1].k = "None"     -> <<>>
                [] n.a[1].k = "DeclStmt" -> WalkDeclStmt(n.a[1])
                [] OTHER                 -> <<Unknown>>
  IN <<[n EXCEPT !.a = <<One(init), One(WalkCommonExpr(n.a[2])), One(WalkCommonExpr(n.a[3])),
                         Block(WalkForBody(n.a[4], inS))>>]>>

WalkForRangeStmt(n, inS) ==
  <<[n EXCEPT !.a = <<One(WalkCommonExpr(n.a[1])), Block(WalkForBody(n.a[2], inS))>>]>>

\* A return or a break without braces is left out.
WalkIfThen(n, inS) ==
  CASE n.k \in {"ReturnStmt", "BreakStmt"} -> <<>>
    [] n.k = "Compound"       -> WalkCompoundStmt(n, inS)
    [] n.k = "BinaryOperator" -> WalkBinaryExpr(n)
    [] n.k = "OperatorCall"   -> WalkOperator(n)
    [] OTHER                  -> <<Unknown>>

WalkIfElse(n, inS) ==
  CASE n.k = "Compound"     -> WalkCompoundStmt(n, inS)
    [] n.k = "IfStmt"       -> Statement(n, inS)
    [] n.k = "OperatorCall" -> WalkOperator(n)
    [] OTHER                -> <<Unknown>>

WalkIfStmt(n, inS) ==
  <<[n EXCEPT !.b = IF @ = <<>> THEN <<>> ELSE WalkDeclStmt(@[1]),
              !.a = <<One(WalkCondition(@[1])), Block(WalkIfThen(@[2], inS))>>
                    \o (IF Len(@) = 3 THEN <<Block(WalkIfElse(@[3], inS))>> ELSE <<>>)]>>

WalkWhileStmt(n, inS) ==
  IF n.a[2].k # "Compound" THEN <<Unknown>>
  ELSE <<[n EXCEPT !.a = <<One(WalkCondition(@[1])), Block(WalkCompoundStmt(@[2], inS))>>]>>

WalkDoStmt(n, inS) ==
  IF n.a[1].k # "Compound" THEN <<Unknown>>
  ELSE <<[n EXCEPT !.a = <<Block(WalkCompoundStmt(@[1], inS))>>]>>

\* return; is no node.
WalkReturnStmt(n) ==
  LET kids == Visited(n.a) IN IF kids = <<>> THEN <<>> ELSE <<[n EXCEPT !.a = kids]>>

-----------------------------------------------------------------------------
\* Switch statements.

\* A case has the one statement after its label: a block, another case, or a
\* statement that matters.
WalkCase(n, inS) ==
  LET sub  == n.a[1]
      code == CASE sub.k = "Compound"   -> WalkCompoundStmt(sub, inS)
                [] sub.k = "WhileStmt"  -> Statement(sub, inS)
                [] sub.k = "CaseStmt"   -> Statement(sub, inS)
                [] sub.k = "ReturnStmt" -> WalkReturnStmt(sub)
                [] sub.k = "BreakStmt"  -> <<>>
                [] sub.k \in {"Paren", "Call", "BinaryOperator", "Cleanups"} ->
                     IF Mentions(sub, inS) THEN WalkCommonExpr(sub) ELSE <<>>
                [] sub.k = "IfStmt" ->
                     IF Mentions(sub, inS) THEN Statement(sub, inS) ELSE <<>>
                [] OTHER -> <<Unknown>>
  IN <<[n EXCEPT !.k = "code", !.a = code]>>

WalkDefaultStmt(n, inS) ==
  LET sub == n.a[1]
  IN CASE sub.k = "ReturnStmt" -> WalkReturnStmt(sub)
       [] sub.k = "Compound"   -> WalkCompoundStmt(sub, inS)
       [] sub.k \in {"BreakStmt", "Paren"} -> <<>>
       [] sub.k = "DeclStmt"   -> WalkDeclStmt(sub)
       [] sub.k \in {"BinaryOperator", "Call"} -> WalkCommonExpr(sub)
       [] OTHER -> <<Unknown>>

\* What stands beside the cases, after the first statement of one without braces.
WalkBeside(n, inS) ==
  CASE n.k = "CaseStmt"    -> Statement(n, inS)
    [] n.k = "DefaultStmt" -> WalkDefaultStmt(n, inS)
    [] n.k \in {"Call", "BinaryOperator"} -> WalkCommonExpr(n)
    [] n.k \in {"BreakStmt", "SwitchStmt", "ReturnStmt"} -> <<>>
    [] n.k = "IfStmt"      -> Statement(n, inS)
    [] OTHER               -> <<Unknown>>

WalkSwitchStmt(n, inS) ==
  LET cond == n.a[1]
      var  == CASE cond.k = "ImplicitCast" -> WalkImplicitCastExpr(cond)
                [] cond.k = "Call"         -> WalkCommonExpr(cond)
                [] OTHER                   -> <<Unknown>>
      rest == FlattenSeq([i \in 1..Len(n.a) - 1 |-> WalkBeside(n.a[i + 1], inS)])
  IN <<[n EXCEPT !.k = "switch", !.a = var \o rest]>>

-----------------------------------------------------------------------------
\* Blocks.

\* A block has only the statements that matter, and is none if none does.
WalkBodyStmt(n, inS) ==
  IF n.k # "ReturnStmt" /\ ~Mentions(n, inS) THEN <<>> ELSE Statement(n, inS)

Statements(n, inS) ==
  LET kids == FlattenSeq([i \in DOMAIN n.a |-> WalkBodyStmt(n.a[i], inS)])
  IN IF kids = <<>> THEN <<>> ELSE <<[n EXCEPT !.a = kids]>>

Statement(n, inS) ==
  CASE n.k = "ReturnStmt"              -> WalkReturnStmt(n)
    [] n.k \in {"NullStmt", "LabelStmt", "DeleteExpr"} -> <<>>
    [] n.k = "DeclStmt"                -> WalkDeclStmt(n)
    [] n.k \in {"Call", "OperatorCall", "BinaryOperator", "Cleanups", "Paren"} ->
         WalkCommonExpr(n)
    [] n.k = "CStyleCast"              -> WalkCStyleCastExpr(n)
    [] n.k = "ForStmt"                 -> WalkForStmt(n, inS)
    [] n.k = "IfStmt"                  -> WalkIfStmt(n, inS)
    [] n.k = "ForRangeStmt"            -> WalkForRangeStmt(n, inS)
    [] n.k = "WhileStmt"               -> WalkWhileStmt(n, inS)
    [] n.k = "SwitchStmt"              -> WalkSwitchStmt(n, inS)
    [] n.k = "CaseStmt"                -> WalkCase(n, inS)
    [] n.k = "DoStmt"                  -> WalkDoStmt(n, inS)
    [] n.k = "Compound"                -> Statements(n, inS)
    [] OTHER                           -> <<Unknown>>

-----------------------------------------------------------------------------
\* The switches of an interface.

\* FindSwitch, of a function onTransact: the switches of its body, of which
\* parse_one_interface takes the last.
FindSwitch(body) == SelectSeq(body.a, LAMBDA n : n.k = "SwitchStmt")
WalkTransactions(body) ==
  LET switches == FindSwitch(body)
  IN IF switches = <<>> THEN <<>> ELSE Tail(Statement(Last(switches), FALSE)[1].a)
=============================================================================
