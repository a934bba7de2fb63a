----------------------------- MODULE Extraction -----------------------------
(***************************************************************************)
(* From the source of a function to its model.  The clang plugin           *)
(* (BinderPlugin) writes the tree of a function; parse_interface.py,       *)
(* parse_structure.py or parse_raw_structure.py hands it, one transaction  *)
(* at a time for an interface, to a new AST visitor (AstVisitor), and      *)
(* keeps what its parcel manager dumps.                                    *)
(*                                                                         *)
(* What the model should say is defined here by running the source: Run    *)
(* gives the accesses to the parcels in their order, for an assignment of  *)
(* values to what is read.  A model says the same if one of its            *)
(* possibilities, without the variables whose guards do not hold, is that  *)
(* list: this is what the fuzzer does with it.                             *)
(***************************************************************************)
EXTENDS BinderPlugin

CONSTANTS Source,   \* what is given: a function, [entry, body], where entry is "onTransact",
                    \* "function" or "record"
          Value     \* what a read may give; 0 is false

\* VisitFunctionDecl and VisitCXXRecordDecl: the transactions of an interface, the body
\* of a function with its parameters, the fields of a structure.
Written(s) ==
  CASE s.entry = "onTransact" ->
         SelectSeq(WalkTransactions(s.body), LAMBDA n : n.k \in {"code", "Unknown"})
    [] s.entry = "function"   ->
         LET body == WalkCompoundStmt(s.body, TRUE)
         IN [i \in DOMAIN body |-> [Unknown EXCEPT !.k = "function", !.a = <<body[i]>>,
                                                    !.b = s.body.b]]
    [] s.entry = "record"     -> <<s.body>>

VARIABLES phase, source, trees, models
vars == <<phase, source, trees, models>>

Init == phase = "source" /\ source \in Source /\ trees = <<>> /\ models = <<>>

\* The plugin stops at a node it does not know, and writes nothing of it.
Wrote(written) ==
  IF \A i \in DOMAIN written : IsKnown(written[i])
  THEN phase' = "tree" /\ trees' = written
  ELSE phase' = "failed" /\ UNCHANGED trees

RunPlugin == phase = "source" /\ Wrote(Written(source)) /\ UNCHANGED <<source, models>>

\* The model of the next tree; an unknown statement ends the program.
Walked(dump) ==
  /\ phase' = IF dump.exited THEN "failed" ELSE phase
  /\ models' = IF dump.exited THEN models ELSE Append(models, dump)
  /\ trees' = Tail(trees)
  /\ UNCHANGED source

\* A new visitor walks each tree.
Parsing(kind) == phase = "tree" /\ trees # <<>> /\ Head(trees).k = kind

ParseTransaction == Parsing("code")     /\ Walked(ParseOneTransaction(Head(trees)))
ParseFunction    == Parsing("function") /\ Walked(WalkParcelFunction(Head(trees)))
ParseRecord      == Parsing("record")   /\ Walked(WalkRawStructure(Head(trees)))

Finish == phase = "tree" /\ trees = <<>> /\ phase' = "done" /\ UNCHANGED <<source, trees, models>>

Next == RunPlugin \/ ParseTransaction \/ ParseFunction \/ ParseRecord \/ Finish
Spec == Init /\ [][Next]_vars

-----------------------------------------------------------------------------
\* What a run of the source does.  r is [env, in, out, ret, done, broken]: where the
\* value of a name was read, the accesses so far, and how the run goes on.

RECURSIVE Core(_)
Core(n) == IF n.k \in {"Paren", "Cleanups", "ImplicitCast", "StaticCast", "CStyleCast",
                       "BindTemporary", "Materialize", "ConstCast"} /\ n.v = NoValue
           THEN Core(n.a[1]) ELSE n
\* An access is a call of a method of a parcel, or a call that is handed one.
IsParcelNode(n) == n.k = "DeclRef" /\ n.t = <<"Parcel">>
IsMethod(n) == n.k = "Call" /\ n.b # <<>> /\ IsParcelNode(n.b[1])
Handed(n)   == {Core(x).n : x \in {y \in Range(n.a) : IsParcelNode(Core(y))}}
IsAccess(n) == IsMethod(n) \/ (n.k \in {"Call", "Construct"} /\ Handed(n) # {})
IsAddress(n) == n.k = "UnaryOperator" /\ n.o = "&"

\* The names that stand for values, and those that are assigned one.
IsName(n) == n.k \in {"DeclRef", "MemberExpr"}
RECURSIVE NameOf(_)
NameOf(n) == IF n.k = "MemberExpr" /\ n.b # <<>> THEN NameOf(Core(n.b[1])) \o n.n ELSE n.n

KeyOf(r, n) ==
  LET c == Core(n)
  IN CASE c.v # NoValue -> c.v
       [] IsAccess(c)   -> c.s
       [] IsName(c) /\ NameOf(c) \in DOMAIN r.env -> r.env[NameOf(c)]
       [] OTHER -> NameOf(c)

Put2(f, x, y) == [k \in DOMAIN f \cup {x} |-> IF k = x THEN y ELSE f[k]]

\* read(buffer, size) and write(buffer, size); and what only looks at a parcel
Sized      == {"read", "write"}
Untouching == {"setPointer", "dataSize", "dataAvail", "appendFrom"}

Emit(r, n) ==
  LET item == [site |-> n.s,
               size |-> IF IsMethod(n) /\ n.o \in Sized THEN KeyOf(r, n.a[2]) ELSE NoName]
      into == {Core(n.a[i]).a[1].n : i \in {j \in DOMAIN n.a : IsAddress(Core(n.a[j]))}}
      parcels == IF IsMethod(n) THEN {n.b[1].n} ELSE Handed(n)
  IN IF n.o \in Untouching THEN r
     ELSE [r EXCEPT
             !.in  = IF <<"data">> \in parcels THEN Append(@, item) ELSE @,
             !.out = IF <<"reply">> \in parcels THEN Append(@, item) ELSE @,
             !.env = IF into = {} THEN @ ELSE Put2(@, CHOOSE x \in into : TRUE, n.s)]

RECURSIVE Touch(_, _), TouchAll(_, _)
TouchAll(r, ns) ==
  IF ns = <<>> THEN r ELSE TouchAll(Touch(r, Head(ns)), Tail(ns))
Touch(r, n) ==
  LET inner == TouchAll(r, n.b \o n.a)
      named == CASE n.k = "Var" /\ n.a # <<>> -> <<n.n, n.a[1]>>
                 [] n.k = "BinaryOperator" /\ n.o = "=" -> <<n.a[1].n, n.a[2]>>
                 [] OTHER -> <<>>
  IN CASE IsAccess(n) -> Emit(inner, n)
       [] named # <<>> ->
            [inner EXCEPT !.env = Put2(@, named[1],
               IF IsAccess(Core(named[2])) THEN Core(named[2]).s ELSE named[1])]
       [] OTHER -> inner

RECURSIVE Number(_, _, _), Holds(_, _, _)
Number(sigma, r, n) ==
  LET c == Core(n) IN IF c.v # NoValue THEN c.v[2] ELSE sigma[KeyOf(r, c)]
Holds(sigma, r, n) ==
  LET c == Core(n)
      x == Number(sigma, r, c.a[1])
      y == Number(sigma, r, c.a[2])
  IN CASE c.k = "UnaryOperator"  -> ~Holds(sigma, r, c.a[1])
       [] c.k \in {"BinaryOperator", "OperatorCall"} ->
            \/ c.o \in {"==", "operator=="} /\ x = y
            \/ c.o \in {"!=", "operator!="} /\ x # y
            \/ c.o = "<"  /\ x < y
            \/ c.o = "&&" /\ Holds(sigma, r, c.a[1]) /\ Holds(sigma, r, c.a[2])
            \/ c.o = "||" /\ (Holds(sigma, r, c.a[1]) \/ Holds(sigma, r, c.a[2]))
       [] OTHER -> Number(sigma, r, c) # 0

RECURSIVE Run(_, _, _), RunAll(_, _, _), Labels(_), Inside(_)
Labels(n) == IF n.k = "CaseStmt" THEN {n.v} \cup Labels(n.a[1]) ELSE {}
Inside(n) == IF n.k \in {"CaseStmt", "DefaultStmt"} THEN Inside(n.a[1]) ELSE n

\* The statements of a switch from the label on that is met.
FromLabel(sigma, r, n) ==
  LET rest == Tail(n.a)
      value == Const(Number(sigma, r, n.a[1]))
      met  == {i \in DOMAIN rest : value \in Labels(rest[i])}
      all  == UNION {Labels(rest[i]) : i \in DOMAIN rest}
      def  == {i \in DOMAIN rest : rest[i].k = "DefaultStmt"}
      from == IF value \in all THEN met ELSE def
  IN IF from = {} THEN <<>>
     ELSE [j \in 1..Len(rest) - First(from) + 1 |-> Inside(rest[First(from) + j - 1])]

RunAll(sigma, r, ns) ==
  IF ns = <<>> \/ r.done \/ r.broken THEN r
  ELSE RunAll(sigma, Run(sigma, r, Head(ns)), Tail(ns))

ItemsOf(ns) == [i \in DOMAIN ns |-> [site |-> ns[i].s, size |-> NoName]]

\* SafeInterface: the check of the interface, then the parameters.
Delegate(sigma, r, n) ==
  LET params  == n.a[3].a[1].a
      In(ps)  == SelectSeq(ps, LAMBDA p : p.t[1] # "*")
      Out(ps) == SelectSeq(ps, LAMBDA p : p.t[1] = "*")
  IN IF sigma[n.s] = 0 THEN [r EXCEPT !.in = @ \o ItemsOf(<<n>>), !.done = TRUE]
     ELSE [r EXCEPT !.in  = @ \o ItemsOf(<<n>> \o In(params)),
                    !.out = @ \o ItemsOf(Out(params))]

\* A loop is run once.
Run(sigma, r, n) ==
  CASE n.k \in {"Compound", "DeclStmt"} -> RunAll(sigma, r, n.a)
    [] n.k = "IfStmt" ->
         LET t == Touch(r, n.a[1])
         IN IF Holds(sigma, t, n.a[1]) THEN Run(sigma, t, n.a[2])
            ELSE IF Len(n.a) = 3 THEN Run(sigma, t, n.a[3]) ELSE t
    [] n.k \in {"ForStmt", "WhileStmt", "ForRangeStmt"} ->
         Run(sigma, TouchAll(r, Front(n.a)), Last(n.a))
    [] n.k = "DoStmt" -> Run(sigma, r, n.a[1])
    [] n.k = "SwitchStmt" ->
         LET t == Touch(r, n.a[1])
         IN [RunAll(sigma, t, FromLabel(sigma, t, n)) EXCEPT !.broken = FALSE]
    [] n.k = "record"     -> [r EXCEPT !.in = ItemsOf(n.a)]
    [] n.o = "callLocal"  -> Delegate(sigma, r, n)
    [] n.k = "BreakStmt"  -> [r EXCEPT !.broken = TRUE]
    [] n.k = "ReturnStmt" ->
         LET t == TouchAll(r, n.a)
         IN [t EXCEPT !.done = TRUE, !.ret = IF n.a = <<>> THEN NoValue ELSE Core(n.a[1]).v]
    [] OTHER -> Touch(r, n)

Trace(sigma, body) ==
  Run(sigma, [env |-> <<>>, in |-> <<>>, out |-> <<>>, ret |-> NoValue, done |-> FALSE,
              broken |-> FALSE], body)

\* What is read, and the locals; of these, what a condition depends on.
Accesses(n) == {c.s : c \in {x \in Nodes(n) : IsAccess(x)}}
Names(n)    == {NameOf(c) : c \in {x \in Nodes(n) : IsName(x)}}
Assigns(n)  == n.k = "Var" \/ (n.k = "BinaryOperator" /\ n.o = "=") \/ IsAccess(n)
Assigned(n) == IF n.k = "Var" THEN {n.n} ELSE Names(n)

Keys(body) == Accesses(body) \cup Names(body)
ConditionKeys(body) ==
  LET tests  == {n.a[1] : n \in {x \in Nodes(body) : x.k \in {"IfStmt", "SwitchStmt"}}}
      names  == UNION {Names(t) : t \in tests}
      from   == {x \in Nodes(body) : Assigns(x) /\ Assigned(x) \cap names # {}}
      local  == {x \in Nodes(body) : x.o = "callLocal"}
      reads  == UNION {Accesses(n) : n \in tests \cup from \cup local}
      locals == names \ UNION {Assigned(x) : x \in from}
  IN reads \cup locals

\* The assignments that matter: what no condition reads is 0.
Assignments(body) ==
  {[k \in Keys(body) |-> IF k \in ConditionKeys(body) THEN f[k] ELSE 0] :
     f \in [ConditionKeys(body) -> Value]}

-----------------------------------------------------------------------------
\* What a model says.

Variable(M, name) ==
  M.variable[First({i \in DOMAIN M.variable : M.variable[i].name = name})]
Has(M, name) == \E i \in DOMAIN M.variable : M.variable[i].name = name
ModelKey(M, name) ==
  IF ~Has(M, name) THEN name
  ELSE LET v == Variable(M, name)
       IN IF IsInput(v.st) THEN v.site ELSE IF v.value # NoValue THEN v.value ELSE name

RECURSIVE Evaluates(_, _, _)
Evaluates(sigma, M, e) ==
  LET x == Evaluates(sigma, M, e.args[1])
      y == Evaluates(sigma, M, e.args[2])
      Bit(b) == IF b THEN 1 ELSE 0
  IN CASE IsLeaf(e) ->
            LET k == ModelKey(M, e.name)
            IN IF e.value # NoValue THEN e.value[2] ELSE IF k \in DOMAIN sigma THEN sigma[k] ELSE 0
       [] e.op = ""   -> x
       [] e.op = "!"  -> Bit(x = 0)
       [] e.op \in {"==", "operator=="} -> Bit(x = y)
       [] e.op \in {"!=", "operator!="} -> Bit(x # y)
       [] e.op = "<"  -> Bit(x < y)
       [] e.op = "&&" -> Bit(x # 0 /\ y # 0)
       [] e.op = "||" -> Bit(x # 0 \/ y # 0)

GuardsHold(sigma, M, v) ==
  \A g \in Range(v.under) :
    LET c == M.constraint[First({i \in DOMAIN M.constraint : M.constraint[i].name = g.name})]
    IN (Evaluates(sigma, M, c.cond) # 0) = g.status

\* The variables of a list that are there under sigma.
Kept(sigma, M, names) ==
  SelectSeq([i \in DOMAIN names |-> Variable(M, names[i])],
            LAMBDA v : GuardsHold(sigma, M, v))

Agree(M, items, kept) ==
  /\ Len(items) = Len(kept)
  /\ \A i \in DOMAIN items :
       /\ items[i].site = kept[i].site
       /\ items[i].size # NoName => items[i].size = ModelKey(M, kept[i].size)

-----------------------------------------------------------------------------
\* What the properties are about: the bodies of the source and their models.

Bodies ==
  IF source.entry # "onTransact" THEN <<source.body>>
  ELSE LET cases == SelectSeq(Tail(Last(FindSwitch(source.body)).a),
                              LAMBDA n : n.k = "CaseStmt")
       IN [i \in DOMAIN cases |-> Inside(cases[i])]

Extracted == IF phase = "done" THEN DOMAIN models ELSE {}

\* The functions that the extractor is right about.  A branch may return at its end,
\* if it is the first of an if that is in no other block; nothing in a loop or a
\* switch returns.  README.md says what becomes of the others.
Returns(n) == \E c \in Nodes(n) : c.k = "ReturnStmt"

RECURSIVE HandledBlock(_, _), HandledStmt(_, _)
HandledBlock(n, outermost) ==
  \A i \in DOMAIN n.a :
    /\ HandledStmt(n.a[i], outermost)
    /\ n.a[i].k = "ReturnStmt" => i = Len(n.a)
HandledStmt(n, outermost) ==
  CASE n.k = "IfStmt" ->
         /\ Returns(n.a[2]) => outermost
         /\ HandledBlock(n.a[2], FALSE)
         /\ Len(n.a) = 3 => HandledBlock(n.a[3], FALSE) /\ ~Returns(n.a[3])
    [] n.k \in {"ForStmt", "WhileStmt", "ForRangeStmt"} ->
         HandledBlock(Last(n.a), FALSE) /\ ~Returns(n)
    [] n.k = "DoStmt" ->
         HandledBlock(n.a[1], outermost) /\ Last(n.a[1].a).k # "ReturnStmt"
    [] n.k = "SwitchStmt" -> ~Returns(n)
    [] OTHER -> TRUE
\* A variable that is read twice is tested in a comparison.
TestsLatest(body) ==
  \A n \in {x \in Nodes(body) : x.k = "IfStmt" /\ IsName(Core(x.a[1]))} :
    Cardinality({x \in Nodes(body) : Assigns(x) /\ NameOf(Core(n.a[1])) \in Assigned(x)}) <= 1

Handled(body) == HandledBlock(body, TRUE) /\ TestsLatest(body)

Says(sigma, M, body) ==
  LET run == Trace(sigma, body)
  IN \E p \in Range(M.possibility) :
       /\ Agree(M, run.in, Kept(sigma, M, p.data))
       /\ Agree(M, run.out, Kept(sigma, M, p.reply))
       /\ run.ret # NoValue => ModelKey(M, p.ret) = run.ret

\* Every path of a function is in its model: for each assignment of values one of the
\* possibilities reads and writes what the function reads and writes, in its order,
\* with sizes that were read for the same variable, and returns the same constant.
PathFound ==
  \A i \in Extracted : Handled(Bodies[i]) =>
     \A sigma \in Assignments(Bodies[i]) : Says(sigma, models[i], Bodies[i])

Prefix(M, items, kept) ==
  Len(kept) <= Len(items) /\ Agree(M, SubSeq(items, 1, Len(kept)), kept)

ReturnsBeforeElse(body) ==
  \E n \in Nodes(body) : n.k = "IfStmt" /\ Len(n.a) = 3 /\ Returns(n.a[2])

\* No possibility has a path that the function does not have: it says what the
\* function does up to some point, where a branch that was not taken returns.
NoOtherPath ==
  \A i \in Extracted : Handled(Bodies[i]) /\ ~ReturnsBeforeElse(Bodies[i]) =>
     \A sigma \in Assignments(Bodies[i]), p \in Range(models[i].possibility) :
        LET run == Trace(sigma, Bodies[i]) IN
        /\ Prefix(models[i], run.in, Kept(sigma, models[i], p.data))
        /\ Prefix(models[i], run.out, Kept(sigma, models[i], p.reply))

Once(records, name) == Cardinality({i \in DOMAIN records : records[i].name = name}) = 1

IsLoop(n) == n.k \in {"ForStmt", "WhileStmt", "ForRangeStmt"}
LoopsAround(body, site) ==
  {n.s : n \in {x \in Nodes(body) : IsLoop(x) /\ IsStrictPrefix(x.s, site)}}
Located(M) == {v \in Range(M.variable) : v.site # NoSite /\ Last(v.name) # Item}

\* Variables have as many loops in common as their accesses have in the source, and
\* every loop that a variable is in was recorded once, with its condition.
LoopsNested ==
  \A i \in Extracted : Handled(Bodies[i]) =>
     /\ \A v, w \in Located(models[i]) :
          Cardinality(Range(v.loop) \cap Range(w.loop))
            = Cardinality(LoopsAround(Bodies[i], v.site) \cap LoopsAround(Bodies[i], w.site))
     /\ \A v \in Range(models[i].variable) : \A l \in Range(v.loop) :
          Once(models[i].loop, l)

\* A name means one variable: no possibility lists a name twice or one that is not
\* there, no two variables and no two possibilities have the same name or number.
NamesUnique ==
  \A i \in Extracted : Handled(Bodies[i]) =>
     LET M == models[i] IN
     /\ IsInjective([j \in DOMAIN M.variable |-> M.variable[j].name])
     /\ IsInjective([j \in DOMAIN M.possibility |-> M.possibility[j].id])
     /\ \A p \in Range(M.possibility) :
          /\ IsInjective(p.data) /\ IsInjective(p.reply)
          /\ \A name \in Range(p.data \o p.reply) : Has(M, name)

RECURSIVE Leaves(_)
Leaves(e) == IF IsLeaf(e) THEN {e} ELSE UNION {Leaves(x) : x \in Range(e.args)}

\* The fuzzer can tell whether an input is wanted when it gets to it: each of its
\* guards is one constraint, about constants, locals, and inputs before it.
GuardsKnown ==
  \A i \in Extracted : Handled(Bodies[i]) =>
     LET M == models[i] IN
     \A p \in Range(M.possibility) : \A j \in DOMAIN p.data :
        \A g \in Range(Variable(M, p.data[j]).under) :
           /\ Once(M.constraint, g.name)
           /\ \A c \in Range(M.constraint) : \A x \in Leaves(c.cond) :
                c.name = g.name /\ Has(M, x.name) /\ IsInput(Variable(M, x.name).st)
                  => x.name \in Range(SubSeq(p.data, 1, j - 1))

\* parcel.py:359-360: "When meeting return statement, we should move active parcel into
\* finished parcel".  So every path of a function is in a possibility of its own, also
\* one that ends in a branch after else: what a possibility has is a path, or a part.
EveryReturnEnds ==
  \A i \in Extracted : \A sigma \in Assignments(Bodies[i]) :
     Says(sigma, models[i], Bodies[i])

\* What the plugin writes the visitor can walk.
NothingUnknown == phase # "failed"

\* Whatever else has to be extracted for a function is noted: each function that is
\* handed a parcel, and each structure that is read as it is.  (A structure with
\* functions of its own, and what Parcel has templates for, the plugin finds.)
Itself == {"callLocal", "readFromParcel", "writeToParcel"}
Wanted(body) ==
  {n.o : n \in {x \in Nodes(body) : x.k = "Call" /\ ~IsMethod(x) /\ Handed(x) # {}
                                    /\ x.o \notin Itself \cup NotSpecial}}
    \cup {"struct" : n \in {x \in Range(body.a) : x.k = "Field" /\ Last(x.t) = "struct"}}
FoundAll ==
  \A i \in Extracted : \A f \in Wanted(Bodies[i]) :
     \E what \in models[i].found : what[2] = f
=============================================================================
