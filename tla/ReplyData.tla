----------------------------- MODULE ReplyData -----------------------------
(* Replies with every type of variable, with structures in structures, arrays *)
(* and functions, and what services write for them.                           *)
EXTENDS Naturals, SequencesExt

CONSTANTS
  Message, Word, String16, Other, BlobLimit, \* as in ReplyReader
  Ints, Sizes  \* the integers and sizes that services write

V0 == [type |-> "int", of |-> {}, by |-> "number", n |-> 0, args |-> <<>>, present |-> FALSE,
       guard |-> 0]
T(t) == [V0 EXCEPT !.type = t]
If(x, v) == [v EXCEPT !.guard = x]
Sized(t, x) == [V0 EXCEPT !.type = t, !.by = "name", !.n = x]
Vector(t) == [V0 EXCEPT !.type = t, !.by = "own"]
Struct(p) == [V0 EXCEPT !.type = "parcel", !.of = {p}]
Calls(S, args) == [V0 EXCEPT !.type = "parcel", !.of = S, !.args = args]

MCTable == [
  values |-> <<T("int"), T("string"), T("utf8"), If(1, T("fd")), T("binder"), T("literal"),
               Vector("bytes"), Sized("bytes", 1), [V0 EXCEPT !.type = "status", !.n = 10], T("int"),
               Sized("blob", 1), If(10, T("int"))>>,
  flat   |-> <<Struct("buffer"), Struct("rect"), Struct("point"), [Struct("attr") EXCEPT !.n = 2],
               T("flatbool"), T("int")>>,
  nest   |-> <<T("int"), Vector("array"), Struct("elem"), If(1, Struct("elem")), Struct("outer"),
               [Struct("elem") EXCEPT !.present = TRUE]>>,
  arrays |-> <<Vector("array"), Vector("array"), T("int"), T("int"), Sized("array", 4), T("int"), T("int"),
               If(8, Sized("array", 8)), T("fd")>>,
  holder |-> <<Struct("box")>>,
  call   |-> <<T("int"), Calls({"f"}, <<1, 0>>), T("int"), Calls({"g"}, <<5>>), T("int")>>,
  invoke |-> <<T("int"), Calls({"f", "g"}, <<1, 0>>), T("int"), Sized("array", 6), T("fd"), T("int")>>,
  exits  |-> <<If(8, T("int8")), If(8, T("status")), If(8, Calls({}, <<>>)), If(8, Struct("either")),
               If(8, [Sized("parcel", 8) EXCEPT !.of = {"attr"}]), If(8, T("int")),
               If(8, Struct("buffer")), T("int")>>,
  buffer |-> <<T("int")>>, rect |-> <<T("int"), T("string")>>, point |-> <<T("int")>>,
  attr   |-> <<T("int")>>, either |-> <<T("int")>>,
  elem   |-> <<T("int"), T("string"), If(1, T("fd"))>>,
  outer  |-> <<Struct("elem"), T("int"), [Struct("attr") EXCEPT !.n = 1]>>,
  box    |-> <<T("int"), Vector("array"), T("int"), [Struct("elem") EXCEPT !.present = TRUE],
               T("binder"), T("fd")>>,
  f      |-> <<T("int"), T("int"), If(1, T("fd")), T("string")>>,
  g      |-> <<T("int"), T("int"), If(1, T("int"))>>]

MCParcel == DOMAIN MCTable
AllOf(p) == [x \in DOMAIN MCTable[p] |-> x]
MCItems == [p \in MCParcel |->
  CASE p = "values" -> <<<<1, 2, 3, 4, 5, 6>>, <<1, 7, 8, 9, 11, 12>>>>
    [] p = "nest" -> <<<<1, 2, 4>>, <<5, 6>>>> [] p = "arrays" -> <<<<1, 4, 5>>, <<4, 5, 9, 7>>>>
    [] p = "call" -> <<<<1, 2, 3>>, <<4, 3>>>> [] p = "invoke" -> <<<<1, 2, 3, 4>>>> [] p = "exits" -> <<<<1, 2, 3, 4, 5, 6, 7>>>>
    [] p = "elem" -> <<<<2>>, <<1, 2, 3>>>> [] p = "box" -> <<<<1, 2, 4, 5, 6>>>>
    [] p = "f" -> <<<<3, 4>>>> [] p = "g" -> <<<<3>>>>
    [] OTHER -> <<AllOf(p)>>]
MCKind == [p \in MCParcel |->
  CASE p = "buffer" -> "flattenable" [] p = "rect" -> "light" [] p = "point" -> "fixed"
    [] p = "attr" -> "raw" [] p = "either" -> "union" [] p \in {"f", "g"} -> "function"
    [] p \in {"elem", "outer", "box"} -> "parcelable" [] OTHER -> "transaction"]
MCParams == [p \in MCParcel |-> IF MCKind[p] = "function" THEN <<1, 2>> ELSE <<>>]

MCKnown == [m \in MCParcel |-> CASE m = "call" -> 5 :> 1 [] m = "arrays" -> 8 :> 2 [] OTHER -> <<>>]

-----------------------------------------------------------------------------
(* What services write: the last possibility of structures, the given one of  *)
(* transactions.                                                              *)
C(v, path) == <<[v |-> v, tag |-> path]>>
Many(n, v, path) == [i \in 1..n |-> [v |-> v, tag |-> path]]
Both(A, B) == {a \o b : a \in A, b \in B}
Put(f, x, v) == [y \in DOMAIN f \cup {x} |-> IF y = x THEN v ELSE f[y]]
Value(f, x) == IF x \in DOMAIN f THEN f[x] ELSE Word - 1

RECURSIVE Said(_, _, _, _), SaidAll(_, _, _, _), Elements(_, _, _, _, _)

SaidAll(p, xs, path, known) ==
  IF xs = <<>> THEN {<<>>}
  ELSE LET x == Head(xs)  v == MCTable[p][x]  at == path \o <<<<x, 0>>>> IN
       IF v.guard # 0 /\ (v.guard \notin DOMAIN known \/ known[v.guard] = 0)
       THEN SaidAll(p, Tail(xs), path, known)
       ELSE IF v.type = "int"
       THEN UNION {Both({C(n, at)}, SaidAll(p, Tail(xs), path, Put(known, x, n))) : n \in Ints}
       ELSE Both(Said(p, x, at, known),
                 SaidAll(p, Tail(xs), path, IF v.type = "status" THEN Put(known, v.n, 0) ELSE known))

\* The elements of an array: any first one, and others that are as long as they can be.
Longest(S) == {CHOOSE s \in S : \A t \in S : Len(t) <= Len(s)}
Elements(p, x, base, from, n) ==
  IF from > n THEN {<<>>}
  ELSE LET S == Said(p, x + 1, base \o <<<<x, from>>>>, <<>>)
       IN Both(IF from = 1 THEN S ELSE Longest(S), Elements(p, x, base, from + 1, n))

Structure(q, v, at, known) ==
  LET body == SaidAll(q, Last(MCItems[q]), at,
                      [y \in {MCParams[q][i] : i \in {j \in DOMAIN v.args : v.args[j] # 0}} |->
                         Value(known, v.args[CHOOSE i \in DOMAIN v.args : MCParams[q][i] = y])])
  IN CASE MCKind[q] = "raw" -> {Many(v.n, Other, at)}
       [] MCKind[q] = "flattenable" ->
            {C(n, at) \o C(fds, at) \o Many(n + fds, Other, at) : n \in Sizes, fds \in {0, 2}}
       [] MCKind[q] = "light" -> Both({C(2, at)}, body)
       [] OTHER -> Both({IF v.present THEN C(1, at) ELSE <<>>}, body)

Said(p, x, at, known) ==
  LET v == MCTable[p][x]
      sizes == CASE v.by = "own" -> Sizes [] v.by = "number" -> {v.n} [] OTHER -> {Value(known, v.n)}
      head(n) == IF v.by = "own" THEN C(n, at) ELSE <<>>
      base == IF Last(at)[2] = 0 THEN Front(at) ELSE at
  IN CASE v.type = "int" -> {C(n, at) : n \in Ints}
       [] v.type \in {"string", "utf8"} -> {C(String16, at)}
       [] v.type \in {"fd", "binder", "literal"} -> {C(Other, at)}
       [] v.type \in {"flatbool", "status"} -> {C(0, at)}
       [] v.type = "bytes" /\ v.by = "own" -> {C(n, at) \o Many(n, Other, at) : n \in Sizes}
       [] v.type = "bytes" -> {[i \in 1..n |-> [v |-> Other, tag |-> at \o <<<<0, i>>>>]] : n \in sizes}
       [] v.type = "blob" -> {IF n > BlobLimit THEN C(1, at) \o C(Other, at)
                              ELSE C(0, at) \o Many(n, Other, at) : n \in sizes}
       [] v.type = "array" -> UNION {Both({head(n)}, Elements(p, x, base, 1, IF n = Word - 1 THEN 0 ELSE n)) : n \in sizes}
       [] v.type = "parcel" -> UNION {Structure(q, v, at, known) : q \in v.of}
       [] OTHER -> {<<>>}

MCReplies == [m \in Message |-> [k \in DOMAIN MCItems[m] |-> SaidAll(m, MCItems[m][k], <<>>, MCKnown[m])]]
=============================================================================
