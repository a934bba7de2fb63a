----------------------------- MODULE WriterData -----------------------------
(* Transactions with a loop around an array, with strings, blobs and files,   *)
(* with flattenable and other structures in one another, with raw structures  *)
(* and unions, with function calls, and with what writers refuse.             *)
EXTENDS Naturals, Sequences

V0 == [type |-> "int", of |-> {}, by |-> "number", n |-> 0, args |-> <<>>, present |-> FALSE,
       guarded |-> FALSE, dependency |-> FALSE, untried |-> FALSE, erases |-> {}]
T(t) == [V0 EXCEPT !.type = t]
SizedBy(t, x) == [V0 EXCEPT !.type = t, !.by = "name", !.n = x]
Vector(t) == [V0 EXCEPT !.type = t, !.by = "own"]
Struct(p) == [V0 EXCEPT !.type = "parcel", !.of = {p}]
Calls(S, args) == [V0 EXCEPT !.type = "parcel", !.of = S, !.args = args]

MCTable == [
  loop    |-> <<T("token"), [T("int") EXCEPT !.dependency = TRUE], SizedBy("array", 2),
                [T("int") EXCEPT !.guarded = TRUE]>>,
  strings |-> <<T("token"), [T("string") EXCEPT !.guarded = TRUE], T("utf8"), T("binder"), T("fd"),
                Vector("bytes"), [T("int") EXCEPT !.untried = TRUE], SizedBy("blob", 7),
                [T("string") EXCEPT !.untried = TRUE], T("int"), SizedBy("blob", 10)>>,
  vectors |-> <<Vector("array"), [T("bool") EXCEPT !.dependency = TRUE], Vector("array"),
                Vector("array"), Struct("leaf")>>,
  flat    |-> <<T("token"), Struct("buffer"), T("int"), Struct("rect")>>,
  buffer  |-> <<T("int"), T("fd"), Struct("fence"), [Struct("rest") EXCEPT !.present = TRUE],
                T("flatbool")>>,
  fence   |-> <<T("fd")>>,
  rest    |-> <<T("fd"), T("int")>>,
  rect    |-> <<T("bool"), Struct("point")>>,
  point   |-> <<T("int")>>,
  raw     |-> <<T("int"), [Struct("attr") EXCEPT !.erases = {1}], SizedBy("array", 1), T("bool")>>,
  attr    |-> <<T("int"), SizedBy("bytes", 1), T("int8"), Struct("in"), T("uuid")>>,
  mixed   |-> <<Struct("pair"), Struct("either")>>,
  pair    |-> <<T("int8"), Struct("either"), Vector("array"), T("flatbool")>>,
  leaf    |-> <<T("binder")>>,
  in      |-> <<T("int8"), T("bool")>>,
  either  |-> <<T("int8"), T("int")>>,
  call    |-> <<T("int"), [T("bool") EXCEPT !.dependency = TRUE],
                Calls({"f", "g"}, <<<<1, "int">>, <<2, "bool">>, <<2, "ignored">>>>), T("literal"),
                Calls({"blob"}, <<<<1, "ignored">>>>)>>,
  f       |-> <<T("int"), T("bool"), SizedBy("array", 1), T("bool")>>,
  g       |-> <<T("bool"), T("int"), T("int")>>,
  blob    |-> <<T("int"), T("bool"), SizedBy("bytes", 2)>>,
  exits   |-> <<[Struct("rawtext") EXCEPT !.guarded = TRUE], [T("int8") EXCEPT !.guarded = TRUE],
                [Struct("rawarray") EXCEPT !.guarded = TRUE], [Calls({}, <<>>) EXCEPT !.guarded = TRUE],
                [Struct("stats") EXCEPT !.guarded = TRUE],
                [Calls({"g"}, <<<<1, "unsupported">>>>) EXCEPT !.guarded = TRUE],
                [Calls({"g"}, <<<<1, "int">>>>) EXCEPT !.guarded = TRUE],
                [Struct("rawdep") EXCEPT !.guarded = TRUE]>>,
  rawtext |-> <<T("string")>>,
  rawarray |-> <<T("int"), SizedBy("array", 1), T("int8")>>,
  rawdep  |-> <<[V0 EXCEPT !.type = "array", !.n = 1], [T("int") EXCEPT !.dependency = TRUE]>>,
  stats   |-> <<T("int")>>]

MCParcel == DOMAIN MCTable
MCItems == [p \in MCParcel |->
  CASE p = "loop" -> <<1, 2, 3, 2, 3>> [] p = "strings" -> <<1, 2, 3, 4, 5, 6, 7, 8, 9, 10, 11>>
    [] p = "vectors" -> <<1, 3>> [] p = "raw" -> <<1, 2, 3>> [] p = "call" -> <<1, 2, 3, 4, 5>>
    [] p = "attr" -> <<1, 2, 4, 5>> [] p = "f" -> <<3>> [] p = "g" -> <<3>> [] p = "blob" -> <<3>>
    [] p = "rawarray" -> <<1, 2>> [] p = "rawdep" -> <<1>>
    [] OTHER -> [i \in DOMAIN MCTable[p] |-> i]]
MCKind == [p \in MCParcel |->
  CASE p \in {"buffer", "fence"} -> "flattenable" [] p = "rect" -> "light" [] p = "point" -> "fixed"
    [] p \in {"attr", "in", "pair", "rawtext", "rawarray", "rawdep"} -> "raw" [] p = "either" -> "union"
    [] p \in {"f", "g", "blob"} -> "function" [] p = "stats" -> "stats" [] p \in {"rest", "leaf"} -> "parcelable"
    [] OTHER -> "transaction"]
MCParams == [p \in MCParcel |->
  CASE p = "f" -> <<1, 2, 4>> [] p = "g" -> <<2, 1>> [] p = "blob" -> <<1, 2>> [] OTHER -> <<>>]
=============================================================================
