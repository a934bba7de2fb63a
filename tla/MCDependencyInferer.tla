------------------------ MODULE MCDependencyInferer ------------------------
(* A service with a transaction that returns the structure T and one that returns *)
(* binders, of the service itself too; a second service, which takes what is in T; *)
(* the structures T and U, of which only T is returned by a transaction.           *)
EXTENDS DependencyInferer

V(n, t) == [name |-> n, type |-> t]
id == V("id", "int")
inId == V("in_id", "int")
mode == V("mode", "Mode")
st == V("t", "T")
us == V("u", "U")
a == V("a", "sp<IA>")
b == V("b", "sp<IB>")
size == V("size", "int")
arr == V("arr", "Mode[]")
arrItem == V("arr::item", "Mode")

MCVars  == {id, inId, mode, st, us, a, b, size, arr, arrItem}
MCBases == {"BnA", "BnB", "T", "U"} \cup {v.type : v \in MCVars}
S(f)    == [dir |-> "service", base |-> f]
D(f)    == [dir |-> "data", base |-> f]
R(f)    == [dir |-> "reply", base |-> f]
I(f, n) == [file |-> f, name |-> n]
MCFiles == {S("BnA"), S("BnB"), D("T"), R("T"), R("U")}
Get == I(S("BnA"), "GET")
Open == I(S("BnA"), "OPEN")
Use == I(S("BnB"), "USE")
TIn == I(D("T"), "T")
TOut == I(R("T"), "T")
UOut == I(R("U"), "U")
MCItems == {Get, Open, Use, TIn, TOut, UOut}
MCData == [i \in MCItems |-> CASE i = Get -> {size} [] i = Open -> {inId, arr}
  [] i = Use -> {mode, st, id} [] i = TIn -> {id} [] OTHER -> {}]
MCReply == [i \in MCItems |-> CASE i = Get -> {st, size} [] i = Open -> {a, b, mode}
  [] i = Use -> {mode} [] i = TOut -> {id, us} [] i = UOut -> {mode, us} [] OTHER -> {}]
MCElementOf == [v \in MCVars |-> IF v = arr THEN arrItem ELSE v]
MCVariables == [i \in MCItems |-> MCData[i] \cup MCReply[i] \cup
                                  (IF i = Open THEN {arrItem} ELSE {})]
MCUseless == {size}
MCElement == {arrItem}
MCStem == [v \in MCVars |-> IF v = inId THEN "id" ELSE v.name]
MCBasic == {"int"}
MCBinder == [t \in MCBases |-> CASE t = "sp<IA>" -> "IA" [] t = "sp<IB>" -> "IB" [] OTHER -> "none"]
MCInterface == [x \in MCBases |-> CASE x = "BnA" -> "IA" [] x = "BnB" -> "IB" [] OTHER -> "other"]
MCSpecial == {<<"MetaDataBase", "MetaData">>}
=============================================================================
