--------------------------- MODULE ParcelManager ---------------------------
(***************************************************************************)
(* The parcel manager of the interface model extractor                     *)
(* (post-process/parcel.py): what the AST visitor has found of one         *)
(* transaction so far, and the operations the visitor applies to it.  A    *)
(* manager is a record; each operation takes a manager and returns one.    *)
(*                                                                         *)
(* A name is a sequence: the identifier, then what the code appends to it  *)
(* (x_1 is <<"x", "1">>, implicit_3 is <<"implicit", "3">>, x::item is     *)
(* <<"x", Item>>).  A type is the sequence of its array constructors       *)
(* followed by a class of element types (<<"[]", "int">>).  Constraints    *)
(* and loops are named by the number in their name.  A value is nothing, a *)
(* literal (Const(4), Null) or an operation on two names (<<"*", x, y>>).  *)
(* The site of a variable is the place of the source that reads or writes  *)
(* it, which only the properties use.                                      *)
(***************************************************************************)
EXTENDS Integers, Sequences, FiniteSets, SequencesExt

COMMON == 0
INPUT  == 1
OUTPUT == 2
Both   == 3

IsInput(st)  == st \in {INPUT, Both}
IsOutput(st) == st \in {OUTPUT, Both}
InParcel(st) == st # COMMON

NoName  == <<>>
NoValue == <<>>
NoSite  == <<>>
Item    == "::item"

Const(i) == <<"#", i>>
Null     == <<"NULL">>
Numbered(name, i) == Append(name, ToString(i))

NewParcel(id) == [id |-> id, data |-> <<>>, reply |-> <<>>, ret |-> NoName]

NewManager ==
  [vars |-> <<>>, active |-> <<NewParcel(0)>>, finished |-> <<>>, paths |-> 0,
   implicit |-> 0, cons |-> <<>>, activeCons |-> <<>>,
   loops |-> <<>>, activeLoop |-> <<>>, found |-> {}, exited |-> FALSE]

\* Mutant: only what was found last is kept.
FoundLast(m, what) == [m EXCEPT !.found = {what}]
Find(m, what)      == [m EXCEPT !.found = @ \cup {what}]

\* The code gives up on what it does not know: logger.error, exit(0).
Exit(m) == [m EXCEPT !.exited = TRUE]

-----------------------------------------------------------------------------
\* Variables, found by name: the first that has it.

Named(m, name)      == {i \in DOMAIN m.vars : m.vars[i].name = name}
IsVariable(m, name) == Named(m, name) # {}
First(S)            == CHOOSE i \in S : \A j \in S : i <= j
VarNamed(m, name)   == m.vars[First(Named(m, name))]

\* get_variable_attr(name, "count"), 0 for None
CountOf(m, name) == IF IsVariable(m, name) THEN VarNamed(m, name).count ELSE 0

AllocVariable(m) == [m EXCEPT !.implicit = @ + 1]
Allocated(m)     == Numbered(<<"implicit">>, m.implicit)

\* get_previous_io_variable: the last variable that is not COMMON
IOVariables(m) == {i \in DOMAIN m.vars : InParcel(m.vars[i].st)}
HasPreviousIO(m) == IOVariables(m) # {}
PreviousIO(m) ==
  m.vars[CHOOSE i \in IOVariables(m) : \A j \in IOVariables(m) : j <= i]

StatusOf(m, c) == m.cons[First({i \in DOMAIN m.cons : m.cons[i].name = c})].status

\* What add_variable makes of the information the visitor has collected: the
\* guards and the loops active now are recorded in it.
Entry(m, info, name) ==
  [name |-> name, type |-> info.type, st |-> info.st, size |-> info.size,
   value |-> info.value, site |-> info.site, count |-> 1, self |-> <<>>,
   under |-> [i \in DOMAIN m.activeCons |->
                [name |-> m.activeCons[i], status |-> StatusOf(m, m.activeCons[i])]],
   loop |-> m.activeLoop]

Listed(m, name, st) ==
  [m EXCEPT !.active = [i \in DOMAIN @ |->
     [@[i] EXCEPT !.data  = IF IsInput(st)  THEN Append(@, name) ELSE @,
                  !.reply = IF IsOutput(st) THEN Append(@, name) ELSE @]]]

\* A COMMON variable becomes one of the parcel: its guards and attributes are
\* replaced, its loops are not.
Promoted(old, new) ==
  [old EXCEPT !.st = new.st, !.under = new.under, !.site = new.site,
     !.type  = IF new.type = <<"IBinder">> THEN @ ELSE new.type,
     !.size  = IF new.size = NoName THEN @ ELSE new.size,
     !.value = IF new.value = NoValue THEN @ ELSE new.value]

AddVariable(m, info) ==
  LET name == info.name
      i    == First(Named(m, name))
      next == Numbered(name, m.vars[i].count)
  IN CASE ~IsVariable(m, name) ->
            Listed([m EXCEPT !.vars = Append(@, Entry(m, info, name))], name, info.st)
       [] IsVariable(m, name) /\ ~InParcel(info.st) -> m
       [] IsVariable(m, name) /\ InParcel(info.st) /\ InParcel(m.vars[i].st) ->
            Listed([m EXCEPT !.vars =
                      Append([@ EXCEPT ![i].count = @ + 1], Entry(m, info, next))],
                   next, info.st)
       [] OTHER ->
            Listed([m EXCEPT !.vars[i] = Promoted(@, Entry(m, info, name))], name, info.st)

SetReturnVar(m, name) ==
  [m EXCEPT !.active = [i \in DOMAIN @ |-> [@[i] EXCEPT !.ret = name]]]

-----------------------------------------------------------------------------
\* update_variable_attr: of the first variable with the name, if there is one.

SetType(m, name, type) ==
  IF IsVariable(m, name) THEN [m EXCEPT !.vars[First(Named(m, name))].type = type] ELSE m
SetSize(m, name, size) ==
  IF IsVariable(m, name) THEN [m EXCEPT !.vars[First(Named(m, name))].size = size] ELSE m
SetValue(m, name, value) ==
  IF IsVariable(m, name) THEN [m EXCEPT !.vars[First(Named(m, name))].value = value] ELSE m

\* update_variable_attr(name, "name", wanted): a name that is taken is extended by
\* its count + 1; neither the count nor a finished parcel is updated.
NewName(m, wanted) ==
  IF IsVariable(m, wanted) THEN Numbered(wanted, CountOf(m, wanted) + 1) ELSE wanted

ReplaceFirst(s, old, new) ==
  IF old \in Range(s) THEN [s EXCEPT ![First({i \in DOMAIN s : s[i] = old})] = new] ELSE s

Rename(m, name, wanted) ==
  LET new == NewName(m, wanted) IN
  IF ~IsVariable(m, name) THEN m
  ELSE [m EXCEPT !.vars[First(Named(m, name))].name = new,
                 !.active = [i \in DOMAIN @ |->
                   [@[i] EXCEPT !.data  = ReplaceFirst(@, name, new),
                                !.reply = ReplaceFirst(@, name, new)]]]

-----------------------------------------------------------------------------
\* Constraints.  The condition of one is a tree: a leaf names a variable, a
\* node has an opcode ("" is the condition that its operand is not 0).

IsLeaf(e) == e.op = "leaf"
Compares(op) == op \notin {"", "!", "&&", "||", "&"}

\* Mutant: constraints are numbered by the active ones.
AllocConstraintActive(m) == Len(m.activeCons)
AllocConstraint(m) == Len(m.cons)

\* update_self_constraint: the constraint is added to every variable that the
\* condition names; inside a comparison only a direct operand counts.
RECURSIVE ConstrainedNames(_)
ConstrainedNames(e) ==
  IF Compares(e.op)
  THEN {e.args[i].name : i \in {j \in DOMAIN e.args : IsLeaf(e.args[j])}}
       \cup (IF e.args[1].op = ">=" THEN ConstrainedNames(e.args[1]) ELSE {})
  ELSE UNION {IF IsLeaf(e.args[i]) THEN {e.args[i].name} ELSE ConstrainedNames(e.args[i]) :
                i \in DOMAIN e.args}

\* ... where a comparison with an operand it does not know ends the program.
RECURSIVE Completed(_)
Completed(e) ==
  IF Compares(e.op)
  THEN \A i \in DOMAIN e.args :
         IsLeaf(e.args[i]) \/ e.args[i].op \in {"&", "-"} \/ (i = 1 /\ e.args[i].op = ">=")
  ELSE \A i \in DOMAIN e.args : IsLeaf(e.args[i]) \/ Completed(e.args[i])

AddConstraint(m, cons) ==
  LET names == ConstrainedNames(cons.cond)
      first == {First(Named(m, n)) : n \in {x \in names : IsVariable(m, x)}}
  IN [m EXCEPT !.cons = Append(@, cons),
               !.vars = [i \in DOMAIN @ |->
                           IF i \in first THEN [@[i] EXCEPT !.self = Append(@, cons.name)]
                                          ELSE @[i]],
               !.exited = @ \/ ~Completed(cons.cond)]

Push(m, c) == [m EXCEPT !.activeCons = Append(@, c)]
Pop(m)     == [m EXCEPT !.activeCons = Front(@)]

\* update_constraint_attr: of every constraint with the name
\* Mutant: the status of the constraint stays.
SetStatusNever(m, c, status) == m
SetStatus(m, c, status) ==
  [m EXCEPT !.cons = [i \in DOMAIN @ |->
     IF @[i].name = c THEN [@[i] EXCEPT !.status = status] ELSE @[i]]]
SetProbability(m, c, p) ==
  [m EXCEPT !.cons = [i \in DOMAIN @ |->
     IF @[i].name = c THEN [@[i] EXCEPT !.probability = p] ELSE @[i]]]

-----------------------------------------------------------------------------
\* Loops, and the parcels of the paths.

\* Mutant: loops are numbered by the active ones.
AllocLoopActive(m) == Len(m.activeLoop)
AllocLoop(m)      == Len(m.loops)
PushLoop(m, l)    == [m EXCEPT !.activeLoop = Append(@, l)]
PopLoop(m)        == [m EXCEPT !.activeLoop = Front(@)]
AddLoop(m, loop)  == [m EXCEPT !.loops = Append(@, loop)]

\* Mutant: the parcels of the paths that end are lost.
ClearForgotten(m) == [m EXCEPT !.active = <<>>]
ClearActive(m) == [m EXCEPT !.finished = @ \o m.active, !.active = <<>>]

\* The parcels kept from before the branch go on, with numbers of their own.
\* Mutant: ... with the numbers that they had.
RecoverSameNumbers(m, backup) == [m EXCEPT !.active = backup]
RecoverActive(m, backup) ==
  [m EXCEPT !.active = [i \in DOMAIN backup |->
                          [backup[i] EXCEPT !.id = m.paths + i]],
            !.paths  = @ + Len(backup)]

\* The elements of an array are a variable of their own, after the array; the
\* elements of an array of arrays are arrays again.
IsArray(type) == Len(type) > 1
Elements(v) ==
  [i \in 1..Len(v.type) - 1 |->
     [v EXCEPT !.name = @ \o [j \in 1..i |-> Item],
               !.type = SubSeq(@, i + 1, Len(@)),
               !.self = <<>>, !.under = <<>>, !.count = 1]]
WithElements(v) ==
  <<[v EXCEPT !.size = IF IsArray(v.type) /\ @ = NoName THEN <<"unknown">> ELSE @]>>
    \o Elements(v)

Dump(m) ==
  [possibility |-> m.finished \o m.active,
   variable    |-> FlattenSeq([i \in DOMAIN m.vars |-> WithElements(m.vars[i])]),
   constraint  |-> m.cons,
   loop        |-> m.loops,
   found       |-> m.found,
   exited      |-> m.exited]
=============================================================================
