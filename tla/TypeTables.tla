----------------------------- MODULE TypeTables -----------------------------
(***************************************************************************)
(* How the type of a C++ variable gets to the fuzzer.  The plugin prints   *)
(* the types of a unit and dumps its type definitions, enumerations and    *)
(* records (BinderIface.cpp); the scripts of postprocess.sh make one map   *)
(* of the definitions, replace what is an alias of an enumeration or a     *)
(* record, and keep what the models use; the fuzzer loads the files to     *)
(* varTypeMap and enumInfo (types.cpp, enum_type.cpp), by which it chooses *)
(* a writer for a variable and the values of an enumeration.               *)
(*                                                                         *)
(* A type, and the name of one, is a pair <<tag, name>>.  The tag of basic *)
(* types and type definitions is "".  An enumeration or a struct that only *)
(* has the name of a type definition is "enum of" or "struct of" it; one   *)
(* that has no name at all is "anonymous" or "unnamed".                    *)
(***************************************************************************)
EXTENDS Naturals, SequencesExt

CONSTANTS
  Unit,       \* the units, each a sequence of declarations
  Under,      \* Under[t]: the type that the type definition t is an alias of
  Promotion,  \* Promotion[e]: the integer type of an enumeration
  Fields,     \* Fields[r]: the types of the fields of a record
  Suffix, Prefix, \* pairs of names, one of which ends, or begins, with the other
  LeftOut,    \* the type definitions with "typename", "decltype", ... in their line
  System,     \* the enumerations and records of files that the plugin leaves alone
  Special,    \* special_enumeration_types
  MaxExits

\* A function is a use of the type that it hands to a parcel.
RecordTags == {"struct", "union", "class", "struct of", "unnamed"}
EnumTags   == {"enum", "enum of", "anonymous"}
TypeName   == STRING \X STRING
Declarations ==
  [k : {"typedef"}, n : {""} \X STRING] \cup [k : {"record"}, n : RecordTags \X STRING] \cup
  [k : {"function", "field"}, n : TypeName] \cup [k : {"enum"}, n : EnumTags \X STRING, values : Seq(Nat)]

VARIABLES
  stage,      \* the tool that is at work
  unit, at,   \* what the plugin compiles, and the declaration it visits next
  lines,      \* typeMap: the definitions of this unit
  typemap,    \* data/typemap.txt
  enumFiles,  \* data/enumeration: what there is in each file
  recordFiles,\* data/raw_structure: the record in each file
  trees,      \* the types in the trees of functions
  finished,   \* the units
  exits,
  simplified, \* simplified_typemap_file.txt
  usedTypes, rawList, visited,
  model,      \* the files for the fuzzer: their type map, enumerations, raw records, unions
  varTypeMap, enumInfo,
  toLoad,     \* the files or lines that are not loaded yet
  value       \* what initEnumInfo has read last

rough == <<typemap, enumFiles, recordFiles, trees, finished, exits>>
compiling == <<unit, at, lines>>
scripts == <<simplified, usedTypes, rawList, visited, model>>
fuzzer == <<varTypeMap, enumInfo, toLoad, value>>
vars == <<stage, compiling, rough, scripts, fuzzer>>

\* What initEnumInfo has not read yet is 0, or something else.
Uninitialized == {0, 99}
Nothing == [lines |-> {}, enumeration |-> <<>>, raw |-> {}, union |-> {}]
Init ==
  /\ stage = "extract" /\ unit = "none" /\ at = 0 /\ lines = <<>> /\ exits = 0
  /\ typemap = <<>> /\ enumFiles = <<>> /\ recordFiles = <<>> /\ trees = {} /\ finished = {}
  /\ simplified = <<>> /\ usedTypes = {} /\ rawList = {} /\ visited = {} /\ model = Nothing
  /\ varTypeMap = <<>> /\ enumInfo = <<>> /\ toLoad = {} /\ value = 0

-----------------------------------------------------------------------------
(* The plugin *)

\* From x on, as long as f has something for it.
Behind(f, x) == IF x \in DOMAIN f THEN f[x] ELSE x
Way(f, x) ==
  LET go[k \in 0..Cardinality(DOMAIN f)] == IF k = 0 THEN x ELSE Behind(f, go[k - 1]) IN go
Follow(f, x) == Way(f, x)[Cardinality(DOMAIN f)]
Canonical(t) == Follow(Under, t)

Set(f, x, y) == [z \in DOMAIN f \cup {x} |-> IF z = x THEN y ELSE f[z]]
FixedWidth == {<<"", n>> : n \in {"int8_t", "uint8_t", "int16_t", "uint16_t", "int32_t", "uint32_t",
                                  "int64_t", "uint64_t"}}

\* clang leaves out the keyword of what only has the name of a type definition, except
\* in that definition.
Printed(c) == IF c[1] \in {"enum of", "struct of"} THEN <<"", c[2]>> ELSE c

\* Records (not unions) and enumerations are printed by their own names, other types by
\* those they have in the declaration.
GetType(t) ==
  CASE t[1] = "enum of"   -> <<"enum", t[2]>>
    [] t[1] = "struct of" -> <<"struct", t[2]>>
    [] Canonical(t)[1] \in {"enum", "struct", "class", "vector", "anonymous", "unnamed"} -> Canonical(t)
    [] t \in FixedWidth   -> Canonical(t)
    [] OTHER              -> t

Compiling == stage = "extract" /\ unit # "none"
D    == Unit[unit][at]
NextDecl == IF at < Len(Unit[unit]) THEN Unit[unit][at + 1] ELSE [k |-> "none"]
Visits(k) == Compiling /\ at <= Len(Unit[unit]) /\ D.k = k

StartUnit ==
  /\ stage = "extract" /\ unit = "none"
  /\ \E u \in DOMAIN Unit \ finished : unit' = u
  /\ at' = 1 /\ lines' = <<>>
  /\ UNCHANGED <<stage, rough, scripts, fuzzer>>

Visited == at' = at + 1 /\ UNCHANGED <<stage, unit, typemap, finished, exits, scripts, fuzzer>>

VisitTypedefDecl ==
  /\ Visits("typedef") /\ lines' = Append(lines, <<D.n, GetType(Under[D.n])>>)
  /\ Visited /\ UNCHANGED <<enumFiles, recordFiles, trees>>

\* An enumeration without a name is taken for the values of the type that is defined next.
TakesNext ==
  NextDecl.k = "typedef" /\ GetType(Under[NextDecl.n])[1] \notin {"pointer", "class", "vector", "struct"}
EnumFile ==
  CASE D.n[1] = "anonymous" -> IF TakesNext THEN NextDecl.n ELSE D.n
    [] D.n[1] = "enum of"   -> IF NextDecl.k = "typedef" THEN GetType(Under[NextDecl.n]) ELSE Printed(D.n)
    [] OTHER                -> D.n
PromotionType ==
  IF D.n[1] = "anonymous" /\ TakesNext THEN GetType(Under[NextDecl.n]) ELSE Promotion[D.n]

VisitEnumDecl ==
  /\ Visits("enum") /\ D.n \notin System
  /\ ~(D.n[1] = "enum of" /\ NextDecl.k \notin {"typedef", "none"})
  /\ enumFiles' = Set(enumFiles, EnumFile, [promotion |-> PromotionType, values |-> D.values])
  /\ Visited /\ UNCHANGED <<lines, recordFiles, trees>>

\* A struct without a name has that of the next type definition, or the type of the next field.
RecordFile == IF D.n[1] = "struct of" THEN NextDecl.n ELSE D.n
VisitCXXRecordDecl ==
  /\ Visits("record") /\ D.n \notin System
  /\ D.n[1] = "struct of" => NextDecl.k = "typedef"
  /\ D.n[1] = "unnamed" => NextDecl.k = "field"
  /\ recordFiles' = Set(recordFiles, RecordFile, D.n)
  /\ Visited /\ UNCHANGED <<lines, enumFiles, trees>>

\* The tree of a function is written when it is visited.
VisitFunction ==
  /\ Visits("function") /\ trees' = trees \cup {GetType(D.n)}
  /\ Visited /\ UNCHANGED <<lines, enumFiles, recordFiles>>
VisitOther ==
  /\ Visits("field") \/ ((Visits("enum") \/ Visits("record")) /\ D.n \in System)
  /\ Visited /\ UNCHANGED <<lines, enumFiles, recordFiles, trees>>

\* The map of definitions is written at the end: a line that is part of a line of an
\* earlier unit is left out.
Within(l, m) == /\ l[1] = m[1] \/ <<l[1], m[1]>> \in Suffix
                /\ l[2] = m[2] \/ <<l[2], m[2]>> \in Prefix
IsNew(l) == \A m \in Range(typemap) : ~Within(l, m)
NewLines ==
  LET new[i \in 0..Len(lines)] ==
        IF i = 0 THEN <<>> ELSE IF IsNew(lines[i]) THEN Append(new[i - 1], lines[i]) ELSE new[i - 1]
  IN new
EndUnit ==
  /\ Compiling /\ at > Len(Unit[unit])
  /\ typemap' = typemap \o NewLines[Len(lines)]
  /\ finished' = finished \cup {unit} /\ unit' = "none" /\ at' = 0 /\ lines' = <<>>
  /\ UNCHANGED <<stage, enumFiles, recordFiles, trees, exits, scripts, fuzzer>>

\* The plugin ends at something that it does not know; the unit is compiled again.
PluginExits ==
  /\ Compiling /\ exits < MaxExits /\ exits' = exits + 1
  /\ unit' = "none" /\ at' = 0 /\ lines' = <<>>
  /\ UNCHANGED <<stage, typemap, enumFiles, recordFiles, trees, finished, scripts, fuzzer>>

-----------------------------------------------------------------------------
(* The scripts *)

\* basic_type.txt
BasicTypes == {<<"", n>> : n \in {"size_t", "int", "unsigned int", "long", "long long", "unsigned long", "float",
                                  "unsigned char", "short", "_Bool"}} \cup FixedWidth

\* Mutant: an alias of an alias stays one.
AddUnchased(m, l) == IF l[1] \in DOMAIN m \/ l[1] \in LeftOut THEN m ELSE Set(m, l[1], l[2])

\* The first definition of a name counts, as far as what is behind it is defined already.
Add(m, l) == IF l[1] \in DOMAIN m \/ l[1] \in LeftOut THEN m ELSE Set(m, l[1], Follow(m, l[2]))

Simplified ==
  LET map[i \in 0..Len(typemap)] == IF i = 0 THEN <<>> ELSE Add(map[i - 1], typemap[i])
  IN map

NothingMade ==
  simplified' = <<>> /\ usedTypes' = {} /\ rawList' = {} /\ visited' = {} /\ model' = Nothing

\* init.py; the scripts run between two units.
SimplifyTypeMap ==
  /\ stage = "extract" /\ unit = "none" /\ stage' = "parse"
  /\ simplified' = Simplified[Len(typemap)]
  /\ UNCHANGED <<compiling, rough, usedTypes, rawList, visited, model, fuzzer>>

TrueComplexType(x) ==
  IF x \in DOMAIN simplified /\ simplified[x] \notin BasicTypes THEN simplified[x] ELSE x

\* update_special_argv_type: its name says that it is a struct or a union, or the map does.
IsRecord(x) == x[1] \in {"struct", "union", "unnamed"}
ParseFunctions ==
  /\ stage = "parse" /\ stage' = "raw"
  /\ usedTypes' = {TrueComplexType(x) : x \in trees}
  /\ rawList' = {x \in trees : IsRecord(x) \/ IsRecord(Follow(simplified, x))}
  /\ UNCHANGED <<compiling, rough, simplified, visited, model, fuzzer>>

FileOfRecord(x) ==
  IF x \in DOMAIN recordFiles THEN x ELSE IF x \in DOMAIN simplified THEN simplified[x] ELSE x

\* A field is a record when its name says so.
ParseRawStructure ==
  /\ stage = "raw"
  /\ \E x \in rawList \ visited :
       /\ visited' = visited \cup {x} /\ FileOfRecord(x) \in DOMAIN recordFiles
       /\ LET r == recordFiles[FileOfRecord(x)]
              fields == {GetType(t) : t \in Fields[r]}
          IN /\ usedTypes' = usedTypes \cup {TrueComplexType(f) : f \in fields}
             /\ rawList' = rawList \cup {f \in fields : IsRecord(f)}
             /\ model' = IF r[1] = "union" THEN [model EXCEPT !.union = @ \cup {TrueComplexType(x)}]
                         ELSE [model EXCEPT !.raw = @ \cup {TrueComplexType(x)}]
  /\ UNCHANGED <<stage, compiling, rough, simplified, fuzzer>>

\* The other scripts run as well when this one ends at a record that has no file.
EndRaw ==
  /\ stage = "raw" /\ stage' = "save"
  /\ rawList \subseteq visited \/ \E x \in rawList \ visited : FileOfRecord(x) \notin DOMAIN recordFiles
  /\ UNCHANGED <<compiling, rough, scripts, fuzzer>>

SaveTypeMap ==
  /\ stage = "save" /\ stage' = "copy"
  /\ model' = [model EXCEPT !.lines =
       {<<x, simplified[x]>> : x \in {y \in DOMAIN simplified \cap usedTypes : simplified[y] \in BasicTypes}}]
  /\ UNCHANGED <<compiling, rough, simplified, usedTypes, rawList, visited, fuzzer>>

CopyEnumerations ==
  /\ stage = "copy" /\ stage' = "made"
  /\ model' = [model EXCEPT !.enumeration = Restrict(enumFiles, DOMAIN enumFiles \cap (usedTypes \cup Special))]
  /\ UNCHANGED <<compiling, rough, simplified, usedTypes, rawList, visited, fuzzer>>

\* The fuzzer is built with the model, or extraction goes on: nobody looks at the model
\* until init.sh has removed it.
ExtractMore ==
  /\ stage \in {"made", "ready"} /\ DOMAIN Unit # finished /\ stage' = "extract"
  /\ NothingMade /\ varTypeMap' = <<>> /\ enumInfo' = <<>>
  /\ UNCHANGED <<compiling, rough, toLoad, value>>

-----------------------------------------------------------------------------
(* The fuzzer *)

\* initVarTypeMap, before the file: not all the basic types are there.
BuiltIn ==
  [x \in {<<"", n>> : n \in {"int", "int32_t", "unsigned int", "uint32_t", "long", "long long", "int64_t",
                            "unsigned long", "uint64_t", "unsigned char", "short", "float", "_Bool"}} |->
     CASE x[2] \in {"int", "int32_t"}                -> "INT32"
       [] x[2] \in {"unsigned int", "uint32_t"}      -> "UINT32"
       [] x[2] \in {"long", "long long", "int64_t"}  -> "INT64"
       [] x[2] \in {"unsigned long", "uint64_t"}     -> "UINT64"
       [] x[2] = "unsigned char" -> "UINT8" [] x[2] = "short" -> "INT16"
       [] x[2] = "float" -> "FLOAT"         [] x[2] = "_Bool" -> "BOOL"]

\* The types that initEnumInfo knows for an enumeration.
PromotionKind ==
  [x \in {<<"", n>> : n \in {"int", "int32_t", "unsigned int", "uint32_t", "size_t", "unsigned long", "uint64_t",
                            "long", "long long", "int64_t", "dependent", "unsigned char", "uint8_t"}} |->
     CASE x[2] \in {"int", "int32_t"}                            -> "INT32"
       [] x[2] \in {"unsigned int", "uint32_t", "size_t"}        -> "UINT32"
       [] x[2] \in {"unsigned long", "uint64_t"}                 -> "UINT64"
       [] x[2] \in {"long", "long long", "int64_t", "dependent"} -> "INT64"
       [] x[2] \in {"unsigned char", "uint8_t"}                  -> "UINT8"]

Over(f, g) == [x \in DOMAIN f \cup DOMAIN g |-> IF x \in DOMAIN f THEN f[x] ELSE g[x]]

LoadStructures ==
  /\ stage = "made" /\ stage' = "unions"
  /\ varTypeMap' = [x \in model.raw |-> "RAW"] /\ enumInfo' = <<>> /\ value' \in Uninitialized
  /\ UNCHANGED <<compiling, rough, scripts, toLoad>>
LoadUnions ==
  /\ stage = "unions" /\ stage' = "enumerations"
  /\ varTypeMap' = Over([x \in model.union |-> "UNION"], varTypeMap)
  /\ toLoad' = DOMAIN model.enumeration
  /\ UNCHANGED <<compiling, rough, scripts, enumInfo, value>>

\* Reading on at the end of the file leaves value as it was, and it is stored again.
LastRead(values) == IF values = <<>> THEN value ELSE Last(values)

\* Mutant: what is stored was read before.
ValuesReadLate(f) ==
  {value} \cup Range(f.values)
ValuesRead(f) ==
  IF f.promotion = <<"", "dependent">> THEN 0..Len(f.values) ELSE {LastRead(f.values)} \cup Range(f.values)

\* In the order of the directory; the value is that of the last file at the beginning, or of
\* none.
LoadEnumeration ==
  /\ stage = "enumerations"
  /\ \E x \in toLoad :
       LET f == model.enumeration[x] IN
       /\ toLoad' = toLoad \ {x}
       /\ IF f.promotion \in DOMAIN PromotionKind
          THEN /\ varTypeMap' = Set(varTypeMap, x, PromotionKind[f.promotion])
               /\ enumInfo' = Set(enumInfo, x, ValuesRead(f))
               /\ value' = LastRead(f.values)
          ELSE UNCHANGED <<varTypeMap, enumInfo, value>>
  /\ UNCHANGED <<stage, compiling, rough, scripts>>

InitVarTypeMap ==
  /\ stage = "enumerations" /\ toLoad = {} /\ stage' = "lines"
  /\ varTypeMap' = Over(BuiltIn, varTypeMap) /\ toLoad' = model.lines /\ value' = 0
  /\ UNCHANGED <<compiling, rough, scripts, enumInfo>>

\* The lines are in the order of a dictionary of Python 2, and are read once.
LoadLine ==
  /\ stage = "lines"
  /\ \E l \in toLoad :
       /\ toLoad' = toLoad \ {l}
       /\ varTypeMap' = IF l[1] \notin DOMAIN varTypeMap /\ l[2] \in DOMAIN varTypeMap
                        THEN Set(varTypeMap, l[1], varTypeMap[l[2]]) ELSE varTypeMap
  /\ UNCHANGED <<stage, compiling, rough, scripts, enumInfo, value>>
Ready ==
  /\ stage = "lines" /\ toLoad = {} /\ stage' = "ready"
  /\ UNCHANGED <<compiling, rough, scripts, fuzzer>>

\* getVarTypeEnum
VarTypeEnum(x) ==
  CASE x \in DOMAIN varTypeMap         -> varTypeMap[x]
    [] x[1] \in {"vector", "pointer"}  -> "ARRAY"
    [] x[1] = "interface"              -> "STRONG_BINDER"
    [] OTHER                           -> "exit"

\* IntType::generate, where it does not draw any value and there is no rule for the name of
\* the variable: one of its enumeration, or any, if there is none (the empty set here).
Drawn(x) == IF x \in DOMAIN enumInfo THEN enumInfo[x] ELSE {}

Plugin == StartUnit \/ VisitTypedefDecl \/ VisitEnumDecl \/ VisitCXXRecordDecl \/ VisitFunction
          \/ VisitOther \/ EndUnit \/ PluginExits
PostProcess == SimplifyTypeMap \/ ParseFunctions \/ ParseRawStructure \/ EndRaw \/ SaveTypeMap
               \/ CopyEnumerations \/ ExtractMore
Load == LoadStructures \/ LoadUnions \/ LoadEnumeration \/ InitVarTypeMap \/ LoadLine \/ Ready

Next == Plugin \/ PostProcess \/ Load
Spec == Init /\ [][Next]_vars

-----------------------------------------------------------------------------
(* What a type is in C++ *)

KindOf(t) ==
  LET c == Canonical(t) IN
  CASE c[1] \in {"enum", "enum of"}               -> PromotionKind[Promotion[c]]
    [] c[1] \in {"struct", "struct of", "unnamed"} -> "RAW"
    [] c[1] = "union"                             -> "UNION"
    [] c[1] \in {"pointer", "vector"}             -> "ARRAY"
    [] c[1] = "interface"                         -> "STRONG_BINDER"
    [] OTHER                                      -> BuiltIn[c]

\* The types that KindOf is about: no class, and no basic type that the fuzzer has not got.
HasKind(t) ==
  LET c == Canonical(t) IN
  \/ c[1] \in {"enum", "enum of"} /\ c \in DOMAIN Promotion /\ Promotion[c] \in DOMAIN PromotionKind
  \/ c[1] \in {"struct", "struct of", "unnamed", "union"} /\ c \in DOMAIN Fields
  \/ c[1] \in {"pointer", "vector", "interface"}
  \/ c \in DOMAIN BuiltIn

\* In C++ no type definition is an alias of itself, and what is not basic is declared before
\* it is used: by a definition, a function, or a field of a record.
Declares(u, i, t) ==
  \E j \in 1..i - 1 : Unit[u][j].k \in {"typedef", "enum", "record"} /\ Unit[u][j].n = t
UsedBy(d) == CASE d.k = "typedef"  -> {Under[d.n]}
               [] d.k = "function" -> {d.n}
               [] d.k = "record"   -> Fields[d.n]
               [] OTHER            -> {}
Followed(u, i, d) == i < Len(Unit[u]) /\ Unit[u][i + 1] = d
Taken(u, i, t) == Unit[u][i].n[1] = "anonymous" /\ Followed(u, i, [k |-> "typedef", n |-> t])

DefinitionsAssumption ==
  /\ IsFiniteSet(DOMAIN Under) /\ DOMAIN Under \subseteq {""} \X STRING
  /\ DOMAIN Promotion \subseteq EnumTags \X STRING /\ DOMAIN Fields \subseteq RecordTags \X STRING
  /\ \A t \in DOMAIN Under : Under[t] \in TypeName /\ Canonical(t) \notin DOMAIN Under
  /\ \A r \in DOMAIN Fields : Fields[r] \subseteq TypeName
  \* of the names of basic types only these are defined, and are basic
  /\ <<"", "dependent">> \notin DOMAIN Under
  /\ \A t \in DOMAIN Under \cap BasicTypes : t \in FixedWidth \cup {<<"", "size_t">>} /\ Canonical(t)[1] = ""
  \* a definition and an enumeration have different names
  /\ \A e, f \in DOMAIN Promotion : e[1] = "enum" /\ f[1] = "enum of" => e[2] # f[2]
  /\ System \subseteq DOMAIN Promotion \cup DOMAIN Fields

UnitsAssumption ==
  /\ MaxExits \in Nat /\ "none" \notin DOMAIN Unit
  /\ \A u \in DOMAIN Unit : Unit[u] \in Seq(Declarations)
  /\ \A u \in DOMAIN Unit : \A i \in DOMAIN Unit[u] :
       LET d == Unit[u][i] IN
       /\ d.k = "typedef" => d.n \in DOMAIN Under
       /\ d.k = "enum" => d.n \in DOMAIN Promotion
       /\ d.k = "record" => d.n \in DOMAIN Fields
       /\ \A t \in UsedBy(d) :
            /\ t \in DOMAIN Under \cup DOMAIN Promotion \cup DOMAIN Fields => Declares(u, i, t)
            /\ d.k \in {"function", "record"} => HasKind(t)
       \* what only has the name of a type definition is within that definition
       /\ d.k # "function" /\ d.n[1] \in {"enum of", "struct of"} =>
            \E t \in DOMAIN Under : Under[t] = d.n /\ Followed(u, i, [k |-> "typedef", n |-> t])
       \* what is in front of a definition is so in every unit, which includes it
       /\ d.k = "enum" => \A t \in DOMAIN Under : Taken(u, i, t) =>
            \A v \in DOMAIN Unit : \A j \in DOMAIN Unit[v] :
              Unit[v][j] = [k |-> "typedef", n |-> t] => j > 1 /\ Unit[v][j - 1].k = "enum" /\ Unit[v][j - 1].n = d.n

ASSUME TypesAssumption == DefinitionsAssumption /\ UnitsAssumption

\* The types that are handed to a parcel by functions of the units that have been compiled
\* to their ends, and those of the fields of the records of such units that were parsed.
\* Those of the system are not dumped, and the script does not see that a field is a record
\* by a name that does not say it.
InFinished(k) == UNION {{d.n : d \in {x \in Range(Unit[u]) : x.k = k}} : u \in finished}
Handed    == InFinished("function")
Contained == UNION {Fields[r] : r \in {recordFiles[FileOfRecord(x)] : x \in visited} \cap InFinished("record")}
Modelled ==
  {t \in Handed : Canonical(t) \notin System} \cup
  {t \in Contained : /\ Canonical(t) \notin System
                     /\ KindOf(t) \in {"RAW", "UNION"} => IsRecord(GetType(t))}

\* The definitions on the way from a type to what it is, of which none may be missing: left
\* out by the script, or for being a part of the line of another.
OnTheWay(t) == DOMAIN Under \cap Range(Way(Under, t))
Line(x) == <<x, GetType(Under[x])>>
Missing(x) == x \in LeftOut \/ \E y \in DOMAIN Under \ {x} : Within(Line(x), Line(y))
Clean(t) == \A x \in OnTheWay(t) : ~Missing(x)

\* The type definition behind an enumeration without a name is one of size_t, which has
\* 32 bits for an enumeration, and 64 otherwise (enum_type.cpp:70, variable_type.py:16).
OfTwoWidths(t) ==
  \E u \in DOMAIN Unit : \E i \in DOMAIN Unit[u] :
    Unit[u][i].k = "enum" /\ Taken(u, i, t) /\ Under[t] = <<"", "size_t">>

\* When the fuzzer is ready it has, for the type of every variable that the models have, the
\* kind of writer that its declaration asks for, however many definitions are in between, in
\* whatever order the units were compiled and the files were read, unless the script for raw
\* structures has ended early at a record that was not dumped (types.cpp:103,
\* variable_type.py:13, init.py:11).
KindAsDeclared ==
  stage = "ready" /\ rawList \subseteq visited =>
    \A t \in Modelled : Clean(t) /\ ~OfTwoWidths(t) =>
      VarTypeEnum(TrueComplexType(GetType(t))) = KindOf(t)

\* The values of an enumeration, or of one without a name in front of a type definition, are
\* those of its declaration and no other, when all its declarations agree, are not empty and
\* have a type that the fuzzer knows (enum_type.cpp:35, BinderIface.cpp:2191).
Belongs(u, i, t) ==
  LET d == Unit[u][i] IN d.k = "enum" /\ d.n \notin System /\ (d.n = Canonical(t) \/ Taken(u, i, t))
DeclaredValues(t) ==
  UNION {{Unit[u][i].values : i \in {j \in DOMAIN Unit[u] : Belongs(u, j, t)}} : u \in DOMAIN Unit}
KnownPromotion(t) ==
  LET c == Canonical(t) IN
  IF c \in DOMAIN Promotion THEN Promotion[c] # <<"", "dependent">>
  ELSE t \notin FixedWidth /\ GetType(Under[t]) \in DOMAIN PromotionKind \ {<<"", "dependent">>}
ValuesAsDeclared ==
  stage = "ready" =>
    \A t \in Modelled : \A values \in DeclaredValues(t) \ {<<>>} :
      DeclaredValues(t) = {values} /\ KnownPromotion(t) /\ Clean(t)
        => Drawn(TrueComplexType(GetType(t))) = Range(values)
=============================================================================
