-------------------------- MODULE TypeTablesProofs --------------------------
(***************************************************************************)
(* That the fuzzer knows the types of all variables of the models, and the *)
(* values of their enumerations: KindAsDeclared and ValuesAsDeclared of    *)
(* TypeTables, for all units, definitions, enumerations and records.       *)
(*                                                                         *)
(* A type goes by one of two names: a definition of a basic type by its    *)
(* own, and any other by Named(c), the name of what it is, c.  The first   *)
(* part is about the functions that go from a definition to what is behind *)
(* it; then come the invariants of the plugin, of the scripts and of the   *)
(* fuzzer, each of which holds from a stage on, and what they say at the   *)
(* end.                                                                    *)
(***************************************************************************)
EXTENDS TypeTables, TLAPS, FiniteSetTheorems, WellFoundedInduction

-----------------------------------------------------------------------------
(* What is behind a definition *)

\* A set of numbers that is not empty has a least one.
LEMMA Least ==
  ASSUME NEW T \in SUBSET Nat, T # {}
  PROVE  \E n \in T : \A m \in T : n <= m
<1> DEFINE R == OpToRel(<, Nat)
           Q == {ss \in Nat \X Nat : ss[1] < ss[2]}
<1>1. IsWellFoundedOn(R, Nat)
  BY NatLessThanWellFounded
<1>2. R = Q
  BY Zenon DEF OpToRel
<1>3. PICK n \in T : \A m \in T : <<m, n>> \notin Q
  <2>1. IsWellFoundedOn(Q, Nat)
    BY <1>1, <1>2
  <2> HIDE DEF R, Q
  <2> QED BY <2>1, WFMin
<1> HIDE DEF R
<1>4. \A m \in T : ~(m < n)
  BY <1>3
<1> QED
  BY <1>3, <1>4

\* The recursive function of Way is defined.
LEMMA WayUnfold ==
  ASSUME NEW f, NEW x, Cardinality(DOMAIN f) \in Nat
  PROVE  Way(f, x) = [k \in 0..Cardinality(DOMAIN f) |-> IF k = 0 THEN x ELSE Behind(f, Way(f, x)[k - 1])]
<1> DEFINE n == Cardinality(DOMAIN f)
           Def(g, m) == g = [k \in 0..m |-> IF k = 0 THEN x ELSE Behind(f, g[k - 1])]
           Bad == {m \in Nat : ~ \E g : Def(g, m)}
<1>1. Bad = {}
  <2> SUFFICES ASSUME Bad # {} PROVE FALSE
    OBVIOUS
  <2>1. PICK m \in Bad : \A j \in Bad : m <= j
    <3> HIDE DEF Def
    <3>1. Bad \in SUBSET Nat
      OBVIOUS
    <3> HIDE DEF Bad
    <3> QED BY <3>1, Least
  <2>2. m \in Nat /\ ~ \E g : Def(g, m)
    OBVIOUS
  <2>3. CASE m = 0
    <3>1. Def([k \in 0..0 |-> x], 0)
      OBVIOUS
    <3> QED BY <2>2, <2>3, <3>1
  <2>4. CASE m # 0
    <3>1. m - 1 \in Nat /\ m - 1 \notin Bad
      <4>1. m \in Nat /\ m # 0 /\ \A j \in Bad : m <= j
        <5> HIDE DEF Bad, Def
        <5> QED BY <2>1, <2>2, <2>4
      <4> HIDE DEF Bad
      <4>2. m - 1 \in Nat /\ ~(m <= m - 1)
        BY <4>1
      <4> QED BY <4>1, <4>2
    <3>2. PICK g : Def(g, m - 1)
      BY <3>1
    <3> DEFINE h == [k \in 0..m |-> IF k = m THEN Behind(f, g[m - 1]) ELSE g[k]]
    <3>3. \A k \in 0..m : k # 0 => k - 1 \in 0..m - 1 /\ h[k - 1] = g[k - 1]
      BY <2>2, <2>4
    <3>4. ASSUME NEW k \in 0..m
          PROVE  h[k] = IF k = 0 THEN x ELSE Behind(f, h[k - 1])
      <4>1. CASE k = m
        BY <2>2, <2>4, <3>3, <4>1
      <4>2. CASE k # m
        <5>1. k \in 0..m - 1
          BY <2>2, <4>2
        <5>2. g[k] = IF k = 0 THEN x ELSE Behind(f, g[k - 1])
          BY <3>2, <5>1
        <5> QED BY <3>3, <4>2, <5>2
      <4> QED BY <4>1, <4>2
    <3>5. Def(h, m)
      BY <3>4
    <3> QED BY <2>2, <3>5
  <2> QED BY <2>3, <2>4
<1>2. PICK g : Def(g, n)
  BY <1>1
<1>3. Def(Way(f, x), n)
  BY <1>2, Zenon DEF Way
<1> QED
  BY <1>3

\* What holds at the beginning of a way, and of the next where it holds, holds everywhere.
LEMMA WayInduction ==
  ASSUME NEW f, NEW x, Cardinality(DOMAIN f) \in Nat, NEW S,
         NEW b \in 0..Cardinality(DOMAIN f), Way(f, x)[b] \in S,
         \A y \in S : Behind(f, y) \in S
  PROVE  \A k \in b..Cardinality(DOMAIN f) : Way(f, x)[k] \in S
<1> DEFINE n == Cardinality(DOMAIN f)
           w == Way(f, x)
           Bad == {k \in b..n : w[k] \notin S}
<1> SUFFICES ASSUME Bad # {} PROVE FALSE
  OBVIOUS
<1>1. PICK k \in Bad : \A j \in Bad : k <= j
  <2>1. Bad \in SUBSET Nat
    OBVIOUS
  <2> HIDE DEF Bad
  <2> QED BY <2>1, Least
<1>2. k # b
  OBVIOUS
<1>3. k - 1 \in b..n /\ k - 1 \notin Bad /\ k \in 0..n /\ k # 0
  BY <1>1, <1>2
<1>4. w[k] = Behind(f, w[k - 1])
  BY <1>3, WayUnfold
<1> QED
  BY <1>3, <1>4

LEMMA WayBegins ==
  ASSUME NEW f, NEW x, IsFiniteSet(DOMAIN f)
  PROVE  /\ Cardinality(DOMAIN f) \in Nat
         /\ Way(f, x)[0] = x /\ DOMAIN Way(f, x) = 0..Cardinality(DOMAIN f)
         /\ x \in DOMAIN f => Cardinality(DOMAIN f) # 0
<1>1. Cardinality(DOMAIN f) \in Nat
  BY FS_CardinalityType
<1>2. Cardinality(DOMAIN f) = 0 <=> DOMAIN f = {}
  BY FS_EmptySet
<1> QED
  BY <1>1, <1>2, WayUnfold

\* There is nothing to follow, or there is one step.
LEMMA FollowOut ==
  ASSUME NEW f, NEW x, IsFiniteSet(DOMAIN f), x \notin DOMAIN f
  PROVE  Follow(f, x) = x
<1>1. \A y \in {x} : Behind(f, y) \in {x}
  BY DEF Behind
<1>2. /\ Cardinality(DOMAIN f) \in Nat /\ Way(f, x)[0] \in {x}
      /\ 0 \in 0..Cardinality(DOMAIN f) /\ Cardinality(DOMAIN f) \in 0..Cardinality(DOMAIN f)
  BY WayBegins
<1>3. \A k \in 0..Cardinality(DOMAIN f) : Way(f, x)[k] \in {x}
  BY <1>1, <1>2, WayInduction
<1> QED
  BY <1>2, <1>3 DEF Follow

LEMMA FollowOne ==
  ASSUME NEW f, NEW x, IsFiniteSet(DOMAIN f), x \in DOMAIN f, f[x] \notin DOMAIN f
  PROVE  Follow(f, x) = f[x]
<1> DEFINE n == Cardinality(DOMAIN f)
<1>1. n \in Nat /\ n # 0 /\ 1 \in 0..n /\ Way(f, x)[0] = x
  BY WayBegins
<1>2. Way(f, x)[1] = f[x]
  BY <1>1, WayUnfold DEF Behind
<1>3. \A y \in {f[x]} : Behind(f, y) \in {f[x]}
  BY DEF Behind
<1>4. \A k \in 1..n : Way(f, x)[k] \in {f[x]}
  BY <1>1, <1>2, <1>3, WayInduction
<1> QED
  BY <1>1, <1>4 DEF Follow

LEMMA Definitions ==
  /\ IsFiniteSet(DOMAIN Under)
  /\ \A t \in DOMAIN Under : t[1] = ""
  /\ \A t \in DOMAIN Under : Canonical(t) \notin DOMAIN Under
  /\ \A t : t \notin DOMAIN Under => Canonical(t) = t
<1>1. DefinitionsAssumption
  BY TypesAssumption
<1> QED
  BY <1>1, FollowOut DEF DefinitionsAssumption, Canonical

\* The way from the second definition is the rest of that from the first.
LEMMA WayShift ==
  ASSUME NEW t \in DOMAIN Under, NEW k \in 0..Cardinality(DOMAIN Under) - 1
  PROVE  Way(Under, Under[t])[k] = Way(Under, t)[k + 1]
<1> DEFINE n == Cardinality(DOMAIN Under)
           Bad == {j \in 0..n - 1 : Way(Under, Under[t])[j] # Way(Under, t)[j + 1]}
<1>1. n \in Nat /\ n # 0 /\ Way(Under, t)[0] = t /\ Way(Under, Under[t])[0] = Under[t]
  BY Definitions, WayBegins
<1> SUFFICES ASSUME Bad # {} PROVE FALSE
  OBVIOUS
<1>2. PICK j \in Bad : \A i \in Bad : j <= i
  <2>1. Bad \in SUBSET Nat
    BY <1>1
  <2> HIDE DEF Bad
  <2> QED BY <2>1, Least
<1>3. j \in 0..n - 1 /\ Way(Under, Under[t])[j] # Way(Under, t)[j + 1]
  OBVIOUS
<1>4. j # 0
  <2>1. 1 \in 0..n
    BY <1>1
  <2>2. Way(Under, t)[1] = Under[t]
    BY <1>1, <2>1, WayUnfold DEF Behind
  <2> QED BY <1>1, <1>3, <2>2
<1>5. j - 1 \in 0..n - 1 /\ j - 1 \notin Bad /\ j \in 0..n /\ j + 1 \in 0..n /\ j + 1 # 0
  BY <1>1, <1>2, <1>3, <1>4
<1>6. Way(Under, Under[t])[j - 1] = Way(Under, t)[(j - 1) + 1]
  BY <1>5
<1>7. /\ Way(Under, Under[t])[j] = Behind(Under, Way(Under, Under[t])[j - 1])
      /\ Way(Under, t)[j + 1] = Behind(Under, Way(Under, t)[(j + 1) - 1])
  BY <1>1, <1>4, <1>5, WayUnfold
<1>8. (j - 1) + 1 = j /\ (j + 1) - 1 = j
  BY <1>3
<1> QED
  BY <1>3, <1>6, <1>7, <1>8

\* What is behind a definition is what is behind the next.
LEMMA CanonicalNext ==
  ASSUME NEW t \in DOMAIN Under
  PROVE  Canonical(Under[t]) = Canonical(t)
<1> DEFINE n == Cardinality(DOMAIN Under)
<1>1. n \in Nat /\ n # 0 /\ n - 1 \in 0..n - 1 /\ n \in 0..n
  <2>1. n \in Nat /\ n # 0
    BY Definitions, WayBegins
  <2> QED BY <2>1
<1>2. Way(Under, Under[t])[n - 1] = Way(Under, t)[(n - 1) + 1]
  BY <1>1, WayShift
<1>3. Way(Under, Under[t])[n] = Behind(Under, Way(Under, Under[t])[n - 1])
  BY <1>1, WayUnfold
<1>4. (n - 1) + 1 = n
  BY <1>1
<1> QED
  BY <1>2, <1>3, <1>4, Definitions DEF Canonical, Follow, Behind

LEMMA OnTheWayNext ==
  ASSUME NEW t \in DOMAIN Under
  PROVE  t \in OnTheWay(t) /\ OnTheWay(Under[t]) \subseteq OnTheWay(t)
<1> DEFINE n == Cardinality(DOMAIN Under)
<1>1. /\ n \in Nat /\ n # 0 /\ Way(Under, t)[0] = t
      /\ DOMAIN Way(Under, t) = 0..n /\ DOMAIN Way(Under, Under[t]) = 0..n
  BY Definitions, WayBegins
<1>2. t \in OnTheWay(t)
  BY <1>1 DEF OnTheWay, Range
<1>3. ASSUME NEW y \in OnTheWay(Under[t]) PROVE y \in OnTheWay(t)
  <2>1. PICK k \in 0..n : y = Way(Under, Under[t])[k]
    BY <1>1 DEF OnTheWay, Range
  <2>2. y \in DOMAIN Under
    BY DEF OnTheWay
  <2>3. k # n
    BY <2>1, <2>2, CanonicalNext, Definitions DEF Canonical, Follow
  <2>4. k \in 0..n - 1 /\ k + 1 \in 0..n
    BY <1>1, <2>3
  <2>5. y = Way(Under, t)[k + 1]
    BY <2>1, <2>4, WayShift
  <2> QED BY <1>1, <2>2, <2>4, <2>5 DEF OnTheWay, Range
<1> QED
  BY <1>2, <1>3

LEMMA CleanNext ==
  ASSUME NEW t \in DOMAIN Under, Clean(t)
  PROVE  ~Missing(t) /\ Clean(Under[t])
BY OnTheWayNext DEF Clean

-----------------------------------------------------------------------------
(* The names of types *)

\* The name that a type goes by which is not one of a basic type.
Named(c) ==
  CASE c[1] = "enum of"   -> <<"enum", c[2]>>
    [] c[1] = "struct of" -> <<"struct", c[2]>>
    [] OTHER              -> c

LEMMA NamedOut ==
  ASSUME NEW c, c \notin DOMAIN Under
  PROVE  Named(c) \notin DOMAIN Under
<1>1. \A t \in DOMAIN Under : t[1] # "enum" /\ t[1] # "struct"
  BY Definitions
<1> QED
  BY <1>1 DEF Named

LEMMA Basics ==
  /\ <<"", "dependent">> \notin DOMAIN Under
  /\ \A t \in DOMAIN Under \cap BasicTypes : t \in FixedWidth \cup {<<"", "size_t">>} /\ Canonical(t)[1] = ""
  /\ FixedWidth \subseteq BasicTypes
  /\ \A t \in BasicTypes : t[1] = ""
<1>1. DefinitionsAssumption
  BY TypesAssumption
<1>2. FixedWidth \subseteq BasicTypes
  BY DEF BasicTypes
<1>3. \A t \in BasicTypes : t[1] = ""
  <2>1. ASSUME NEW S, NEW t \in {<<"", n>> : n \in S} PROVE t[1] = ""
    <3>1. PICK n \in S : t = <<"", n>>
      OBVIOUS
    <3>2. <<"", n>>[1] = ""
      OBVIOUS
    <3> QED BY <3>1, <3>2
  <2>2. \A t \in FixedWidth : t[1] = ""
    BY <2>1, Zenon DEF FixedWidth
  <2>3. ASSUME NEW t \in BasicTypes, t \notin FixedWidth PROVE t[1] = ""
    BY <2>1, <2>3, Zenon DEF BasicTypes
  <2> QED BY <2>2, <2>3
<1> QED
  BY <1>1, <1>2, <1>3 DEF DefinitionsAssumption

\* What the plugin prints of a type that is not defined, and of one that is.
LEMMA GetTypeOut ==
  ASSUME NEW t, t \notin DOMAIN Under
  PROVE  GetType(t) = Named(t)
<1>1. Canonical(t) = t
  BY Definitions
<1>2. t \in FixedWidth => t[1] = ""
  BY Basics
<1> QED
  BY <1>1, <1>2 DEF GetType, Named

PrintedByNames == {"enum", "struct", "class", "vector", "anonymous", "unnamed"}

LEMMA GetTypeIn ==
  ASSUME NEW t \in DOMAIN Under
  PROVE  \/ /\ GetType(t) = Canonical(t) /\ Named(Canonical(t)) = Canonical(t)
            /\ Canonical(t)[1] \in PrintedByNames \/ t \in FixedWidth
         \/ GetType(t) = t /\ t \notin FixedWidth /\ Canonical(t)[1] \notin PrintedByNames
<1>1. t[1] = ""
  BY Definitions
<1>2. t \in FixedWidth => Canonical(t)[1] = ""
  BY Basics
<1>3. CASE Canonical(t)[1] \in PrintedByNames
  BY <1>1, <1>2, <1>3 DEF GetType, Named, PrintedByNames
<1>4. CASE Canonical(t)[1] \notin PrintedByNames /\ t \in FixedWidth
  BY <1>1, <1>2, <1>4 DEF GetType, Named, PrintedByNames
<1>5. CASE Canonical(t)[1] \notin PrintedByNames /\ t \notin FixedWidth
  BY <1>1, <1>5 DEF GetType, PrintedByNames
<1> QED
  BY <1>3, <1>4, <1>5

\* What a line has for a definition: the name of what it is, or the next definition.
LEMMA LineNamed ==
  ASSUME NEW x \in DOMAIN Under
  PROVE  \/ GetType(Under[x]) = Named(Canonical(x))
         \/ Under[x] \in DOMAIN Under /\ GetType(Under[x]) = Under[x]
<1>1. CASE Under[x] \in DOMAIN Under
  BY <1>1, CanonicalNext, GetTypeIn
<1>2. CASE Under[x] \notin DOMAIN Under
  <2>1. Canonical(Under[x]) = Under[x]
    BY <1>2, Definitions
  <2> QED BY <1>2, <2>1, CanonicalNext, GetTypeOut
<1> QED
  BY <1>1, <1>2

-----------------------------------------------------------------------------
(* Declarations *)

LEMMA Declared ==
  ASSUME NEW u \in DOMAIN Unit, NEW i \in DOMAIN Unit[u]
  PROVE  /\ u # "none" /\ Unit[u] \in Seq(Declarations) /\ DOMAIN Unit[u] = 1..Len(Unit[u])
         /\ Len(Unit[u]) \in Nat
         /\ Unit[u][i].k \in {"typedef", "record", "function", "field", "enum"}
         /\ Unit[u][i].k = "typedef" =>
              Unit[u][i].n \in DOMAIN Under /\ Unit[u][i] = [k |-> "typedef", n |-> Unit[u][i].n]
         /\ Unit[u][i].k = "enum" => Unit[u][i].n \in DOMAIN Promotion /\ Unit[u][i].n[1] \in EnumTags
         /\ Unit[u][i].k = "record" => Unit[u][i].n \in DOMAIN Fields /\ Unit[u][i].n[1] \in RecordTags
<1>1. UnitsAssumption
  BY TypesAssumption
<1>2. Unit[u] \in Seq(Declarations) /\ u # "none"
  BY <1>1 DEF UnitsAssumption
<1>3. Unit[u][i] \in Declarations
  BY <1>2
<1>4. /\ Unit[u][i].k \in {"typedef", "record", "function", "field", "enum"}
      /\ Unit[u][i].k = "typedef" => Unit[u][i] = [k |-> "typedef", n |-> Unit[u][i].n]
      /\ Unit[u][i].k = "enum" => Unit[u][i].n[1] \in EnumTags
      /\ Unit[u][i].k = "record" => Unit[u][i].n[1] \in RecordTags
  BY <1>3 DEF Declarations
<1>5. /\ Unit[u][i].k = "typedef" => Unit[u][i].n \in DOMAIN Under
      /\ Unit[u][i].k = "enum" => Unit[u][i].n \in DOMAIN Promotion
      /\ Unit[u][i].k = "record" => Unit[u][i].n \in DOMAIN Fields
  BY <1>1 DEF UnitsAssumption
<1> QED
  BY <1>2, <1>4, <1>5

LEMMA Tags ==
  /\ \A e \in DOMAIN Promotion : e[1] \in EnumTags /\ e = <<e[1], e[2]>>
  /\ \A r \in DOMAIN Fields : r[1] \in RecordTags
  /\ \A e, f \in DOMAIN Promotion : e[1] = "enum" /\ f[1] = "enum of" => e[2] # f[2]
  /\ DOMAIN Promotion \cap DOMAIN Under = {} /\ DOMAIN Fields \cap DOMAIN Under = {}
  /\ DOMAIN Promotion \cap DOMAIN Fields = {}
<1>1. DefinitionsAssumption
  BY TypesAssumption
<1>2. /\ \A e \in DOMAIN Promotion : e[1] \in EnumTags /\ e = <<e[1], e[2]>>
      /\ \A r \in DOMAIN Fields : r[1] \in RecordTags
  <2>1. DOMAIN Promotion \subseteq EnumTags \X STRING /\ DOMAIN Fields \subseteq RecordTags \X STRING
    BY <1>1 DEF DefinitionsAssumption
  <2> QED BY <2>1
<1> QED
  BY <1>1, <1>2, Definitions DEF DefinitionsAssumption, EnumTags, RecordTags

\* Two enumerations go by two names.
LEMMA NamedEnum ==
  ASSUME NEW e \in DOMAIN Promotion, NEW f \in DOMAIN Promotion,
         e[1] \in {"enum", "enum of"}, f[1] \in {"enum", "enum of"}, Named(e) = Named(f)
  PROVE  e = f
<1>1. Named(e) = <<"enum", e[2]>> /\ Named(f) = <<"enum", f[2]>>
  BY Tags DEF Named
<1>2. e[2] = f[2]
  <2>1. <<"enum", e[2]>>[2] = e[2] /\ <<"enum", f[2]>>[2] = f[2]
    OBVIOUS
  <2> QED BY <1>1, <2>1
<1>3. e[1] = f[1]
  BY <1>2, Tags
<1> QED
  BY <1>2, <1>3, Tags

\* What a declaration uses is declared before it.
LEMMA UsesDeclared ==
  ASSUME NEW u \in DOMAIN Unit, NEW i \in DOMAIN Unit[u], NEW t \in UsedBy(Unit[u][i])
  PROVE  /\ t \in DOMAIN Under \cup DOMAIN Promotion \cup DOMAIN Fields => Declares(u, i, t)
         /\ Unit[u][i].k \in {"function", "record"} => HasKind(t)
<1>1. UnitsAssumption
  BY TypesAssumption
<1> QED
  BY <1>1 DEF UnitsAssumption

LEMMA DeclaresBefore ==
  ASSUME NEW u \in DOMAIN Unit, NEW i \in DOMAIN Unit[u], NEW t, Declares(u, i, t)
  PROVE  \E j \in DOMAIN Unit[u] :
           /\ j \in 1..i - 1 /\ Unit[u][j].n = t
           /\ Unit[u][j].k = IF t \in DOMAIN Under THEN "typedef"
                             ELSE IF t \in DOMAIN Promotion THEN "enum" ELSE "record"
<1>1. PICK j \in 1..i - 1 : Unit[u][j].k \in {"typedef", "enum", "record"} /\ Unit[u][j].n = t
  BY DEF Declares
<1>2. j \in DOMAIN Unit[u]
  BY Declared
<1> QED
  BY <1>1, <1>2, Declared, Tags

LEMMA DeclaredTypedef ==
  ASSUME NEW u \in DOMAIN Unit, NEW i \in DOMAIN Unit[u], NEW t \in DOMAIN Under, Declares(u, i, t)
  PROVE  \E j \in DOMAIN Unit[u] : j \in 1..i - 1 /\ Unit[u][j].n = t /\ Unit[u][j].k = "typedef"
BY DeclaresBefore

LEMMA DeclaredEnum ==
  ASSUME NEW u \in DOMAIN Unit, NEW i \in DOMAIN Unit[u], NEW t \in DOMAIN Promotion, Declares(u, i, t)
  PROVE  \E j \in DOMAIN Unit[u] : Unit[u][j].n = t /\ Unit[u][j].k = "enum"
<1>1. t \notin DOMAIN Under
  BY Tags
<1> QED
  BY <1>1, DeclaresBefore

\* So is what is behind it.
LEMMA CanonicalDeclared ==
  ASSUME NEW u \in DOMAIN Unit, NEW i \in DOMAIN Unit[u], Unit[u][i].k = "typedef",
         Canonical(Unit[u][i].n) \in DOMAIN Promotion \cup DOMAIN Fields
  PROVE  Declares(u, i, Canonical(Unit[u][i].n))
<1> DEFINE Is(j) == Unit[u][j].k = "typedef" /\ Canonical(Unit[u][j].n) = Canonical(Unit[u][i].n)
           Bad == {j \in DOMAIN Unit[u] : Is(j) /\ ~Declares(u, j, Canonical(Unit[u][i].n))}
<1> SUFFICES ASSUME Bad # {} PROVE FALSE
  OBVIOUS
<1>1. PICK j \in Bad : \A m \in Bad : j <= m
  <2>1. Bad \in SUBSET Nat
    BY Declared
  <2> HIDE DEF Bad
  <2> QED BY <2>1, Least
<1>2. j \in DOMAIN Unit[u] /\ Is(j) /\ ~Declares(u, j, Canonical(Unit[u][i].n))
  OBVIOUS
<1> DEFINE x == Unit[u][j].n
<1>3. x \in DOMAIN Under /\ Canonical(Under[x]) = Canonical(Unit[u][i].n)
  BY <1>2, Declared, CanonicalNext
<1>4. Under[x] \in UsedBy(Unit[u][j])
  BY <1>2 DEF UsedBy
<1>5. CASE Under[x] \in DOMAIN Under
  <2>1. Declares(u, j, Under[x])
    BY <1>2, <1>4, <1>5, UsesDeclared
  <2>2. PICK m \in DOMAIN Unit[u] : m \in 1..j - 1 /\ Unit[u][m].n = Under[x] /\ Unit[u][m].k = "typedef"
    BY <1>2, <1>5, <2>1, DeclaresBefore
  <2>3. ~(j <= m) /\ j \in Nat
    BY <2>2, Declared
  <2>4. Declares(u, m, Canonical(Unit[u][i].n))
    BY <1>1, <1>3, <2>2, <2>3
  <2>5. 1..m - 1 \subseteq 1..j - 1
    BY <2>2, <2>3
  <2> QED BY <1>2, <2>4, <2>5 DEF Declares
<1>6. CASE Under[x] \notin DOMAIN Under
  <2>1. Under[x] = Canonical(Unit[u][i].n)
    BY <1>3, <1>6, Definitions
  <2> QED BY <1>2, <1>4, <2>1, UsesDeclared
<1> QED
  BY <1>5, <1>6

-----------------------------------------------------------------------------
(* The map of definitions *)

DefLine == {Line(x) : x \in DOMAIN Under}

\* In a map a definition comes after the next, unless that one may be missing.
Ordered(s) ==
  \A i \in DOMAIN s : \A x \in DOMAIN Under :
    s[i] = Line(x) /\ Under[x] \in DOMAIN Under /\ ~Missing(Under[x])
      => \E j \in 1..i - 1 : s[j] = Line(Under[x])

\* The recursive function of NewLines is defined.
LEMMA NewLinesUnfold ==
  ASSUME Len(lines) \in Nat
  PROVE  NewLines = [i \in 0..Len(lines) |->
           IF i = 0 THEN <<>> ELSE IF IsNew(lines[i]) THEN Append(NewLines[i - 1], lines[i]) ELSE NewLines[i - 1]]
<1> DEFINE Step(r, i) == IF IsNew(lines[i]) THEN Append(r, lines[i]) ELSE r
           Def(g, m) == g = [i \in 0..m |-> IF i = 0 THEN <<>> ELSE IF IsNew(lines[i]) THEN Append(g[i - 1], lines[i])
                                                                ELSE g[i - 1]]
           Bad == {m \in Nat : ~ \E g : Def(g, m)}
<1>1. Bad = {}
  <2> SUFFICES ASSUME Bad # {} PROVE FALSE
    OBVIOUS
  <2>1. PICK m \in Bad : \A j \in Bad : m <= j
    <3> HIDE DEF Def
    <3>1. Bad \in SUBSET Nat
      OBVIOUS
    <3> HIDE DEF Bad
    <3> QED BY <3>1, Least
  <2>2. m \in Nat /\ ~ \E g : Def(g, m)
    OBVIOUS
  <2>3. CASE m = 0
    <3>1. Def([i \in 0..0 |-> <<>>], 0)
      OBVIOUS
    <3> QED BY <2>2, <2>3, <3>1
  <2>4. CASE m # 0
    <3>1. m - 1 \in Nat /\ m - 1 \notin Bad
      <4>1. m \in Nat /\ m # 0 /\ \A j \in Bad : m <= j
        <5> HIDE DEF Bad, Def
        <5> QED BY <2>1, <2>2, <2>4
      <4> HIDE DEF Bad
      <4>2. m - 1 \in Nat /\ ~(m <= m - 1)
        BY <4>1
      <4> QED BY <4>1, <4>2
    <3>2. PICK g : Def(g, m - 1)
      BY <3>1
    <3> DEFINE h == [i \in 0..m |-> IF i = m THEN Step(g[m - 1], m) ELSE g[i]]
    <3>3. \A i \in 0..m : i # 0 => i - 1 \in 0..m - 1 /\ h[i - 1] = g[i - 1]
      BY <2>2, <2>4
    <3>4. ASSUME NEW i \in 0..m
          PROVE  h[i] = IF i = 0 THEN <<>> ELSE Step(h[i - 1], i)
      <4>1. CASE i = m
        BY <2>2, <2>4, <3>3, <4>1
      <4>2. CASE i # m
        <5>1. i \in 0..m - 1
          BY <2>2, <4>2
        <5>2. g[i] = IF i = 0 THEN <<>> ELSE Step(g[i - 1], i)
          BY <3>2, <5>1
        <5> QED BY <3>3, <4>2, <5>2
      <4> QED BY <4>1, <4>2
    <3>5. Def(h, m)
      BY <3>4
    <3> QED BY <2>2, <3>5
  <2> QED BY <2>3, <2>4
<1>2. PICK g : Def(g, Len(lines))
  BY <1>1
<1>3. Def(NewLines, Len(lines))
  BY <1>2, Zenon DEF NewLines
<1> QED
  BY <1>3

\* EndUnit appends the lines that are new, in their order.
LEMMA NewLinesAre ==
  ASSUME lines \in Seq(DefLine)
  PROVE  /\ NewLines[Len(lines)] \in Seq(DefLine)
         /\ \A p \in DOMAIN lines : IsNew(lines[p]) =>
              \E i \in DOMAIN NewLines[Len(lines)] : NewLines[Len(lines)][i] = lines[p]
         /\ \A i \in DOMAIN NewLines[Len(lines)] : \E p \in DOMAIN lines :
              /\ NewLines[Len(lines)][i] = lines[p]
              /\ \A q \in 1..p - 1 : IsNew(lines[q]) => \E j \in 1..i - 1 : NewLines[Len(lines)][j] = lines[q]
<1> DEFINE n == Len(lines)
           Typed(s) == s \in Seq(DefLine)
           All(s, k) == \A p \in 1..k : IsNew(lines[p]) => \E i \in DOMAIN s : s[i] = lines[p]
           InOrder(s, k) == \A i \in DOMAIN s : \E p \in 1..k :
             s[i] = lines[p] /\ \A q \in 1..p - 1 : IsNew(lines[q]) => \E j \in 1..i - 1 : s[j] = lines[q]
           Kept(k) == Typed(NewLines[k]) /\ All(NewLines[k], k) /\ InOrder(NewLines[k], k)
           Bad == {k \in 0..n : ~Kept(k)}
<1>1. n \in Nat /\ DOMAIN lines = 1..n
  OBVIOUS
<1>2. Bad = {}
  <2> SUFFICES ASSUME Bad # {} PROVE FALSE
    OBVIOUS
  <2>1. PICK k \in Bad : \A j \in Bad : k <= j
    <3> HIDE DEF Kept
    <3>1. Bad \in SUBSET Nat
      BY <1>1
    <3> HIDE DEF Bad
    <3> QED BY <3>1, Least
  <2>2. k \in 0..n /\ ~Kept(k)
    OBVIOUS
  <2>3. k # 0
    <3>1. NewLines[0] = <<>>
      BY <1>1, NewLinesUnfold
    <3>2. Kept(0)
      BY <3>1
    <3> QED BY <2>2, <3>2
  <2>4. k - 1 \in 0..n /\ Kept(k - 1) /\ k \in DOMAIN lines /\ k - 1 \in 0..k
    <3>1. k - 1 \in 0..n /\ ~(k <= k - 1)
      BY <1>1, <2>2, <2>3
    <3> HIDE DEF Kept
    <3> QED BY <1>1, <2>1, <2>2, <2>3, <3>1
  <2> DEFINE r == NewLines[k - 1]
             s == NewLines[k]
  <2>5. s = IF IsNew(lines[k]) THEN Append(r, lines[k]) ELSE r
    BY <1>1, <2>2, <2>3, NewLinesUnfold
  <2>6. lines[k] \in DefLine /\ Typed(r) /\ All(r, k - 1) /\ InOrder(r, k - 1)
    BY <2>4
  <2> HIDE DEF Kept, r, s
  <2>7. \A p \in 1..k : p \in 1..k - 1 \/ p = k
    BY <2>2
  <2>8. CASE ~IsNew(lines[k])
    <3>1. s = r
      BY <2>5, <2>8
    <3>2. All(r, k)
      BY <2>6, <2>7, <2>8
    <3>3. InOrder(r, k)
      <4>1. \A p \in 1..k - 1 : p \in 1..k
        BY <1>1, <2>2
      <4> QED BY <2>6, <4>1
    <3> QED BY <2>2, <2>6, <3>1, <3>2, <3>3 DEF Kept, s
  <2>9. CASE IsNew(lines[k])
    <3>1. s = Append(r, lines[k])
      BY <2>5, <2>9
    <3>2. /\ s \in Seq(DefLine) /\ DOMAIN s = 1..Len(r) + 1 /\ DOMAIN r = 1..Len(r) /\ Len(r) \in Nat
          /\ s[Len(r) + 1] = lines[k] /\ \A i \in DOMAIN r : i \in DOMAIN s /\ s[i] = r[i]
      BY <2>6, <3>1
    <3>3. All(s, k)
      <4> TAKE p \in 1..k
      <4> HAVE IsNew(lines[p])
      <4>1. CASE p \in 1..k - 1
        BY <2>6, <3>2, <4>1
      <4>2. CASE p = k
        BY <3>2, <4>2
      <4> QED BY <2>7, <4>1, <4>2
    <3>4. InOrder(s, k)
      <4> TAKE i \in DOMAIN s
      <4>1. CASE i \in DOMAIN r
        <5>1. PICK p \in 1..k - 1 :
                r[i] = lines[p] /\ \A q \in 1..p - 1 : IsNew(lines[q]) => \E j \in 1..i - 1 : r[j] = lines[q]
          BY <2>6, <4>1
        <5>2. (\A j \in 1..i - 1 : j \in DOMAIN r) /\ p \in 1..k
          BY <1>1, <2>2, <3>2, <4>1
        <5>3. s[i] = lines[p] /\ \A j \in 1..i - 1 : s[j] = r[j]
          BY <3>2, <4>1, <5>1, <5>2
        <5> QED BY <5>1, <5>2, <5>3
      <4>2. CASE i = Len(r) + 1
        <5>1. \A q \in 1..k - 1 : IsNew(lines[q]) => \E j \in 1..i - 1 : s[j] = lines[q]
          <6>1. 1..i - 1 = DOMAIN r
            BY <3>2, <4>2
          <6> TAKE q \in 1..k - 1
          <6> HAVE IsNew(lines[q])
          <6>2. PICK j \in DOMAIN r : r[j] = lines[q]
            BY <2>6
          <6> QED BY <3>2, <6>1, <6>2
        <5>2. k \in 1..k
          BY <1>1, <2>4
        <5> QED BY <3>2, <4>2, <5>1, <5>2
      <4> QED BY <3>2, <4>1, <4>2
    <3> QED BY <2>2, <3>2, <3>3, <3>4 DEF Kept, s
  <2> QED BY <2>8, <2>9
<1>3. Kept(n)
  <2> HIDE DEF Kept
  <2> QED BY <1>1, <1>2
<1> QED
  BY <1>1, <1>3

\* The recursive function of Simplified is defined.
LEMMA SimplifiedUnfold ==
  ASSUME Len(typemap) \in Nat
  PROVE  Simplified = [i \in 0..Len(typemap) |-> IF i = 0 THEN <<>> ELSE Add(Simplified[i - 1], typemap[i])]
<1> DEFINE Def(g, m) == g = [i \in 0..m |-> IF i = 0 THEN <<>> ELSE Add(g[i - 1], typemap[i])]
           Bad == {m \in Nat : ~ \E g : Def(g, m)}
<1>1. Bad = {}
  <2> SUFFICES ASSUME Bad # {} PROVE FALSE
    OBVIOUS
  <2>1. PICK m \in Bad : \A j \in Bad : m <= j
    <3> HIDE DEF Def
    <3>1. Bad \in SUBSET Nat
      OBVIOUS
    <3> HIDE DEF Bad
    <3> QED BY <3>1, Least
  <2>2. m \in Nat /\ ~ \E g : Def(g, m)
    OBVIOUS
  <2>3. CASE m = 0
    <3>1. Def([i \in 0..0 |-> <<>>], 0)
      OBVIOUS
    <3> QED BY <2>2, <2>3, <3>1
  <2>4. CASE m # 0
    <3>1. m - 1 \in Nat /\ m - 1 \notin Bad
      <4>1. m \in Nat /\ m # 0 /\ \A j \in Bad : m <= j
        <5> HIDE DEF Bad, Def
        <5> QED BY <2>1, <2>2, <2>4
      <4> HIDE DEF Bad
      <4>2. m - 1 \in Nat /\ ~(m <= m - 1)
        BY <4>1
      <4> QED BY <4>1, <4>2
    <3>2. PICK g : Def(g, m - 1)
      BY <3>1
    <3> DEFINE h == [i \in 0..m |-> IF i = m THEN Add(g[m - 1], typemap[m]) ELSE g[i]]
    <3>3. \A i \in 0..m : i # 0 => i - 1 \in 0..m - 1 /\ h[i - 1] = g[i - 1]
      BY <2>2, <2>4
    <3>4. ASSUME NEW i \in 0..m
          PROVE  h[i] = IF i = 0 THEN <<>> ELSE Add(h[i - 1], typemap[i])
      <4>1. CASE i = m
        BY <2>2, <2>4, <3>3, <4>1
      <4>2. CASE i # m
        <5>1. i \in 0..m - 1
          BY <2>2, <4>2
        <5>2. g[i] = IF i = 0 THEN <<>> ELSE Add(g[i - 1], typemap[i])
          BY <3>2, <5>1
        <5> QED BY <3>3, <4>2, <5>2
      <4> QED BY <4>1, <4>2
    <3>5. Def(h, m)
      BY <3>4
    <3> QED BY <2>2, <3>5
  <2> QED BY <2>3, <2>4
<1>2. PICK g : Def(g, Len(typemap))
  BY <1>1
<1>3. Def(Simplified, Len(typemap))
  BY <1>2, Zenon DEF Simplified
<1> QED
  BY <1>3

\* What the first k lines make of the map: all the definitions that are not left out; what is
\* behind one, if that is clean.
Entry(m, x) == Under[x] \notin DOMAIN Under \/ Clean(Under[x]) => m[x] = Named(Canonical(x))
Entries(m)    == IsFiniteSet(DOMAIN m) /\ DOMAIN m \subseteq DOMAIN Under /\ \A x \in DOMAIN m : Entry(m, x)
Complete(m, k) ==
  \A j \in 1..k : \A x \in DOMAIN Under \ LeftOut : typemap[j] = Line(x) => x \in DOMAIN m

\* One more line.
LEMMA EntryAdded ==
  ASSUME NEW m, Entries(m), NEW x \in DOMAIN Under,
         Under[x] \in DOMAIN Under /\ ~Missing(Under[x]) => Under[x] \in DOMAIN m
  PROVE  Entries(Set(m, x, Follow(m, GetType(Under[x]))))
<1> DEFINE g == GetType(Under[x])
           v == Follow(m, g)
           n == Set(m, x, v)
<1>1. IsFiniteSet(DOMAIN m) /\ DOMAIN m \subseteq DOMAIN Under /\ \A y \in DOMAIN m : Entry(m, y)
  BY DEF Entries
<1>2. DOMAIN n = DOMAIN m \cup {x} /\ n[x] = v /\ \A y \in DOMAIN m \ {x} : n[y] = m[y]
  BY DEF Set
<1>3. IsFiniteSet(DOMAIN n) /\ DOMAIN n \subseteq DOMAIN Under
  BY <1>1, <1>2, FS_AddElement
<1>4. Named(Canonical(x)) \notin DOMAIN Under
  BY Definitions, NamedOut
<1> HIDE DEF g, v, n
<1>5. Under[x] \notin DOMAIN Under \/ Clean(Under[x]) => v = Named(Canonical(x))
  <2>1. CASE g = Named(Canonical(x))
    <3>1. v = g
      BY <1>1, <1>4, <2>1, FollowOut DEF v
    <3> QED BY <1>4, <2>1, <3>1
  <2>2. CASE Under[x] \in DOMAIN Under /\ g = Under[x] /\ g \in DOMAIN m
    <3> SUFFICES ASSUME Clean(Under[x]) PROVE v = Named(Canonical(x))
      BY <2>2
    <3>1. Clean(Under[g])
      BY <2>2, CleanNext
    <3>2. m[g] = Named(Canonical(g)) /\ Canonical(g) = Canonical(x)
      BY <1>1, <2>2, <3>1, CanonicalNext DEF Entry
    <3> QED BY <1>1, <1>4, <2>2, <3>2, FollowOne DEF v
  <2>3. CASE Under[x] \in DOMAIN Under /\ g = Under[x] /\ g \notin DOMAIN m
    <3>1. Missing(g)
      BY <2>3
    <3> QED BY <2>3, <3>1, CleanNext
  <2> QED BY <2>1, <2>2, <2>3, LineNamed DEF g
<1>6. ASSUME NEW y \in DOMAIN n PROVE Entry(n, y)
  <2>1. CASE y = x
    BY <1>2, <1>5, <2>1 DEF Entry
  <2>2. CASE y # x
    BY <1>1, <1>2, <2>2 DEF Entry
  <2> QED BY <2>1, <2>2
<1> QED
  BY <1>3, <1>6 DEF Entries, n, v, g

LEMMA SimplifiedIs ==
  ASSUME typemap \in Seq(DefLine), Ordered(typemap)
  PROVE  Entries(Simplified[Len(typemap)]) /\ Complete(Simplified[Len(typemap)], Len(typemap))
<1> DEFINE n == Len(typemap)
           Kept(k) == Entries(Simplified[k]) /\ Complete(Simplified[k], k)
           Bad == {k \in 0..n : ~Kept(k)}
<1>1. n \in Nat /\ DOMAIN typemap = 1..n
  OBVIOUS
<1>2. Bad = {}
  <2> SUFFICES ASSUME Bad # {} PROVE FALSE
    OBVIOUS
  <2>1. PICK k \in Bad : \A j \in Bad : k <= j
    <3> HIDE DEF Kept
    <3>1. Bad \in SUBSET Nat
      BY <1>1
    <3> HIDE DEF Bad
    <3> QED BY <3>1, Least
  <2>2. k \in 0..n /\ ~Kept(k)
    OBVIOUS
  <2>3. k # 0
    <3>1. Simplified[0] = <<>> /\ DOMAIN <<>> = {}
      BY <1>1, SimplifiedUnfold
    <3>2. Entries(<<>>) /\ Complete(<<>>, 0)
      BY <3>1, FS_EmptySet DEF Entries, Complete
    <3>3. Kept(0)
      BY <3>1, <3>2
    <3> QED BY <2>2, <3>3
  <2>4. k - 1 \in 0..n /\ Kept(k - 1) /\ k \in DOMAIN typemap
    <3>1. k - 1 \in 0..n /\ ~(k <= k - 1)
      BY <1>1, <2>2, <2>3
    <3> HIDE DEF Kept
    <3> QED BY <1>1, <2>1, <2>2, <2>3, <3>1
  <2> DEFINE m == Simplified[k - 1]
  <2>5. Simplified[k] = Add(m, typemap[k])
    BY <1>1, <2>2, <2>3, SimplifiedUnfold
  <2>6. Entries(m) /\ Complete(m, k - 1) /\ ~(Entries(Simplified[k]) /\ Complete(Simplified[k], k))
    BY <2>2, <2>4
  <2>7. PICK x \in DOMAIN Under : typemap[k] = Line(x)
    BY <2>4 DEF DefLine
  <2>8. typemap[k][1] = x /\ typemap[k][2] = GetType(Under[x]) /\ \A y \in DOMAIN Under : typemap[k] = Line(y) => y = x
    BY <2>7 DEF Line
  <2> HIDE DEF Kept, m
  <2>9. \A j \in 1..k : j \in 1..k - 1 \/ j = k
    BY <1>1, <2>2
  <2>10. CASE x \in DOMAIN m \/ x \in LeftOut
    <3>1. Simplified[k] = m
      BY <2>5, <2>8, <2>10 DEF Add
    <3>2. Complete(m, k)
      BY <2>6, <2>8, <2>9, <2>10 DEF Complete
    <3> QED BY <2>6, <3>1, <3>2
  <2>11. CASE ~(x \in DOMAIN m \/ x \in LeftOut)
    <3>1. Simplified[k] = Set(m, x, Follow(m, GetType(Under[x])))
      BY <2>5, <2>8, <2>11 DEF Add
    <3>2. ASSUME Under[x] \in DOMAIN Under, ~Missing(Under[x]) PROVE Under[x] \in DOMAIN m
      <4>1. PICK j \in 1..k - 1 : typemap[j] = Line(Under[x])
        BY <2>4, <2>7, <3>2 DEF Ordered
      <4>2. Under[x] \notin LeftOut
        BY <3>2 DEF Missing
      <4> QED BY <2>6, <3>2, <4>1, <4>2 DEF Complete
    <3>3. Entries(Simplified[k])
      BY <2>6, <3>1, <3>2, EntryAdded
    <3>4. DOMAIN Simplified[k] = DOMAIN m \cup {x}
      BY <3>1 DEF Set
    <3>5. Complete(Simplified[k], k)
      BY <2>6, <2>8, <2>9, <3>4 DEF Complete
    <3> QED BY <2>6, <3>3, <3>5
  <2> QED BY <2>10, <2>11
<1>3. Kept(n)
  <2> HIDE DEF Kept
  <2> QED BY <1>1, <1>2
<1> QED
  BY <1>3

-----------------------------------------------------------------------------
(* The plugin *)

LEMMA UnitSeq ==
  ASSUME NEW u \in DOMAIN Unit
  PROVE  Unit[u] \in Seq(Declarations) /\ u # "none" /\ Len(Unit[u]) \in Nat /\ DOMAIN Unit[u] = 1..Len(Unit[u])
<1>1. UnitsAssumption
  BY TypesAssumption
<1>2. Unit[u] \in Seq(Declarations) /\ u # "none"
  BY <1>1 DEF UnitsAssumption
<1> QED
  BY <1>2

Stages == {"extract", "parse", "raw", "save", "copy", "made", "unions", "enumerations", "lines", "ready"}

HasLine(s, x) == \E j \in DOMAIN s : s[j] = Line(x)

\* The map has the definitions of the units, as far as they are not missing.
Compiled ==
  /\ stage \in Stages /\ finished \subseteq DOMAIN Unit
  /\ typemap \in Seq(DefLine) /\ Ordered(typemap)
  /\ \A u \in finished : \A i \in DOMAIN Unit[u] :
       Unit[u][i].k = "typedef" /\ ~Missing(Unit[u][i].n) => HasLine(typemap, Unit[u][i].n)

\* The lines of a unit have those that it visited.
InUnit ==
  unit # "none" =>
    /\ stage = "extract" /\ unit \in DOMAIN Unit /\ at \in 1..Len(Unit[unit]) + 1
    /\ lines \in Seq(DefLine) /\ Ordered(lines)
    /\ \A i \in 1..at - 1 : Unit[unit][i].k = "typedef" => HasLine(lines, Unit[unit][i].n)

LEMMA LineIs ==
  ASSUME NEW x, NEW y, Line(x) = Line(y)
  PROVE  x = y
BY DEF Line

\* A line that is not new, though it is not missing, is there.
LEMMA NotNew ==
  ASSUME typemap \in Seq(DefLine), NEW x \in DOMAIN Under, ~Missing(x), ~IsNew(Line(x))
  PROVE  HasLine(typemap, x)
<1>1. PICK j \in DOMAIN typemap : Within(Line(x), typemap[j])
  BY DEF IsNew, Range
<1>2. PICK y \in DOMAIN Under : typemap[j] = Line(y)
  BY DEF DefLine
<1>3. y = x
  BY <1>1, <1>2 DEF Missing
<1> QED
  BY <1>2, <1>3 DEF HasLine

LEMMA CompiledTypedef ==
  ASSUME Compiled, InUnit, VisitTypedefDecl
  PROVE  Compiled' /\ InUnit'
<1>1. /\ stage = "extract" /\ unit # "none" /\ at <= Len(Unit[unit]) /\ D.k = "typedef"
      /\ lines' = Append(lines, Line(D.n)) /\ at' = at + 1
      /\ UNCHANGED <<stage, unit, typemap, finished>>
  BY DEF VisitTypedefDecl, Visits, Compiling, Visited, Line
<1>2. /\ unit \in DOMAIN Unit /\ at \in 1..Len(Unit[unit]) + 1 /\ lines \in Seq(DefLine) /\ Ordered(lines)
      /\ \A i \in 1..at - 1 : Unit[unit][i].k = "typedef" => HasLine(lines, Unit[unit][i].n)
  BY <1>1 DEF InUnit
<1>3. /\ Len(Unit[unit]) \in Nat /\ DOMAIN Unit[unit] = 1..Len(Unit[unit]) /\ at \in DOMAIN Unit[unit]
      /\ at + 1 \in 1..Len(Unit[unit]) + 1 /\ \A i \in 1..(at + 1) - 1 : i \in 1..at - 1 \/ i = at
  BY <1>1, <1>2, UnitSeq
<1>4. D.n \in DOMAIN Under /\ D = Unit[unit][at]
  BY <1>1, <1>2, <1>3, Declared DEF D
<1>5. /\ Line(D.n) \in DefLine /\ lines' \in Seq(DefLine) /\ Len(lines) \in Nat
      /\ DOMAIN lines = 1..Len(lines) /\ DOMAIN lines' = 1..Len(lines) + 1 /\ lines'[Len(lines) + 1] = Line(D.n)
      /\ \A i \in DOMAIN lines : i \in DOMAIN lines' /\ lines'[i] = lines[i]
  BY <1>1, <1>2, <1>4 DEF DefLine
<1>6. \A x : HasLine(lines, x) => HasLine(lines', x)
  BY <1>5 DEF HasLine
<1>7. Ordered(lines')
  <2> SUFFICES ASSUME NEW i \in DOMAIN lines', NEW x \in DOMAIN Under, lines'[i] = Line(x),
                      Under[x] \in DOMAIN Under, ~Missing(Under[x])
               PROVE  \E j \in 1..i - 1 : lines'[j] = Line(Under[x])
    BY DEF Ordered
  <2>1. CASE i \in DOMAIN lines
    <3>1. PICK j \in 1..i - 1 : lines[j] = Line(Under[x])
      BY <1>2, <1>5, <2>1 DEF Ordered
    <3>2. j \in DOMAIN lines
      BY <1>5, <2>1
    <3> QED BY <1>5, <3>1, <3>2
  <2>2. CASE i = Len(lines) + 1
    <3>1. x = D.n
      BY <1>5, <2>2, LineIs
    <3>2. Under[x] \in UsedBy(Unit[unit][at])
      BY <1>1, <1>4, <3>1 DEF UsedBy
    <3>3. Declares(unit, at, Under[x])
      BY <1>2, <1>3, <3>2, UsesDeclared
    <3>4. unit \in DOMAIN Unit /\ at \in DOMAIN Unit[unit] /\ Under[x] \in DOMAIN Under
      BY <1>2, <1>3
    <3>5. PICK k \in DOMAIN Unit[unit] : k \in 1..at - 1 /\ Unit[unit][k].n = Under[x] /\ Unit[unit][k].k = "typedef"
      BY <3>3, <3>4, DeclaredTypedef
    <3>6. PICK j \in DOMAIN lines : lines[j] = Line(Under[x])
      BY <1>2, <3>5 DEF HasLine
    <3>7. j \in 1..i - 1
      BY <1>5, <2>2
    <3> QED BY <1>5, <3>6, <3>7
  <2> QED BY <1>5, <2>1, <2>2
<1>8. HasLine(lines', D.n)
  BY <1>5 DEF HasLine
<1>9. \A i \in 1..at' - 1 : Unit[unit][i].k = "typedef" => HasLine(lines', Unit[unit][i].n)
  BY <1>1, <1>2, <1>3, <1>4, <1>6, <1>8
<1>10. InUnit'
  BY <1>1, <1>2, <1>3, <1>5, <1>7, <1>9 DEF InUnit
<1> QED
  BY <1>1, <1>10 DEF Compiled

LEMMA CompiledEnd ==
  ASSUME Compiled, InUnit, EndUnit
  PROVE  Compiled' /\ InUnit'
<1> DEFINE s == NewLines[Len(lines)]
           n == Len(typemap)
<1>1. /\ unit # "none" /\ at > Len(Unit[unit]) /\ typemap' = typemap \o s
      /\ finished' = finished \cup {unit} /\ unit' = "none" /\ stage' = stage
  BY DEF EndUnit, Compiling
<1>2. /\ unit \in DOMAIN Unit /\ at \in 1..Len(Unit[unit]) + 1 /\ lines \in Seq(DefLine) /\ Ordered(lines)
      /\ \A i \in 1..at - 1 : Unit[unit][i].k = "typedef" => HasLine(lines, Unit[unit][i].n)
  BY <1>1 DEF InUnit
<1>3. /\ typemap \in Seq(DefLine) /\ Ordered(typemap) /\ finished \subseteq DOMAIN Unit
      /\ \A u \in finished : \A i \in DOMAIN Unit[u] :
           Unit[u][i].k = "typedef" /\ ~Missing(Unit[u][i].n) => HasLine(typemap, Unit[u][i].n)
  BY DEF Compiled
<1>4. /\ s \in Seq(DefLine)
      /\ \A p \in DOMAIN lines : IsNew(lines[p]) => \E i \in DOMAIN s : s[i] = lines[p]
      /\ \A i \in DOMAIN s : \E p \in DOMAIN lines :
           s[i] = lines[p] /\ \A q \in 1..p - 1 : IsNew(lines[q]) => \E j \in 1..i - 1 : s[j] = lines[q]
  BY <1>2, NewLinesAre
<1> HIDE DEF s
<1>5. /\ typemap' \in Seq(DefLine) /\ n \in Nat /\ Len(s) \in Nat
      /\ DOMAIN typemap = 1..n /\ DOMAIN s = 1..Len(s) /\ DOMAIN typemap' = 1..n + Len(s)
      /\ \A i \in DOMAIN typemap : i \in DOMAIN typemap' /\ typemap'[i] = typemap[i]
      /\ \A i \in DOMAIN s : n + i \in DOMAIN typemap' /\ typemap'[n + i] = s[i]
      /\ \A i \in DOMAIN typemap' : i \in DOMAIN typemap \/ \E k \in DOMAIN s : i = n + k
  <2>1. /\ typemap' \in Seq(DefLine) /\ n \in Nat /\ Len(s) \in Nat
        /\ DOMAIN typemap = 1..n /\ DOMAIN s = 1..Len(s) /\ DOMAIN typemap' = 1..n + Len(s)
    BY <1>1, <1>3, <1>4
  <2>2. \A i \in DOMAIN typemap : i \in DOMAIN typemap' /\ typemap'[i] = typemap[i]
    BY <1>1, <1>3, <1>4, <2>1
  <2>3. \A i \in DOMAIN s : n + i \in DOMAIN typemap' /\ typemap'[n + i] = s[i]
    BY <1>1, <1>3, <1>4, <2>1
  <2>4. ASSUME NEW i \in DOMAIN typemap', i \notin DOMAIN typemap PROVE \E k \in DOMAIN s : i = n + k
    <3>1. i - n \in DOMAIN s /\ i = n + (i - n)
      BY <2>1, <2>4
    <3> QED BY <3>1
  <2> QED BY <2>1, <2>2, <2>3, <2>4
<1> HIDE DEF n
<1>6. \A x : HasLine(typemap, x) => HasLine(typemap', x)
  BY <1>5 DEF HasLine
<1>7. ASSUME NEW q \in DOMAIN lines, NEW x \in DOMAIN Under, lines[q] = Line(x), ~Missing(x)
      PROVE  HasLine(typemap', x)
  <2>1. CASE IsNew(lines[q])
    <3>1. PICK i \in DOMAIN s : s[i] = Line(x)
      BY <1>4, <1>7, <2>1
    <3> QED BY <1>5, <3>1 DEF HasLine
  <2>2. CASE ~IsNew(lines[q])
    BY <1>3, <1>6, <1>7, <2>2, NotNew
  <2> QED BY <2>1, <2>2
<1>8. Ordered(typemap')
  <2> SUFFICES ASSUME NEW i \in DOMAIN typemap', NEW x \in DOMAIN Under, typemap'[i] = Line(x),
                      Under[x] \in DOMAIN Under, ~Missing(Under[x])
               PROVE  \E j \in 1..i - 1 : typemap'[j] = Line(Under[x])
    BY DEF Ordered
  <2>1. CASE i \in DOMAIN typemap
    <3>1. PICK j \in 1..i - 1 : typemap[j] = Line(Under[x])
      BY <1>3, <1>5, <2>1 DEF Ordered
    <3>2. j \in DOMAIN typemap
      BY <1>5, <2>1
    <3> QED BY <1>5, <3>1, <3>2
  <2>2. ASSUME NEW k \in DOMAIN s, i = n + k PROVE \E j \in 1..i - 1 : typemap'[j] = Line(Under[x])
    <3>1. s[k] = Line(x)
      BY <1>5, <2>2
    <3>2. PICK p \in DOMAIN lines :
            s[k] = lines[p] /\ \A q \in 1..p - 1 : IsNew(lines[q]) => \E j \in 1..k - 1 : s[j] = lines[q]
      BY <1>4
    <3>3. PICK q \in 1..p - 1 : lines[q] = Line(Under[x])
      BY <1>2, <3>1, <3>2 DEF Ordered
    <3>4. CASE IsNew(lines[q])
      <4>1. PICK j \in 1..k - 1 : s[j] = Line(Under[x])
        BY <3>2, <3>3, <3>4
      <4>2. j \in DOMAIN s /\ n + j \in 1..i - 1
        BY <1>5, <2>2
      <4> QED BY <1>5, <4>1, <4>2
    <3>5. CASE ~IsNew(lines[q])
      <4>1. PICK j \in DOMAIN typemap : typemap[j] = Line(Under[x])
        BY <1>3, <3>3, <3>5, NotNew DEF HasLine
      <4>2. j \in 1..i - 1
        BY <1>5, <2>2
      <4> QED BY <1>5, <4>1, <4>2
    <3> QED BY <3>4, <3>5
  <2> QED BY <1>5, <2>1, <2>2
<1>9. ASSUME NEW i \in DOMAIN Unit[unit], Unit[unit][i].k = "typedef", ~Missing(Unit[unit][i].n)
      PROVE  HasLine(typemap', Unit[unit][i].n)
  <2>1. i \in 1..at - 1 /\ Unit[unit][i].n \in DOMAIN Under
    BY <1>1, <1>2, <1>9, UnitSeq, Declared
  <2>2. PICK q \in DOMAIN lines : lines[q] = Line(Unit[unit][i].n)
    BY <1>2, <1>9, <2>1 DEF HasLine
  <2> QED BY <1>7, <1>9, <2>1, <2>2
<1>10. Compiled'
  <2>1. \A u \in finished' : \A i \in DOMAIN Unit[u] :
          Unit[u][i].k = "typedef" /\ ~Missing(Unit[u][i].n) => HasLine(typemap', Unit[u][i].n)
    BY <1>1, <1>3, <1>6, <1>9
  <2> QED BY <1>1, <1>2, <1>3, <1>5, <1>8, <2>1 DEF Compiled
<1> QED
  BY <1>1, <1>10 DEF InUnit

\* What leaves the plugin alone keeps what holds of it.
LEMMA CompiledIdle ==
  ASSUME Compiled, InUnit, unit = "none", stage' \in Stages, UNCHANGED <<compiling, rough>>
  PROVE  Compiled' /\ InUnit'
BY DEF Compiled, InUnit, compiling, rough, HasLine, Ordered

LEMMA CompiledVisit ==
  ASSUME Compiled, InUnit, VisitEnumDecl \/ VisitCXXRecordDecl \/ VisitFunction \/ VisitOther
  PROVE  Compiled' /\ InUnit'
<1>1. /\ unit # "none" /\ at <= Len(Unit[unit]) /\ D.k # "typedef"
      /\ at' = at + 1 /\ UNCHANGED <<stage, unit, typemap, finished, lines>>
  BY DEF VisitEnumDecl, VisitCXXRecordDecl, VisitFunction, VisitOther, Visits, Compiling, Visited
<1>2. /\ unit \in DOMAIN Unit /\ at \in 1..Len(Unit[unit]) + 1
      /\ \A i \in 1..at - 1 : Unit[unit][i].k = "typedef" => HasLine(lines, Unit[unit][i].n)
  BY <1>1 DEF InUnit
<1>3. /\ at + 1 \in 1..Len(Unit[unit]) + 1 /\ \A i \in 1..(at + 1) - 1 : i \in 1..at - 1 \/ i = at
  BY <1>1, <1>2, UnitSeq
<1>4. \A i \in 1..at' - 1 : Unit[unit][i].k = "typedef" => HasLine(lines, Unit[unit][i].n)
  BY <1>1, <1>2, <1>3 DEF D
<1> QED
  BY <1>1, <1>3, <1>4 DEF Compiled, InUnit, HasLine, Ordered

LEMMA CompiledStart ==
  ASSUME Compiled, StartUnit
  PROVE  Compiled' /\ InUnit'
<1>1. /\ stage = "extract" /\ unit' \in DOMAIN Unit /\ at' = 1 /\ lines' = <<>>
      /\ UNCHANGED <<stage, typemap, finished>>
  BY DEF StartUnit, rough
<1>2. at' \in 1..Len(Unit[unit'])+ 1 /\ 1..at' - 1 = {} /\ DOMAIN lines' = {} /\ lines' \in Seq(DefLine)
  BY <1>1, UnitSeq
<1> QED
  BY <1>1, <1>2 DEF Compiled, InUnit, HasLine, Ordered

LEMMA CompiledNext ==
  ASSUME Compiled, InUnit, [Next]_vars
  PROVE  Compiled' /\ InUnit'
<1>1. CASE StartUnit
  BY <1>1, CompiledStart
<1>2. CASE VisitTypedefDecl
  BY <1>2, CompiledTypedef
<1>3. CASE VisitEnumDecl \/ VisitCXXRecordDecl \/ VisitFunction \/ VisitOther
  BY <1>3, CompiledVisit
<1>4. CASE EndUnit
  BY <1>4, CompiledEnd
<1>5. CASE PluginExits
  BY <1>5 DEF PluginExits, Compiled, InUnit, HasLine, Ordered
<1>6. CASE PostProcess \/ Load
  <2>1. unit = "none"
    BY <1>6 DEF InUnit, PostProcess, Load, SimplifyTypeMap, ParseFunctions, ParseRawStructure, EndRaw, SaveTypeMap,
      CopyEnumerations, ExtractMore, LoadStructures, LoadUnions, LoadEnumeration, InitVarTypeMap, LoadLine, Ready
  <2>2. stage' \in Stages /\ UNCHANGED <<compiling, rough>>
    BY <1>6 DEF Compiled, Stages, PostProcess, Load, SimplifyTypeMap, ParseFunctions, ParseRawStructure, EndRaw,
      SaveTypeMap, CopyEnumerations, ExtractMore, LoadStructures, LoadUnions, LoadEnumeration, InitVarTypeMap,
      LoadLine, Ready
  <2> QED BY <2>1, <2>2, CompiledIdle
<1>7. CASE UNCHANGED vars
  BY <1>7 DEF vars, compiling, rough, Compiled, InUnit, HasLine, Ordered
<1> QED
  BY <1>1, <1>2, <1>3, <1>4, <1>5, <1>6, <1>7 DEF Next, Plugin

-----------------------------------------------------------------------------
(* The files of the plugin *)

NotTaken == {"pointer", "class", "vector", "struct"}

\* What there is of a declaration that was visited: the tree of a function, the file of an
\* enumeration, and that of a definition that one without a name is taken for.
Dumped(u, i) ==
  LET d == Unit[u][i] IN
  /\ d.k = "function" => GetType(d.n) \in trees
  /\ d.k = "enum" /\ d.n \notin System =>
       /\ d.n[1] \in {"enum", "enum of"} => Named(d.n) \in DOMAIN enumFiles
       /\ \A t \in DOMAIN Under : Taken(u, i, t) /\ GetType(Under[t])[1] \notin NotTaken => t \in DOMAIN enumFiles

\* What a file of an enumeration comes from, and one of a record.
EnumOf(f, file) ==
  \E u \in DOMAIN Unit : \E i \in DOMAIN Unit[u] : LET d == Unit[u][i] IN
    /\ d.k = "enum" /\ d.n \notin System /\ file.values = d.values
    /\ \/ d.n[1] \in {"enum", "enum of"} /\ f = Named(d.n) /\ file.promotion = Promotion[d.n]
       \/ d.n[1] = "anonymous" /\ f = d.n
       \/ f \in DOMAIN Under /\ Taken(u, i, f) /\ file.promotion = GetType(Under[f])
RecordOf(f, r) ==
  \/ r = f /\ f[1] \in {"struct", "union", "class", "unnamed"}
  \/ f \in DOMAIN Under /\ Under[f] = r /\ r[1] = "struct of"

Sources ==
  /\ \A f \in DOMAIN enumFiles : EnumOf(f, enumFiles[f])
  /\ \A f \in DOMAIN recordFiles : RecordOf(f, recordFiles[f])
Seen(u, i) == u \in finished \/ (u = unit /\ i < at)
Files ==
  Sources /\ \A u \in DOMAIN Unit : \A i \in DOMAIN Unit[u] : Seen(u, i) => Dumped(u, i)

\* One more declaration is visited, and nothing is lost.
LEMMA FilesVisit ==
  ASSUME Compiled, InUnit, Files, unit # "none", at <= Len(Unit[unit]), at' = at + 1,
         UNCHANGED <<unit, finished>>, trees \subseteq trees', DOMAIN enumFiles \subseteq DOMAIN enumFiles',
         NEW v \in DOMAIN Unit, NEW j \in DOMAIN Unit[v], v = unit, j = at, Dumped(v, j)', Sources'
  PROVE  Files'
<1>1. at \in Nat
  BY DEF InUnit
<1> SUFFICES ASSUME NEW u \in DOMAIN Unit, NEW i \in DOMAIN Unit[u], Seen(u, i)' PROVE Dumped(u, i)'
  BY DEF Files
<1>2. i \in Nat
  BY UnitSeq
<1>3. CASE Seen(u, i)
  <2>1. Dumped(u, i)
    BY <1>3 DEF Files
  <2> QED BY <2>1 DEF Dumped
<1>4. CASE ~Seen(u, i)
  <2>1. u = unit /\ i < at + 1
    BY <1>4 DEF Seen
  <2>2. i = at
    BY <1>1, <1>2, <1>4, <2>1 DEF Seen
  <2> QED BY <2>1, <2>2
<1> QED
  BY <1>3, <1>4

LEMMA FollowedBy ==
  ASSUME NEW u \in DOMAIN Unit, NEW i \in DOMAIN Unit[u], Unit[u][i].k # "function",
         Unit[u][i].n[1] \in {"enum of", "struct of"}
  PROVE  \E t \in DOMAIN Under : Under[t] = Unit[u][i].n /\ Followed(u, i, [k |-> "typedef", n |-> t])
<1>1. UnitsAssumption
  BY TypesAssumption
<1> QED
  BY <1>1 DEF UnitsAssumption

LEMMA FilesEnum ==
  ASSUME Compiled, InUnit, Files, VisitEnumDecl
  PROVE  Files'
<1> DEFINE file == [promotion |-> PromotionType, values |-> D.values]
<1>1. /\ unit # "none" /\ at <= Len(Unit[unit]) /\ at' = at + 1 /\ UNCHANGED <<unit, finished, trees, recordFiles>>
      /\ D.k = "enum" /\ D.n \notin System /\ enumFiles' = Set(enumFiles, EnumFile, file)
  BY DEF VisitEnumDecl, Visits, Compiling, Visited
<1>2. unit \in DOMAIN Unit /\ at \in 1..Len(Unit[unit]) + 1
  BY <1>1 DEF InUnit
<1>3. at \in DOMAIN Unit[unit] /\ D = Unit[unit][at]
  BY <1>1, <1>2, UnitSeq DEF D
<1>4. D.n \in DOMAIN Promotion /\ D.n[1] \in EnumTags
  BY <1>1, <1>2, <1>3, Declared
<1> PICK u \in DOMAIN Unit : u = unit
  BY <1>2
<1> PICK i \in DOMAIN Unit[u] : i = at
  BY <1>3
<1> HIDE DEF file
<1>5. /\ DOMAIN enumFiles' = DOMAIN enumFiles \cup {EnumFile} /\ D = Unit[u][i]
       /\ \A f \in DOMAIN enumFiles' : enumFiles'[f] = IF f = EnumFile THEN file ELSE enumFiles[f]
  BY <1>1, <1>3 DEF Set
<1>6. ASSUME EnumOf(EnumFile, file), D.n[1] \in {"enum", "enum of"} => Named(D.n) = EnumFile,
              \A t \in DOMAIN Under : Taken(u, i, t) /\ GetType(Under[t])[1] \notin NotTaken => t = EnumFile
       PROVE  Files'
  <2>1. Dumped(u, i)'
    BY <1>1, <1>5, <1>6 DEF Dumped
  <2>2. Sources'
    BY <1>1, <1>5, <1>6 DEF Files, Sources
  <2> QED BY <1>1, <1>5, <2>1, <2>2, FilesVisit
<1>7. ASSUME NEW t \in DOMAIN Under, Followed(unit, at, [k |-> "typedef", n |-> t])
      PROVE  NextDecl.k = "typedef" /\ NextDecl.n = t
  BY <1>7 DEF Followed, NextDecl
<1>8. ASSUME NextDecl.k = "typedef"
      PROVE  NextDecl.n \in DOMAIN Under /\ Followed(unit, at, [k |-> "typedef", n |-> NextDecl.n])
  <2>1. at < Len(Unit[unit]) /\ NextDecl = Unit[unit][at + 1]
    BY <1>8 DEF NextDecl
  <2>2. at + 1 \in DOMAIN Unit[unit]
    BY <1>2, <2>1, UnitSeq
  <2> QED BY <1>2, <1>8, <2>1, <2>2, Declared DEF Followed
<1>9. CASE D.n[1] = "enum"
  <2>1. EnumFile = Named(D.n) /\ PromotionType = Promotion[D.n]
    BY <1>9 DEF EnumFile, PromotionType, Named
  <2>2. EnumOf(EnumFile, file)
    BY <1>1, <1>9, <1>5, <2>1 DEF EnumOf, file
  <2> QED BY <1>9, <1>5, <1>6, <2>1, <2>2 DEF Taken
<1>10. CASE D.n[1] = "enum of"
  <2>1. PICK t \in DOMAIN Under : Under[t] = D.n /\ Followed(unit, at, [k |-> "typedef", n |-> t])
    BY <1>1, <1>2, <1>3, <1>10, FollowedBy
  <2>2. GetType(D.n) = Named(D.n)
    BY <1>4, Tags, GetTypeOut
  <2>3. EnumFile = Named(D.n) /\ PromotionType = Promotion[D.n]
    BY <1>7, <1>10, <2>1, <2>2 DEF EnumFile, PromotionType
  <2>4. EnumOf(EnumFile, file)
    BY <1>1, <1>10, <1>5, <2>3 DEF EnumOf, file
  <2> QED BY <1>10, <1>5, <1>6, <2>3, <2>4 DEF Taken
<1>11. CASE D.n[1] = "anonymous"
  <2>1. EnumFile = IF TakesNext THEN NextDecl.n ELSE D.n
    BY <1>11 DEF EnumFile
  <2>2. EnumOf(EnumFile, file)
    <3>1. CASE TakesNext
      <4>1. /\ NextDecl.k = "typedef" /\ EnumFile = NextDecl.n /\ file.promotion = GetType(Under[NextDecl.n])
            /\ file.values = D.values
        BY <1>11, <2>1, <3>1 DEF TakesNext, PromotionType, file
      <4>2. NextDecl.n \in DOMAIN Under /\ Taken(unit, at, NextDecl.n)
        BY <1>3, <1>8, <1>11, <4>1 DEF Taken
      <4> QED BY <1>1, <1>5, <4>1, <4>2 DEF EnumOf
    <3>2. CASE ~TakesNext
      BY <1>1, <1>11, <1>5, <2>1, <3>2 DEF EnumOf, file
    <3> QED BY <3>1, <3>2
  <2>3. ASSUME NEW t \in DOMAIN Under, Taken(u, i, t), GetType(Under[t])[1] \notin NotTaken PROVE t = EnumFile
    BY <1>7, <2>1, <2>3 DEF Taken, TakesNext, NotTaken
  <2> QED BY <1>11, <1>6, <2>2, <2>3
<1> QED
  BY <1>4, <1>9, <1>10, <1>11 DEF EnumTags

LEMMA FilesOther ==
  ASSUME Compiled, InUnit, Files, VisitTypedefDecl \/ VisitCXXRecordDecl \/ VisitFunction \/ VisitOther
  PROVE  Files'
<1>1. /\ unit # "none" /\ at <= Len(Unit[unit]) /\ at' = at + 1 /\ UNCHANGED <<unit, finished, enumFiles>>
      /\ trees \subseteq trees'
  BY DEF VisitTypedefDecl, VisitCXXRecordDecl, VisitFunction, VisitOther, Visits, Compiling, Visited
<1>2. unit \in DOMAIN Unit /\ at \in 1..Len(Unit[unit]) + 1
  BY <1>1 DEF InUnit
<1>3. at \in DOMAIN Unit[unit] /\ D = Unit[unit][at]
  BY <1>1, <1>2, UnitSeq DEF D
<1> PICK u \in DOMAIN Unit : u = unit
  BY <1>2
<1> PICK i \in DOMAIN Unit[u] : i = at
  BY <1>3
<1>4. D = Unit[u][i]
  BY <1>3
<1>5. Dumped(u, i)'
  <2>1. D.k = "function" => GetType(D.n) \in trees'
    BY DEF VisitTypedefDecl, VisitCXXRecordDecl, VisitFunction, VisitOther, Visits
  <2>2. D.k # "enum" \/ D.n \in System
    BY DEF VisitTypedefDecl, VisitCXXRecordDecl, VisitFunction, VisitOther, Visits
  <2> QED BY <1>4, <2>1, <2>2 DEF Dumped
<1>6. Sources'
  <2>1. CASE VisitTypedefDecl \/ VisitFunction \/ VisitOther
    <3>1. recordFiles' = recordFiles
      BY <2>1 DEF VisitTypedefDecl, VisitFunction, VisitOther
    <3> QED BY <1>1, <3>1 DEF Files, Sources
  <2>2. CASE VisitCXXRecordDecl
    <3>1. /\ recordFiles' = Set(recordFiles, RecordFile, D.n) /\ D.k = "record"
          /\ D.n[1] = "struct of" => NextDecl.k = "typedef"
      BY <2>2 DEF VisitCXXRecordDecl, Visits
    <3>2. D.n[1] \in RecordTags
      BY <1>4, <3>1, Declared
    <3>3. RecordOf(RecordFile, D.n)
      <4>1. CASE D.n[1] = "struct of"
        <5>1. PICK t \in DOMAIN Under : Under[t] = D.n /\ Followed(u, i, [k |-> "typedef", n |-> t])
          BY <1>4, <3>1, <4>1, FollowedBy
        <5>2. NextDecl.n = t
          BY <5>1 DEF Followed, NextDecl
        <5> QED BY <4>1, <5>1, <5>2 DEF RecordFile, RecordOf
      <4>2. CASE D.n[1] # "struct of"
        BY <3>2, <4>2 DEF RecordFile, RecordOf, RecordTags
      <4> QED BY <4>1, <4>2
    <3> QED BY <1>1, <3>1, <3>3 DEF Files, Sources, Set
  <2> QED BY <2>1, <2>2
<1> QED
  BY <1>1, <1>5, <1>6, FilesVisit

LEMMA FilesNext ==
  ASSUME Compiled, InUnit, Files, [Next]_vars
  PROVE  Files'
<1>1. CASE StartUnit
  <2>1. UNCHANGED <<finished, trees, enumFiles, recordFiles>> /\ unit = "none" /\ at' = 1
    BY <1>1 DEF StartUnit, rough
  <2>2. ASSUME NEW u \in DOMAIN Unit, NEW i \in DOMAIN Unit[u], Seen(u, i)' PROVE Dumped(u, i)'
    <3>1. Seen(u, i)
      BY <2>1, <2>2, UnitSeq DEF Seen
    <3> QED BY <2>1, <3>1 DEF Files, Dumped
  <2> QED BY <2>1, <2>2 DEF Files, Sources
<1>2. CASE VisitEnumDecl
  BY <1>2, FilesEnum
<1>3. CASE VisitTypedefDecl \/ VisitCXXRecordDecl \/ VisitFunction \/ VisitOther
  BY <1>3, FilesOther
<1>4. CASE EndUnit
  <2>1. /\ UNCHANGED <<trees, enumFiles, recordFiles>> /\ unit # "none" /\ unit' = "none"
        /\ at > Len(Unit[unit]) /\ finished' = finished \cup {unit}
    BY <1>4 DEF EndUnit, Compiling
  <2>2. ASSUME NEW u \in DOMAIN Unit, NEW i \in DOMAIN Unit[u], Seen(u, i)' PROVE Dumped(u, i)'
    <3>1. u # "none" /\ i \in 1..Len(Unit[u]) /\ Len(Unit[u]) \in Nat
      BY UnitSeq
    <3>2. u \in finished \/ u = unit
      BY <2>1, <2>2, <3>1 DEF Seen
    <3>3. u = unit => i < at
      BY <2>1, <3>1 DEF InUnit
    <3>4. Seen(u, i)
      BY <3>2, <3>3 DEF Seen
    <3> QED BY <2>1, <3>4 DEF Files, Dumped
  <2> QED BY <2>1, <2>2 DEF Files, Sources
<1>5. CASE PluginExits
  <2>1. UNCHANGED <<finished, trees, enumFiles, recordFiles>> /\ unit' = "none"
    BY <1>5 DEF PluginExits
  <2>2. ASSUME NEW u \in DOMAIN Unit, NEW i \in DOMAIN Unit[u], Seen(u, i)' PROVE Dumped(u, i)'
    <3>1. Seen(u, i)
      BY <2>1, <2>2, UnitSeq DEF Seen
    <3> QED BY <2>1, <3>1 DEF Files, Dumped
  <2> QED BY <2>1, <2>2 DEF Files, Sources
<1>6. CASE PostProcess \/ Load \/ UNCHANGED vars
  <2>1. UNCHANGED <<compiling, rough>>
    BY <1>6 DEF PostProcess, Load, SimplifyTypeMap, ParseFunctions, ParseRawStructure, EndRaw,
      SaveTypeMap, CopyEnumerations, ExtractMore, LoadStructures, LoadUnions, LoadEnumeration, InitVarTypeMap,
      LoadLine, Ready, vars
  <2> QED BY <2>1 DEF compiling, rough, Files, Sources, Seen, Dumped
<1> QED
  BY <1>1, <1>2, <1>3, <1>4, <1>5, <1>6 DEF Next, Plugin

-----------------------------------------------------------------------------
(* The scripts *)

NothingYet ==
  /\ model = [lines |-> model.lines, enumeration |-> model.enumeration, raw |-> model.raw, union |-> model.union]
  /\ stage \in {"extract", "parse"} => visited = {} /\ model = Nothing

MapMade == stage # "extract" => Entries(simplified) /\ Complete(simplified, Len(typemap))

\* What the scripts have made of a record: its fields are used, and it is one of the model's.
RecordAt(x) == recordFiles[FileOfRecord(x)]
Parsed(x) ==
  /\ FileOfRecord(x) \in DOMAIN recordFiles
  /\ \A f \in Fields[RecordAt(x)] :
       TrueComplexType(GetType(f)) \in usedTypes /\ (IsRecord(GetType(f)) => GetType(f) \in rawList)
  /\ TrueComplexType(x) \in IF RecordAt(x)[1] = "union" THEN model.union ELSE model.raw

RawMade ==
  stage \notin {"extract", "parse"} =>
    /\ \A x \in trees : /\ TrueComplexType(x) \in usedTypes
                        /\ IsRecord(x) \/ IsRecord(Follow(simplified, x)) => x \in rawList
    /\ \A x \in visited : Parsed(x)
    /\ \A y \in model.raw : \E x \in visited : y = TrueComplexType(x) /\ RecordAt(x)[1] # "union"
    /\ \A y \in model.union : \E x \in visited : y = TrueComplexType(x) /\ RecordAt(x)[1] = "union"

Loading == {"made", "unions", "enumerations", "lines", "ready"}
ModelMade ==
  /\ stage \in Loading \cup {"copy"} => model.lines =
       {<<x, simplified[x]>> : x \in {y \in DOMAIN simplified \cap usedTypes : simplified[y] \in BasicTypes}}
  /\ stage \in Loading =>
       model.enumeration = [x \in DOMAIN enumFiles \cap (usedTypes \cup Special) |-> enumFiles[x]]

Scripts == NothingYet /\ MapMade /\ RawMade /\ ModelMade

\* Neither the plugin nor the fuzzer touches what the scripts have made.
LEMMA ScriptsIdle ==
  ASSUME Scripts, Compiled, UNCHANGED scripts,
         \/ stage = "extract" /\ stage' = "extract"
         \/ UNCHANGED rough /\ (stage' = stage \/ (stage \in Loading /\ stage' \in Loading))
  PROVE  Scripts'
<1>1. UNCHANGED <<simplified, usedTypes, rawList, visited, model>>
  BY DEF scripts
<1>2. CASE stage = "extract" /\ stage' = "extract"
  BY <1>1, <1>2 DEF Scripts, NothingYet, MapMade, RawMade, ModelMade, Loading
<1>3. CASE UNCHANGED rough /\ (stage' = stage \/ (stage \in Loading /\ stage' \in Loading))
  <2>1. UNCHANGED <<typemap, enumFiles, recordFiles, trees>>
    BY <1>3 DEF rough
  <2>2. /\ stage \in {"extract", "parse"} <=> stage' \in {"extract", "parse"}
        /\ stage = "extract" <=> stage' = "extract"
        /\ stage \in Loading <=> stage' \in Loading
        /\ stage \in Loading \cup {"copy"} <=> stage' \in Loading \cup {"copy"}
    BY <1>3 DEF Loading
  <2>3. (NothingYet /\ ModelMade)'
    BY <1>1, <2>1, <2>2 DEF Scripts, NothingYet, ModelMade
  <2>4. MapMade'
    BY <1>1, <2>1, <2>2 DEF Scripts, MapMade, Complete, Entries, Entry
  <2>5. RawMade'
    BY <1>1, <2>1, <2>2 DEF Scripts, RawMade, Parsed, RecordAt, FileOfRecord, TrueComplexType
  <2> QED BY <2>3, <2>4, <2>5 DEF Scripts
<1> QED
  BY <1>2, <1>3

LEMMA ScriptsSimplify ==
  ASSUME Scripts, Compiled, SimplifyTypeMap
  PROVE  Scripts'
<1>1. /\ stage = "extract" /\ stage' = "parse" /\ simplified' = Simplified[Len(typemap)]
      /\ UNCHANGED <<typemap, visited, model>>
  BY DEF SimplifyTypeMap, rough
<1>2. Entries(simplified') /\ Complete(simplified', Len(typemap))
  BY <1>1, SimplifiedIs DEF Compiled
<1>3. MapMade'
  BY <1>1, <1>2 DEF MapMade, Complete
<1> QED
  BY <1>1, <1>3 DEF Scripts, NothingYet, RawMade, ModelMade, Loading

LEMMA ScriptsParse ==
  ASSUME Scripts, ParseFunctions
  PROVE  Scripts'
<1>1. /\ stage = "parse" /\ stage' = "raw" /\ usedTypes' = {TrueComplexType(x) : x \in trees}
      /\ rawList' = {x \in trees : IsRecord(x) \/ IsRecord(Follow(simplified, x))}
      /\ UNCHANGED <<typemap, trees, recordFiles, simplified, visited, model>>
  BY DEF ParseFunctions, rough
<1>2. visited = {} /\ model = Nothing /\ model.raw = {} /\ model.union = {}
  BY <1>1 DEF Scripts, NothingYet, Nothing
<1>3. MapMade'
  BY <1>1 DEF Scripts, MapMade, Complete
<1>4. RawMade'
  BY <1>1, <1>2 DEF RawMade, TrueComplexType
<1> QED
  BY <1>1, <1>3, <1>4 DEF Scripts, NothingYet, ModelMade, Loading

LEMMA ScriptsRaw ==
  ASSUME Scripts, ParseRawStructure
  PROVE  Scripts'
<1>1. PICK x \in rawList \ visited :
        /\ visited' = visited \cup {x} /\ FileOfRecord(x) \in DOMAIN recordFiles
        /\ LET r == recordFiles[FileOfRecord(x)]
               fields == {GetType(t) : t \in Fields[r]}
           IN /\ usedTypes' = usedTypes \cup {TrueComplexType(f) : f \in fields}
              /\ rawList' = rawList \cup {f \in fields : IsRecord(f)}
              /\ model' = IF r[1] = "union" THEN [model EXCEPT !.union = @ \cup {TrueComplexType(x)}]
                          ELSE [model EXCEPT !.raw = @ \cup {TrueComplexType(x)}]
  BY DEF ParseRawStructure
<1>2. stage = "raw" /\ stage' = "raw" /\ UNCHANGED <<typemap, trees, enumFiles, recordFiles, simplified>>
  BY DEF ParseRawStructure, rough
<1>3. /\ model = [lines |-> model.lines, enumeration |-> model.enumeration, raw |-> model.raw, union |-> model.union]
      /\ Entries(simplified) /\ Complete(simplified, Len(typemap))
      /\ \A y \in trees : /\ TrueComplexType(y) \in usedTypes
                          /\ IsRecord(y) \/ IsRecord(Follow(simplified, y)) => y \in rawList
      /\ \A y \in visited : Parsed(y)
      /\ \A y \in model.raw : \E z \in visited : y = TrueComplexType(z) /\ RecordAt(z)[1] # "union"
      /\ \A y \in model.union : \E z \in visited : y = TrueComplexType(z) /\ RecordAt(z)[1] = "union"
  BY <1>2 DEF Scripts, NothingYet, MapMade, RawMade
<1>4. /\ model' = [lines |-> model.lines, enumeration |-> model.enumeration, raw |-> model'.raw, union |-> model'.union]
      /\ model'.raw = IF RecordAt(x)[1] = "union" THEN model.raw ELSE model.raw \cup {TrueComplexType(x)}
      /\ model'.union = IF RecordAt(x)[1] = "union" THEN model.union \cup {TrueComplexType(x)} ELSE model.union
  BY <1>1, <1>3 DEF RecordAt
<1>5. usedTypes \subseteq usedTypes' /\ rawList \subseteq rawList'
  BY <1>1
<1>6. /\ \A y : TrueComplexType(y)' = TrueComplexType(y) /\ FileOfRecord(y)' = FileOfRecord(y)
      /\ \A y : RecordAt(y)' = RecordAt(y)
  BY <1>2 DEF TrueComplexType, FileOfRecord, RecordAt
<1>7. ASSUME NEW y \in visited' PROVE Parsed(y)'
  <2>1. CASE y \in visited
    BY <1>2, <1>3, <1>4, <1>5, <1>6, <2>1 DEF Parsed
  <2>2. CASE y = x
    <3>1. \A f \in Fields[RecordAt(x)] :
            TrueComplexType(GetType(f)) \in usedTypes' /\ (IsRecord(GetType(f)) => GetType(f) \in rawList')
      BY <1>1 DEF RecordAt
    <3>2. TrueComplexType(x) \in IF RecordAt(x)[1] = "union" THEN model'.union ELSE model'.raw
      BY <1>4
    <3>3. FileOfRecord(x) \in DOMAIN recordFiles
      BY <1>1
    <3> QED BY <1>2, <1>6, <2>2, <3>1, <3>2, <3>3 DEF Parsed
  <2> QED BY <1>1, <2>1, <2>2
<1>8. /\ \A y \in model'.raw : \E z \in visited' : y = TrueComplexType(z) /\ RecordAt(z)[1] # "union"
      /\ \A y \in model'.union : \E z \in visited' : y = TrueComplexType(z) /\ RecordAt(z)[1] = "union"
  BY <1>1, <1>3, <1>4
<1>9. RawMade'
  BY <1>2, <1>3, <1>5, <1>6, <1>7, <1>8 DEF RawMade
<1>10. MapMade'
  BY <1>2, <1>3 DEF MapMade, Complete
<1>11. NothingYet' /\ ModelMade'
  BY <1>2, <1>4 DEF NothingYet, ModelMade, Loading
<1> QED
  BY <1>9, <1>10, <1>11 DEF Scripts

LEMMA ScriptsSave ==
  ASSUME Scripts, EndRaw \/ SaveTypeMap \/ CopyEnumerations
  PROVE  Scripts'
<1>1. /\ stage \in {"raw", "save", "copy"} /\ stage' \in {"save", "copy", "made"}
      /\ UNCHANGED <<typemap, trees, enumFiles, recordFiles, simplified, usedTypes, rawList, visited>>
  BY DEF EndRaw, SaveTypeMap, CopyEnumerations, rough, scripts
<1>2. model = [lines |-> model.lines, enumeration |-> model.enumeration, raw |-> model.raw, union |-> model.union]
  BY DEF Scripts, NothingYet
<1>3. /\ model'.raw = model.raw /\ model'.union = model.union
      /\ model' = [lines |-> model'.lines, enumeration |-> model'.enumeration, raw |-> model'.raw, union |-> model'.union]
  BY <1>2 DEF EndRaw, SaveTypeMap, CopyEnumerations, scripts
<1>4. NothingYet'
  BY <1>1, <1>3 DEF NothingYet
<1>5. MapMade'
  BY <1>1 DEF Scripts, MapMade, Complete
<1>6. RawMade'
  BY <1>1, <1>3 DEF Scripts, RawMade, Parsed, RecordAt, FileOfRecord, TrueComplexType
<1>7. ModelMade'
  <2>1. CASE EndRaw
    BY <2>1 DEF EndRaw, ModelMade, Loading
  <2>2. CASE SaveTypeMap
    BY <1>1, <1>2, <2>2 DEF SaveTypeMap, ModelMade, Loading
  <2>3. CASE CopyEnumerations
    <3>1. /\ model'.enumeration = [x \in DOMAIN enumFiles \cap (usedTypes \cup Special) |-> enumFiles[x]]
          /\ model'.lines = model.lines /\ stage = "copy"
      BY <1>2, <2>3 DEF CopyEnumerations, Restrict
    <3> QED BY <1>1, <3>1 DEF Scripts, ModelMade
  <2> QED BY <2>1, <2>2, <2>3
<1> QED
  BY <1>4, <1>5, <1>6, <1>7 DEF Scripts

LEMMA ScriptsNext ==
  ASSUME Scripts, Compiled, InUnit, [Next]_vars
  PROVE  Scripts'
<1>1. CASE Plugin
  <2>1. stage = "extract" /\ stage' = stage /\ UNCHANGED scripts
    BY <1>1 DEF Plugin, StartUnit, VisitTypedefDecl, VisitEnumDecl, VisitCXXRecordDecl, VisitFunction, VisitOther,
      EndUnit, PluginExits, Visits, Compiling, Visited
  <2> QED BY <2>1, ScriptsIdle
<1>2. CASE Load
  <2>1. UNCHANGED <<rough, scripts>> /\ (stage' = stage \/ (stage \in Loading /\ stage' \in Loading))
    BY <1>2 DEF Load, LoadStructures, LoadUnions, LoadEnumeration, InitVarTypeMap, LoadLine, Ready, Loading
  <2> QED BY <2>1, ScriptsIdle
<1>3. CASE UNCHANGED vars
  BY <1>3, ScriptsIdle DEF vars
<1>4. CASE ExtractMore
  <2>1. stage' = "extract" /\ visited' = {} /\ model' = Nothing
    BY <1>4 DEF ExtractMore, NothingMade
  <2> QED BY <2>1 DEF Scripts, NothingYet, MapMade, RawMade, ModelMade, Loading, Nothing
<1>5. CASE SimplifyTypeMap
  BY <1>5, ScriptsSimplify
<1>6. CASE ParseFunctions
  BY <1>6, ScriptsParse
<1>7. CASE ParseRawStructure
  BY <1>7, ScriptsRaw
<1>8. CASE EndRaw \/ SaveTypeMap \/ CopyEnumerations
  BY <1>8, ScriptsSave
<1> QED
  BY <1>1, <1>2, <1>3, <1>4, <1>5, <1>6, <1>7, <1>8 DEF Next, PostProcess

-----------------------------------------------------------------------------
(* The fuzzer *)

\* What initEnumInfo has of the files that are not left.
EnumsRead(left) ==
  /\ DOMAIN enumInfo =
       {x \in DOMAIN model.enumeration \ left : model.enumeration[x].promotion \in DOMAIN PromotionKind}
  /\ \A x \in DOMAIN enumInfo : LET f == model.enumeration[x] IN
       f.values # <<>> /\ f.promotion # <<"", "dependent">> => enumInfo[x] = Range(f.values)

KindRead(x) ==
  IF x \in DOMAIN enumInfo THEN PromotionKind[model.enumeration[x].promotion]
  ELSE IF x \in model.union THEN "UNION" ELSE "RAW"

\* What is in varTypeMap before the lines, and of what kind.
Base == DOMAIN BuiltIn \cup DOMAIN enumInfo \cup model.union \cup model.raw
BaseKind(x) == IF x \in DOMAIN BuiltIn THEN BuiltIn[x] ELSE KindRead(x)

Loader ==
  /\ stage = "unions" => varTypeMap = [x \in model.raw |-> "RAW"] /\ enumInfo = <<>>
  /\ stage = "enumerations" =>
       /\ toLoad \subseteq DOMAIN model.enumeration /\ EnumsRead(toLoad)
       /\ varTypeMap = [x \in DOMAIN enumInfo \cup model.union \cup model.raw |-> KindRead(x)]
  /\ stage \in {"lines", "ready"} =>
       /\ EnumsRead({}) /\ toLoad \subseteq model.lines
       /\ \A x \in Base : x \in DOMAIN varTypeMap /\ varTypeMap[x] = BaseKind(x)
       /\ DOMAIN varTypeMap \subseteq Base \cup {l[1] : l \in model.lines \ toLoad}
       /\ \A l \in model.lines \ toLoad : l[1] \notin Base /\ l[2] \in DOMAIN BuiltIn =>
            l[1] \in DOMAIN varTypeMap /\ varTypeMap[l[1]] = BuiltIn[l[2]]
  /\ stage = "ready" => toLoad = {}

LEMMA ValuesTyped ==
  ASSUME NEW f, NEW file, EnumOf(f, file)
  PROVE  file.values \in Seq(Nat)
<1>1. PICK u \in DOMAIN Unit : \E i \in DOMAIN Unit[u] : Unit[u][i].k = "enum" /\ file.values = Unit[u][i].values
  BY DEF EnumOf
<1>2. PICK i \in DOMAIN Unit[u] : Unit[u][i].k = "enum" /\ file.values = Unit[u][i].values
  BY <1>1
<1>3. Unit[u][i] \in Declarations
  BY UnitSeq
<1> QED
  BY <1>2, <1>3 DEF Declarations

\* The last value is one of the file's.
LEMMA LastIn ==
  ASSUME NEW v \in Seq(Nat), v # <<>>
  PROVE  LastRead(v) \in Range(v)
<1>1. Len(v) \in DOMAIN v
  OBVIOUS
<1>2. LastRead(v) = v[Len(v)]
  BY DEF LastRead, Last
<1> QED
  BY <1>1, <1>2 DEF Range

LEMMA ValuesReadAre ==
  ASSUME NEW file, file.values \in Seq(Nat), file.values # <<>>, file.promotion # <<"", "dependent">>
  PROVE  ValuesRead(file) = Range(file.values)
<1>1. LastRead(file.values) \in Range(file.values)
  BY LastIn
<1> QED
  BY <1>1 DEF ValuesRead

LEMMA LoaderStructures ==
  ASSUME LoadStructures \/ LoadUnions, Loader
  PROVE  Loader'
<1>1. CASE LoadStructures
  <2>1. stage' = "unions" /\ varTypeMap' = [x \in model.raw |-> "RAW"] /\ enumInfo' = <<>> /\ model' = model
    BY <1>1 DEF LoadStructures, scripts
  <2> QED BY <2>1 DEF Loader
<1>2. CASE LoadUnions
  <2>1. /\ stage = "unions" /\ stage' = "enumerations" /\ toLoad' = DOMAIN model.enumeration /\ UNCHANGED <<model, enumInfo>>
        /\ varTypeMap' = Over([x \in model.union |-> "UNION"], varTypeMap)
    BY <1>2 DEF LoadUnions, scripts
  <2>2. varTypeMap = [x \in model.raw |-> "RAW"] /\ DOMAIN enumInfo = {}
    BY <2>1 DEF Loader
  <2>3. EnumsRead(toLoad)'
    BY <2>1, <2>2 DEF EnumsRead
  <2>4. varTypeMap' = [x \in DOMAIN enumInfo \cup model.union \cup model.raw |-> KindRead(x)]
    BY <2>1, <2>2 DEF Over, KindRead
  <2>5. \A x : KindRead(x)' = KindRead(x)
    BY <2>1 DEF KindRead
  <2> QED BY <2>1, <2>3, <2>4, <2>5 DEF Loader
<1> QED
  BY <1>1, <1>2

LEMMA LoaderEnumeration ==
  ASSUME LoadEnumeration, Loader, Scripts, Files
  PROVE  Loader'
<1>1. /\ stage = "enumerations" /\ stage' = stage /\ model' = model
  BY DEF LoadEnumeration, scripts
<1>2. PICK x \in toLoad :
        LET f == model.enumeration[x] IN
        /\ toLoad' = toLoad \ {x}
        /\ IF f.promotion \in DOMAIN PromotionKind
           THEN /\ varTypeMap' = Set(varTypeMap, x, PromotionKind[f.promotion])
                /\ enumInfo' = Set(enumInfo, x, ValuesRead(f))
           ELSE UNCHANGED <<varTypeMap, enumInfo>>
  BY DEF LoadEnumeration
<1>3. /\ toLoad \subseteq DOMAIN model.enumeration /\ EnumsRead(toLoad)
      /\ varTypeMap = [y \in DOMAIN enumInfo \cup model.union \cup model.raw |-> KindRead(y)]
  BY <1>1 DEF Loader
<1> DEFINE f == model.enumeration[x]
<1>4. f.values # <<>> /\ f.promotion # <<"", "dependent">> => ValuesRead(f) = Range(f.values)
  <2>1. f = enumFiles[x] /\ x \in DOMAIN enumFiles
    BY <1>1, <1>3 DEF Scripts, ModelMade, Loading
  <2>2. f.values \in Seq(Nat)
    BY <2>1, ValuesTyped DEF Files, Sources
  <2> QED BY <2>2, ValuesReadAre
<1>5. CASE f.promotion \in DOMAIN PromotionKind
  <2>1. /\ DOMAIN enumInfo' = DOMAIN enumInfo \cup {x} /\ enumInfo'[x] = ValuesRead(f)
        /\ \A y \in DOMAIN enumInfo \ {x} : enumInfo'[y] = enumInfo[y]
    BY <1>2, <1>5 DEF Set
  <2>2. EnumsRead(toLoad)'
    BY <1>1, <1>2, <1>3, <1>4, <1>5, <2>1 DEF EnumsRead
  <2>3. \A y : KindRead(y)' = IF y = x THEN PromotionKind[f.promotion] ELSE KindRead(y)
    BY <1>1, <2>1 DEF KindRead
  <2>4. varTypeMap' = [y \in DOMAIN enumInfo' \cup model.union \cup model.raw |->
                        IF y = x THEN PromotionKind[f.promotion] ELSE KindRead(y)]
    BY <1>2, <1>3, <1>5, <2>1 DEF Set
  <2>5. varTypeMap' = [y \in DOMAIN enumInfo \cup model.union \cup model.raw |-> KindRead(y)]'
    BY <1>1, <2>3, <2>4
  <2> QED BY <1>1, <1>2, <1>3, <2>2, <2>5 DEF Loader
<1>6. CASE f.promotion \notin DOMAIN PromotionKind
  <2>1. UNCHANGED <<varTypeMap, enumInfo>>
    BY <1>2, <1>6
  <2>2. EnumsRead(toLoad)'
    BY <1>1, <1>2, <1>3, <1>6, <2>1 DEF EnumsRead
  <2>3. \A y : KindRead(y)' = KindRead(y)
    BY <1>1, <2>1 DEF KindRead
  <2> QED BY <1>1, <1>2, <1>3, <2>1, <2>2, <2>3 DEF Loader
<1> QED
  BY <1>5, <1>6

LEMMA LoaderInit ==
  ASSUME InitVarTypeMap, Loader
  PROVE  Loader'
<1>1. /\ stage = "enumerations" /\ toLoad = {} /\ stage' = "lines" /\ UNCHANGED <<model, enumInfo>>
      /\ varTypeMap' = Over(BuiltIn, varTypeMap) /\ toLoad' = model.lines
  BY DEF InitVarTypeMap, scripts
<1>2. EnumsRead({}) /\ varTypeMap = [x \in DOMAIN enumInfo \cup model.union \cup model.raw |-> KindRead(x)]
  BY <1>1 DEF Loader
<1>3. Base' = Base /\ EnumsRead({})' /\ \A x : BaseKind(x)' = BaseKind(x)
  BY <1>1, <1>2 DEF Base, EnumsRead, BaseKind, KindRead
<1>4. DOMAIN varTypeMap' = Base /\ \A x \in Base : varTypeMap'[x] = BaseKind(x)
  BY <1>1, <1>2 DEF Over, Base, BaseKind
<1> QED
  BY <1>1, <1>3, <1>4 DEF Loader

LEMMA LoaderLine ==
  ASSUME LoadLine, Loader, Scripts
  PROVE  Loader'
<1>1. stage = "lines" /\ stage' = stage /\ UNCHANGED <<model, enumInfo>>
  BY DEF LoadLine, scripts
<1>2. PICK l \in toLoad :
        /\ toLoad' = toLoad \ {l}
        /\ varTypeMap' = IF l[1] \notin DOMAIN varTypeMap /\ l[2] \in DOMAIN varTypeMap
                         THEN Set(varTypeMap, l[1], varTypeMap[l[2]]) ELSE varTypeMap
  BY DEF LoadLine
<1>3. /\ EnumsRead({}) /\ toLoad \subseteq model.lines
      /\ \A x \in Base : x \in DOMAIN varTypeMap /\ varTypeMap[x] = BaseKind(x)
      /\ DOMAIN varTypeMap \subseteq Base \cup {k[1] : k \in model.lines \ toLoad}
      /\ \A k \in model.lines \ toLoad : k[1] \notin Base /\ k[2] \in DOMAIN BuiltIn =>
           k[1] \in DOMAIN varTypeMap /\ varTypeMap[k[1]] = BuiltIn[k[2]]
  BY <1>1 DEF Loader
<1>4. Base' = Base /\ EnumsRead({})' /\ \A x : BaseKind(x)' = BaseKind(x)
  BY <1>1, <1>3 DEF Base, EnumsRead, BaseKind, KindRead
<1>5. \A k \in model.lines : k[1] = l[1] => k = l
  BY <1>1, <1>3 DEF Scripts, ModelMade, Loading
<1>6. /\ DOMAIN varTypeMap \subseteq DOMAIN varTypeMap' /\ \A x \in DOMAIN varTypeMap : varTypeMap'[x] = varTypeMap[x]
      /\ DOMAIN varTypeMap' \subseteq DOMAIN varTypeMap \cup {l[1]}
  BY <1>2 DEF Set
<1>7. \A k : k \in model.lines \ toLoad' <=> k \in model.lines \ toLoad \/ k = l
  BY <1>2, <1>3
<1>8. DOMAIN varTypeMap' \subseteq Base \cup {k[1] : k \in model.lines \ toLoad'}
  BY <1>3, <1>6, <1>7
<1>9. ASSUME NEW k \in model.lines \ toLoad', k[1] \notin Base, k[2] \in DOMAIN BuiltIn
      PROVE  k[1] \in DOMAIN varTypeMap' /\ varTypeMap'[k[1]] = BuiltIn[k[2]]
  <2>1. CASE k \in model.lines \ toLoad
    BY <1>3, <1>6, <1>9, <2>1
  <2>2. CASE k = l
    <3>1. k[1] \notin DOMAIN varTypeMap
      BY <1>2, <1>3, <1>5, <1>9, <2>2
    <3>2. k[2] \in DOMAIN varTypeMap /\ varTypeMap[k[2]] = BuiltIn[k[2]]
      BY <1>3, <1>9 DEF Base, BaseKind
    <3> QED BY <1>2, <2>2, <3>1, <3>2 DEF Set
  <2> QED BY <1>7, <2>1, <2>2
<1>10. \A x \in Base : x \in DOMAIN varTypeMap' /\ varTypeMap'[x] = BaseKind(x)
  BY <1>3, <1>6
<1>11. toLoad' \subseteq model.lines
  BY <1>2, <1>3
<1> QED
  BY <1>1, <1>4, <1>8, <1>9, <1>10, <1>11 DEF Loader

LEMMA LoaderNext ==
  ASSUME Loader, Scripts, Files, Compiled, InUnit, [Next]_vars
  PROVE  Loader'
<1>1. CASE Plugin \/ PostProcess
  <2>1. stage' \in {"extract", "parse", "raw", "save", "copy", "made"}
    BY <1>1 DEF Plugin, StartUnit, VisitTypedefDecl, VisitEnumDecl, VisitCXXRecordDecl, VisitFunction, VisitOther,
      EndUnit, PluginExits, Visits, Compiling, Visited, PostProcess, SimplifyTypeMap, ParseFunctions,
      ParseRawStructure, EndRaw, SaveTypeMap, CopyEnumerations, ExtractMore
  <2> QED BY <2>1 DEF Loader
<1>2. CASE UNCHANGED vars \/ Ready
  <2>1. /\ UNCHANGED <<model, enumInfo, varTypeMap, toLoad>>
        /\ stage' = stage \/ (stage = "lines" /\ toLoad = {} /\ stage' = "ready")
    BY <1>2 DEF vars, Ready, scripts, fuzzer
  <2> QED BY <2>1 DEF Loader, EnumsRead, Base, BaseKind, KindRead
<1>3. CASE LoadStructures \/ LoadUnions
  BY <1>3, LoaderStructures
<1>4. CASE LoadEnumeration
  BY <1>4, LoaderEnumeration
<1>5. CASE InitVarTypeMap
  BY <1>5, LoaderInit
<1>6. CASE LoadLine
  BY <1>6, LoaderLine
<1> QED
  BY <1>1, <1>2, <1>3, <1>4, <1>5, <1>6 DEF Next, Load

-----------------------------------------------------------------------------
IInv == Compiled /\ InUnit /\ Files /\ Scripts /\ Loader

LEMMA IInvInit ==
  ASSUME Init
  PROVE  IInv
<1>1. /\ stage = "extract" /\ unit = "none" /\ typemap = <<>> /\ enumFiles = <<>> /\ recordFiles = <<>>
      /\ finished = {} /\ visited = {} /\ model = Nothing
  BY DEF Init
<1>2. DOMAIN typemap = {} /\ DOMAIN enumFiles = {} /\ DOMAIN recordFiles = {}
  BY <1>1
<1>3. Compiled /\ InUnit
  BY <1>1, <1>2 DEF Compiled, InUnit, Stages, Ordered
<1>4. Files
  BY <1>1, <1>2, UnitSeq DEF Files, Sources, Seen
<1>5. Scripts /\ Loader
  BY <1>1 DEF Scripts, NothingYet, MapMade, RawMade, ModelMade, Loading, Loader, Nothing
<1> QED
  BY <1>3, <1>4, <1>5 DEF IInv

LEMMA IInvNext ==
  ASSUME IInv, [Next]_vars
  PROVE  IInv'
BY CompiledNext, FilesNext, ScriptsNext, LoaderNext DEF IInv

\* The files, the models and the tables are what IInv says at all times.
THEOREM IInvAlways == Spec => []IInv
<1>1. Init => IInv
  BY IInvInit
<1>2. IInv /\ [Next]_vars => IInv'
  BY IInvNext
<1> QED
  BY <1>1, <1>2, PTL DEF Spec
-----------------------------------------------------------------------------
(* What the fuzzer has for a type *)

\* The name that the models have for a type.
NameOf(t) ==
  IF t \in DOMAIN Under \ FixedWidth /\ Canonical(t) \in BasicTypes THEN t ELSE Named(Canonical(t))

\* What the tables of kinds have in common.
LEMMA Kinds ==
  /\ DOMAIN BuiltIn \subseteq BasicTypes /\ <<"", "size_t">> \notin DOMAIN BuiltIn
  /\ DOMAIN PromotionKind \subseteq BasicTypes \cup {<<"", "dependent">>}
  /\ \A x \in DOMAIN BuiltIn \cap DOMAIN PromotionKind : BuiltIn[x] = PromotionKind[x]
<1> DEFINE B == {"int", "int32_t", "unsigned int", "uint32_t", "long", "long long", "int64_t",
                 "unsigned long", "uint64_t", "unsigned char", "short", "float", "_Bool"}
           P == {"int", "int32_t", "unsigned int", "uint32_t", "size_t", "unsigned long", "uint64_t",
                 "long", "long long", "int64_t", "dependent", "unsigned char", "uint8_t"}
<1>1. DOMAIN BuiltIn = {<<"", n>> : n \in B} /\ DOMAIN PromotionKind = {<<"", n>> : n \in P}
  BY DEF BuiltIn, PromotionKind
<1>2. \A n \in B : <<"", n>> \in BasicTypes
  BY DEF BasicTypes, FixedWidth
<1>3. \A n \in P : <<"", n>> \in BasicTypes \cup {<<"", "dependent">>}
  BY DEF BasicTypes, FixedWidth
<1>4. "size_t" \notin B
  OBVIOUS
<1>5. ASSUME NEW x \in DOMAIN BuiltIn \cap DOMAIN PromotionKind
      PROVE  BuiltIn[x] = PromotionKind[x]
  <2>1. PICK n \in B : x = <<"", n>>
    BY <1>1, <1>5
  <2>2. n \in P
    BY <1>1, <1>5, <2>1
  <2>3. x[2] = n
    BY <2>1
  <2>4. n \in {"int", "int32_t", "unsigned int", "uint32_t", "long", "long long", "int64_t", "unsigned long",
               "uint64_t", "unsigned char"}
    BY <2>1, <2>2
  <2> QED BY <1>5, <2>3, <2>4 DEF BuiltIn, PromotionKind
<1>6. \A n \in B : <<"", n>> # <<"", "size_t">>
  BY <1>4
<1> QED
  BY <1>1, <1>2, <1>3, <1>5, <1>6

LEMMA SimplifiedName ==
  ASSUME stage # "extract", MapMade, NEW t \in DOMAIN simplified, Clean(t) \/ Under[t] \notin DOMAIN Under
  PROVE  t \in DOMAIN Under /\ simplified[t] = Named(Canonical(t))
<1>1. t \in DOMAIN Under /\ Entry(simplified, t)
  BY DEF MapMade, Entries
<1> QED
  BY <1>1, CleanNext DEF Entry

LEMMA HandedName ==
  ASSUME stage # "extract", MapMade, NEW t, t \in DOMAIN Under => t \in DOMAIN simplified /\ Clean(t)
  PROVE  TrueComplexType(GetType(t)) = NameOf(t)
<1>1. DOMAIN simplified \subseteq DOMAIN Under
  BY DEF MapMade, Entries
<1>2. CASE t \notin DOMAIN Under
  <2>1. GetType(t) = Named(t) /\ Named(t) \notin DOMAIN Under /\ Canonical(t) = t
    BY <1>2, GetTypeOut, NamedOut, Definitions
  <2> QED BY <1>1, <1>2, <2>1 DEF TrueComplexType, NameOf
<1>3. CASE t \in DOMAIN Under
  <2>1. simplified[t] = Named(Canonical(t)) /\ Canonical(t) \notin DOMAIN Under
    BY <1>3, SimplifiedName, Definitions
  <2>2. CASE /\ GetType(t) = Canonical(t) /\ Named(Canonical(t)) = Canonical(t)
             /\ Canonical(t)[1] \in PrintedByNames \/ t \in FixedWidth
    <3>1. Canonical(t)[1] \in PrintedByNames => Canonical(t) \notin BasicTypes
      BY Basics DEF PrintedByNames
    <3> QED BY <1>1, <2>1, <2>2, <3>1 DEF TrueComplexType, NameOf
  <2>3. CASE GetType(t) = t /\ t \notin FixedWidth
    <3>1. Named(Canonical(t)) \in BasicTypes <=> Canonical(t) \in BasicTypes
      BY Basics DEF Named
    <3> QED BY <1>3, <2>1, <2>3, <3>1 DEF TrueComplexType, NameOf
  <2> QED BY <1>3, <2>2, <2>3, GetTypeIn
<1> QED
  BY <1>2, <1>3

\* A type that the models have is used in a unit that has been compiled to its end.
LEMMA ModelledUsed ==
  ASSUME NEW t \in Modelled
  PROVE  /\ Canonical(t) \notin System
         /\ \E u \in finished : \E i \in DOMAIN Unit[u] :
              t \in UsedBy(Unit[u][i]) /\ Unit[u][i].k \in {"function", "record"}
         /\ \/ \E u \in finished : \E i \in DOMAIN Unit[u] : Unit[u][i].k = "function" /\ Unit[u][i].n = t
            \/ /\ \E x \in visited : t \in Fields[RecordAt(x)]
               /\ KindOf(t) \in {"RAW", "UNION"} => IsRecord(GetType(t))
<1>1. \A u \in finished : Range(Unit[u]) = {Unit[u][i] : i \in DOMAIN Unit[u]}
  BY DEF Range
<1>2. CASE t \in Handed
  <2>1. PICK u \in finished : \E d \in Range(Unit[u]) : d.k = "function" /\ d.n = t
    BY <1>2 DEF Handed, InFinished
  <2>2. PICK i \in DOMAIN Unit[u] : Unit[u][i].k = "function" /\ Unit[u][i].n = t
    BY <1>1, <2>1
  <2>3. t \in UsedBy(Unit[u][i])
    BY <2>2 DEF UsedBy
  <2>4. Canonical(t) \notin System
    BY DEF Modelled
  <2> QED BY <2>2, <2>3, <2>4
<1>3. CASE t \notin Handed
  <2>1. t \in Contained /\ Canonical(t) \notin System /\ (KindOf(t) \in {"RAW", "UNION"} => IsRecord(GetType(t)))
    BY <1>3 DEF Modelled
  <2>2. PICK r \in {recordFiles[FileOfRecord(x)] : x \in visited} \cap InFinished("record") : t \in Fields[r]
    BY <2>1 DEF Contained
  <2>3. PICK x \in visited : r = RecordAt(x)
    BY <2>2 DEF RecordAt
  <2>4. PICK u \in finished : \E d \in Range(Unit[u]) : d.k = "record" /\ d.n = r
    BY <2>2 DEF InFinished
  <2>5. PICK i \in DOMAIN Unit[u] : Unit[u][i].k = "record" /\ Unit[u][i].n = r
    BY <1>1, <2>4
  <2>6. t \in UsedBy(Unit[u][i])
    BY <2>2, <2>5 DEF UsedBy
  <2> QED BY <2>1, <2>2, <2>3, <2>5, <2>6
<1> QED
  BY <1>2, <1>3

\* Its definition has been chased, and its name is a type that is used.
LEMMA ModelledKnown ==
  ASSUME IInv, stage = "ready", NEW t \in Modelled, Clean(t)
  PROVE  /\ HasKind(t) /\ Canonical(t) \notin System
         /\ t \in DOMAIN Under => t \in DOMAIN simplified /\ simplified[t] = Named(Canonical(t))
         /\ TrueComplexType(GetType(t)) = NameOf(t) /\ NameOf(t) \in usedTypes
<1> USE DEF IInv
<1>1. PICK u \in finished : \E i \in DOMAIN Unit[u] :
        t \in UsedBy(Unit[u][i]) /\ Unit[u][i].k \in {"function", "record"}
  BY ModelledUsed
<1>2. PICK i \in DOMAIN Unit[u] : t \in UsedBy(Unit[u][i]) /\ Unit[u][i].k \in {"function", "record"}
  BY <1>1
<1>3. u \in DOMAIN Unit
  BY DEF Compiled
<1>4. HasKind(t) /\ Canonical(t) \notin System
  BY <1>2, <1>3, UsesDeclared, ModelledUsed
<1>5. ASSUME t \in DOMAIN Under
      PROVE  t \in DOMAIN simplified
  <2>1. Declares(u, i, t)
    BY <1>2, <1>3, <1>5, UsesDeclared
  <2>2. PICK j \in DOMAIN Unit[u] : Unit[u][j].n = t /\ Unit[u][j].k = "typedef"
    BY <1>3, <1>5, <2>1, DeclaredTypedef
  <2>3. ~Missing(t)
    BY <1>5, CleanNext
  <2>4. HasLine(typemap, t)
    BY <2>2, <2>3 DEF Compiled
  <2>5. PICK k \in DOMAIN typemap : typemap[k] = Line(t)
    BY <2>4 DEF HasLine
  <2>6. k \in 1..Len(typemap)
    BY <2>5 DEF Compiled
  <2>7. t \notin LeftOut /\ Complete(simplified, Len(typemap))
    BY <2>3 DEF Missing, Scripts, MapMade
  <2> QED BY <1>5, <2>5, <2>6, <2>7 DEF Complete
<1>6. MapMade /\ RawMade /\ stage # "extract"
  BY DEF Scripts
<1>7. TrueComplexType(GetType(t)) = NameOf(t)
  BY <1>5, <1>6, HandedName
<1>8. TrueComplexType(GetType(t)) \in usedTypes
  <2>1. CASE \E v \in finished : \E j \in DOMAIN Unit[v] : Unit[v][j].k = "function" /\ Unit[v][j].n = t
    <3>1. PICK v \in finished : \E j \in DOMAIN Unit[v] : Unit[v][j].k = "function" /\ Unit[v][j].n = t
      BY <2>1
    <3>2. PICK j \in DOMAIN Unit[v] : Unit[v][j].k = "function" /\ Unit[v][j].n = t
      BY <3>1
    <3>3. Dumped(v, j)
      BY <3>1 DEF Compiled, Files, Seen
    <3> QED BY <1>6, <3>2, <3>3 DEF Dumped, RawMade
  <2>2. CASE \E x \in visited : t \in Fields[RecordAt(x)]
    BY <1>6, <2>2 DEF RawMade, Parsed
  <2> QED BY <2>1, <2>2, ModelledUsed
<1> QED
  BY <1>4, <1>5, <1>6, <1>7, <1>8, SimplifiedName

\* What it is, if an enumeration or a record, is declared in a unit that is finished.
LEMMA EnumDumped ==
  ASSUME IInv, NEW t \in Modelled, Canonical(t) \in DOMAIN Promotion, Canonical(t)[1] \in {"enum", "enum of"}
  PROVE  Named(Canonical(t)) \in DOMAIN enumFiles
<1>1. PICK u \in finished : \E i \in DOMAIN Unit[u] : t \in UsedBy(Unit[u][i])
  BY ModelledUsed
<1>2. PICK i \in DOMAIN Unit[u] : t \in UsedBy(Unit[u][i])
  BY <1>1
<1>3. u \in DOMAIN Unit
  BY DEF IInv, Compiled
<1>4. \E j \in DOMAIN Unit[u] : Declares(u, j, Canonical(t))
  <2>1. CASE t \notin DOMAIN Under
    BY <1>2, <1>3, <2>1, Definitions, UsesDeclared
  <2>2. CASE t \in DOMAIN Under
    <3>1. Declares(u, i, t)
      BY <1>2, <1>3, <2>2, UsesDeclared
    <3>2. PICK j \in DOMAIN Unit[u] : Unit[u][j].n = t /\ Unit[u][j].k = "typedef"
      BY <1>3, <2>2, <3>1, DeclaredTypedef
    <3>3. Declares(u, j, Canonical(Unit[u][j].n))
      BY <1>3, <3>2, CanonicalDeclared
    <3> QED BY <3>2, <3>3
  <2> QED BY <2>1, <2>2
<1>5. PICK j \in DOMAIN Unit[u] : Declares(u, j, Canonical(t))
  BY <1>4
<1>6. \E k \in DOMAIN Unit[u] : Unit[u][k].n = Canonical(t) /\ Unit[u][k].k = "enum"
  BY <1>3, <1>5, DeclaredEnum
<1>7. PICK k \in DOMAIN Unit[u] : Unit[u][k].n = Canonical(t) /\ Unit[u][k].k = "enum"
  BY <1>6
<1>8. Dumped(u, k) /\ Canonical(t) \notin System
  BY <1>1, <1>3, ModelledUsed DEF IInv, Files, Seen
<1> QED
  BY <1>7, <1>8 DEF Dumped

\* What the fuzzer has read from the file of an enumeration.
LEMMA EnumInfoIs ==
  ASSUME IInv, stage = "ready"
  PROVE  /\ \A y : y \in DOMAIN enumInfo <=> /\ y \in DOMAIN enumFiles \cap (usedTypes \cup Special)
                                             /\ enumFiles[y].promotion \in DOMAIN PromotionKind
         /\ \A y \in DOMAIN enumInfo :
              /\ EnumOf(y, enumFiles[y]) /\ KindRead(y) = PromotionKind[enumFiles[y].promotion]
              /\ enumFiles[y].values # <<>> /\ enumFiles[y].promotion # <<"", "dependent">>
                   => enumInfo[y] = Range(enumFiles[y].values)
<1>1. model.enumeration = [x \in DOMAIN enumFiles \cap (usedTypes \cup Special) |-> enumFiles[x]]
  BY DEF IInv, Scripts, ModelMade, Loading
<1>2. EnumsRead({}) /\ \A f \in DOMAIN enumFiles : EnumOf(f, enumFiles[f])
  BY DEF IInv, Loader, Files, Sources
<1>3. \A y : y \in DOMAIN enumInfo => y \in DOMAIN model.enumeration /\ model.enumeration[y] = enumFiles[y]
  BY <1>1, <1>2 DEF EnumsRead
<1>4. \A y \in DOMAIN enumInfo : enumFiles[y].values # <<>> /\ enumFiles[y].promotion # <<"", "dependent">>
        => enumInfo[y] = Range(enumFiles[y].values)
  BY <1>2, <1>3 DEF EnumsRead
<1>5. \A y : y \in DOMAIN enumInfo <=> /\ y \in DOMAIN enumFiles \cap (usedTypes \cup Special)
                                       /\ enumFiles[y].promotion \in DOMAIN PromotionKind
  BY <1>1, <1>2 DEF EnumsRead
<1> QED
  BY <1>1, <1>2, <1>3, <1>4, <1>5 DEF KindRead

\* The tags of what has the file of an enumeration.
LEMMA EnumTag ==
  ASSUME NEW f, NEW file, EnumOf(f, file)
  PROVE  f[1] \in {"enum", "anonymous", ""}
<1>1. PICK u \in DOMAIN Unit : \E i \in DOMAIN Unit[u] :
        \/ Unit[u][i].n[1] \in {"enum", "enum of"} /\ f = Named(Unit[u][i].n) /\ Unit[u][i].k = "enum"
        \/ Unit[u][i].n[1] = "anonymous" /\ f = Unit[u][i].n
        \/ f \in DOMAIN Under
  BY DEF EnumOf
<1>2. PICK i \in DOMAIN Unit[u] :
        \/ Unit[u][i].n[1] \in {"enum", "enum of"} /\ f = Named(Unit[u][i].n) /\ Unit[u][i].k = "enum"
        \/ Unit[u][i].n[1] = "anonymous" /\ f = Unit[u][i].n
        \/ f \in DOMAIN Under
  BY <1>1
<1>3. CASE Unit[u][i].n[1] \in {"enum", "enum of"} /\ f = Named(Unit[u][i].n)
  BY <1>3 DEF Named
<1>4. CASE f \in DOMAIN Under
  BY <1>4, Definitions
<1> QED
  BY <1>2, <1>3, <1>4

\* A record whose fields have been parsed has its own name in the models, or that of a type
\* definition, which only a struct has.
LEMMA VisitedIs ==
  ASSUME IInv, stage = "ready", NEW x \in visited
  PROVE  LET y == TrueComplexType(x)
             r == RecordAt(x)
         IN \/ y = r /\ r[1] \in {"struct", "union", "class", "unnamed"}
            \/ y[1] = "struct" /\ r[1] = "struct of"
            \/ y \in DOMAIN Under /\ Under[y] = r /\ r[1] = "struct of"
<1> DEFINE f == FileOfRecord(x)
           y == TrueComplexType(x)
           r == RecordAt(x)
<1>1. f \in DOMAIN recordFiles /\ RecordOf(f, r) /\ MapMade /\ DOMAIN simplified \subseteq DOMAIN Under
  BY DEF IInv, Files, Sources, Scripts, RawMade, Parsed, RecordAt, MapMade, Entries
<1>2. f = x \/ (x \in DOMAIN simplified /\ f = simplified[x])
  BY DEF FileOfRecord
<1>3. y = x \/ (x \in DOMAIN simplified /\ y = simplified[x])
  BY DEF TrueComplexType
<1>4. CASE r = f /\ f[1] \in {"struct", "union", "class", "unnamed"}
  <2>1. f \notin DOMAIN Under /\ f \notin BasicTypes
    BY <1>4, Definitions, Basics
  <2>2. y = f
    BY <1>1, <1>2, <2>1 DEF TrueComplexType
  <2> QED BY <1>4, <2>2
<1>5. CASE f \in DOMAIN Under /\ Under[f] = r /\ r[1] = "struct of"
  <2>1. r \notin DOMAIN Under /\ Canonical(f) = r
    BY <1>5, Definitions, CanonicalNext
  <2>2. CASE f = x
    <3>1. x \in DOMAIN simplified => simplified[x] = <<"struct", r[2]>>
      BY <1>1, <1>5, <2>1, <2>2, SimplifiedName DEF IInv, Named
    <3>2. CASE y = x
      BY <1>5, <2>2, <3>2
    <3>3. CASE x \in DOMAIN simplified /\ y = simplified[x]
      <4>1. y[1] = "struct"
        BY <3>1, <3>3
      <4> QED BY <1>5, <4>1
    <3> QED BY <1>3, <3>2, <3>3
  <2>3. CASE x \in DOMAIN simplified /\ f = simplified[x]
    <3>1. f \notin BasicTypes
      BY <1>5, <2>1, Basics
    <3> QED BY <1>5, <2>3, <3>1 DEF TrueComplexType
  <2> QED BY <1>2, <2>2, <2>3
<1> QED
  BY <1>1, <1>4, <1>5 DEF RecordOf

LEMMA RecordsAre ==
  ASSUME IInv, stage = "ready"
  PROVE  /\ \A y \in model.union : y[1] = "union"
         /\ \A y \in model.raw : \/ y[1] \in {"struct", "class", "unnamed"}
                                 \/ y \in DOMAIN Under /\ Canonical(y)[1] = "struct of"
<1>1. ASSUME NEW y \in model.union
      PROVE  y[1] = "union"
  <2>1. PICK x \in visited : y = TrueComplexType(x) /\ RecordAt(x)[1] = "union"
    BY DEF IInv, Scripts, RawMade
  <2> QED BY <2>1, VisitedIs
<1>2. ASSUME NEW y \in model.raw
      PROVE  \/ y[1] \in {"struct", "class", "unnamed"}
             \/ y \in DOMAIN Under /\ Canonical(y)[1] = "struct of"
  <2>1. PICK x \in visited : y = TrueComplexType(x) /\ RecordAt(x)[1] # "union"
    BY DEF IInv, Scripts, RawMade
  <2>2. CASE y = RecordAt(x) /\ RecordAt(x)[1] \in {"struct", "union", "class", "unnamed"}
    BY <2>1, <2>2
  <2>3. CASE y \in DOMAIN Under /\ Under[y] = RecordAt(x) /\ RecordAt(x)[1] = "struct of"
    <3>1. Canonical(y) = RecordAt(x)
      BY <2>3, Definitions, CanonicalNext
    <3> QED BY <2>3, <3>1
  <2> QED BY <2>1, <2>2, <2>3, VisitedIs
<1> QED
  BY <1>1, <1>2

\* What is a record is among those that have been parsed.
LEMMA RecordRaw ==
  ASSUME IInv, stage = "ready", rawList \subseteq visited, NEW t \in Modelled, Clean(t),
         Canonical(t)[1] \in {"struct", "struct of", "unnamed", "union"}
  PROVE  GetType(t) \in visited
<1> DEFINE c == Canonical(t)
<1>1. KindOf(t) \in {"RAW", "UNION"}
  BY DEF KindOf
<1>2. Named(c)[1] \in {"struct", "unnamed", "union"} /\ Named(c) \notin DOMAIN Under
  BY Definitions DEF Named
<1>3. IsFiniteSet(DOMAIN simplified) /\ DOMAIN simplified \subseteq DOMAIN Under
  BY DEF IInv, Scripts, MapMade, Entries
<1>4. IsRecord(GetType(t)) \/ IsRecord(Follow(simplified, GetType(t)))
  <2>1. CASE GetType(t) = Named(c)
    BY <1>2, <2>1 DEF IsRecord
  <2>2. CASE t \in DOMAIN Under /\ GetType(t) = t
    <3>1. t \in DOMAIN simplified /\ simplified[t] = Named(c)
      BY <2>2, ModelledKnown
    <3>2. Follow(simplified, t) = Named(c)
      BY <1>2, <1>3, <3>1, FollowOne
    <3> QED BY <1>2, <2>2, <3>2 DEF IsRecord
  <2>3. t \notin DOMAIN Under => GetType(t) = Named(c)
    BY GetTypeOut, Definitions
  <2> QED BY <2>1, <2>2, <2>3, GetTypeIn
<1>5. CASE \E u \in finished : \E i \in DOMAIN Unit[u] : Unit[u][i].k = "function" /\ Unit[u][i].n = t
  <2>1. PICK u \in finished : \E i \in DOMAIN Unit[u] : Unit[u][i].k = "function" /\ Unit[u][i].n = t
    BY <1>5
  <2>2. PICK i \in DOMAIN Unit[u] : Unit[u][i].k = "function" /\ Unit[u][i].n = t
    BY <2>1
  <2>3. Dumped(u, i)
    BY <2>1 DEF IInv, Compiled, Files, Seen
  <2>4. GetType(t) \in trees
    BY <2>2, <2>3 DEF Dumped
  <2> QED BY <1>4, <2>4 DEF IInv, Scripts, RawMade
<1>6. CASE (\E x \in visited : t \in Fields[RecordAt(x)]) /\ (KindOf(t) \in {"RAW", "UNION"} => IsRecord(GetType(t)))
  <2>1. PICK x \in visited : t \in Fields[RecordAt(x)]
    BY <1>6
  <2>2. Parsed(x)
    BY DEF IInv, Scripts, RawMade
  <2> QED BY <1>1, <1>6, <2>1, <2>2 DEF Parsed
<1> QED
  BY <1>5, <1>6, ModelledUsed

\* What the fuzzer has at the end for a name.
LEMMA KindKept ==
  ASSUME IInv, stage = "ready", NEW y
  PROVE  /\ y \in Base => y \in DOMAIN varTypeMap /\ varTypeMap[y] = BaseKind(y)
         /\ y \in DOMAIN varTypeMap => y \in Base \cup DOMAIN simplified
         /\ y \in (DOMAIN simplified \cap usedTypes) \ Base /\ simplified[y] \in DOMAIN BuiltIn =>
              y \in DOMAIN varTypeMap /\ varTypeMap[y] = BuiltIn[simplified[y]]
<1>1. model.lines = {<<x, simplified[x]>> : x \in {z \in DOMAIN simplified \cap usedTypes : simplified[z] \in BasicTypes}}
  BY DEF IInv, Scripts, ModelMade, Loading
<1>2. /\ toLoad = {}
      /\ \A x \in Base : x \in DOMAIN varTypeMap /\ varTypeMap[x] = BaseKind(x)
      /\ DOMAIN varTypeMap \subseteq Base \cup {l[1] : l \in model.lines \ toLoad}
      /\ \A l \in model.lines \ toLoad : l[1] \notin Base /\ l[2] \in DOMAIN BuiltIn =>
           l[1] \in DOMAIN varTypeMap /\ varTypeMap[l[1]] = BuiltIn[l[2]]
  BY DEF IInv, Loader
<1>3. \A l \in model.lines : l[1] \in DOMAIN simplified
  BY <1>1
<1>4. ASSUME y \in (DOMAIN simplified \cap usedTypes) \ Base, simplified[y] \in DOMAIN BuiltIn
      PROVE  y \in DOMAIN varTypeMap /\ varTypeMap[y] = BuiltIn[simplified[y]]
  <2>1. <<y, simplified[y]>> \in model.lines
    BY <1>1, <1>4, Kinds
  <2> QED BY <1>2, <1>4, <2>1
<1> QED
  BY <1>2, <1>3, <1>4

-----------------------------------------------------------------------------
(* The kind of a type, by what it is *)

\* The file of an enumeration with a name, which is the same for all its declarations.
LEMMA EnumRead ==
  ASSUME IInv, stage = "ready", NEW t \in Modelled, Clean(t), Canonical(t) \in DOMAIN Promotion,
         Canonical(t)[1] \in {"enum", "enum of"}
  PROVE  LET y == NameOf(t) IN
         /\ y = Named(Canonical(t)) /\ y[1] = "enum" /\ y \in DOMAIN enumInfo
         /\ KindRead(y) = PromotionKind[Promotion[Canonical(t)]]
         /\ enumFiles[y].promotion = Promotion[Canonical(t)]
         /\ \E u \in DOMAIN Unit : \E i \in DOMAIN Unit[u] : Belongs(u, i, t) /\ enumFiles[y].values = Unit[u][i].values
<1> DEFINE c == Canonical(t)
           y == NameOf(t)
<1>1. y = Named(c) /\ y[1] = "enum"
  <2>1. c \notin BasicTypes
    BY Basics
  <2> QED BY <2>1 DEF NameOf, Named
<1>2. y \in DOMAIN enumFiles /\ y \in usedTypes
  BY <1>1, EnumDumped, ModelledKnown
<1>3. EnumOf(y, enumFiles[y])
  BY <1>2 DEF IInv, Files, Sources
<1>4. PICK u \in DOMAIN Unit : \E i \in DOMAIN Unit[u] :
        /\ Unit[u][i].k = "enum" /\ Unit[u][i].n \notin System /\ enumFiles[y].values = Unit[u][i].values
        /\ Unit[u][i].n[1] \in {"enum", "enum of"} /\ y = Named(Unit[u][i].n)
        /\ enumFiles[y].promotion = Promotion[Unit[u][i].n]
  BY <1>1, <1>3, Definitions DEF EnumOf
<1>5. PICK i \in DOMAIN Unit[u] :
        /\ Unit[u][i].k = "enum" /\ Unit[u][i].n \notin System /\ enumFiles[y].values = Unit[u][i].values
        /\ Unit[u][i].n[1] \in {"enum", "enum of"} /\ y = Named(Unit[u][i].n)
        /\ enumFiles[y].promotion = Promotion[Unit[u][i].n]
  BY <1>4
<1>6. Unit[u][i].n = c
  BY <1>1, <1>5, Declared, NamedEnum
<1>7. Promotion[c] \in DOMAIN PromotionKind
  <2>1. HasKind(t) /\ c[1] \notin {"struct", "struct of", "unnamed", "union", "pointer", "vector", "interface", ""}
    BY ModelledKnown
  <2>2. c \notin DOMAIN BuiltIn
    BY <2>1, Kinds, Basics
  <2> QED BY <2>1, <2>2 DEF HasKind
<1>8. y \in DOMAIN enumInfo /\ KindRead(y) = PromotionKind[Promotion[c]]
  BY <1>2, <1>5, <1>6, <1>7, EnumInfoIs
<1>9. Belongs(u, i, t)
  BY <1>5, <1>6 DEF Belongs
<1> QED
  BY <1>1, <1>5, <1>6, <1>8, <1>9

LEMMA NamedTag ==
  ASSUME NEW c
  PROVE  /\ c[1] \in {"enum", "enum of"} => Named(c)[1] = "enum"
         /\ c[1] \in {"struct", "struct of"} => Named(c)[1] = "struct"
         /\ c[1] \notin {"enum of", "struct of"} => Named(c) = c
<1>1. CASE c[1] = "enum of"
  BY <1>1 DEF Named
<1>2. CASE c[1] = "struct of"
  BY <1>2 DEF Named
<1>3. CASE c[1] \notin {"enum of", "struct of"}
  BY <1>3 DEF Named
<1> QED
  BY <1>1, <1>2, <1>3

\* What is in the map is not looked for elsewhere.
LEMMA KindInMap ==
  ASSUME NEW y \in DOMAIN varTypeMap, y[1] \notin {"vector", "pointer", "interface"}
  PROVE  VarTypeEnum(y) = varTypeMap[y]
BY DEF VarTypeEnum

LEMMA KindOfEnum ==
  ASSUME IInv, stage = "ready", NEW t \in Modelled, Clean(t), Canonical(t) \in DOMAIN Promotion,
         Canonical(t)[1] \in {"enum", "enum of"}
  PROVE  VarTypeEnum(NameOf(t)) = KindOf(t)
<1> DEFINE y == NameOf(t)
<1>1. y[1] = "enum" /\ y \in DOMAIN enumInfo /\ KindRead(y) = PromotionKind[Promotion[Canonical(t)]]
  BY EnumRead
<1>2. y \notin DOMAIN BuiltIn
  BY <1>1, Kinds, Basics
<1>3. y \in DOMAIN varTypeMap /\ varTypeMap[y] = PromotionKind[Promotion[Canonical(t)]]
  BY <1>1, <1>2, KindKept DEF Base, BaseKind
<1>4. KindOf(t) = PromotionKind[Promotion[Canonical(t)]]
  BY DEF KindOf
<1> QED
  BY <1>1, <1>3, <1>4, KindInMap

LEMMA KindOfRecord ==
  ASSUME IInv, stage = "ready", rawList \subseteq visited, NEW t \in Modelled, Clean(t),
         Canonical(t)[1] \in {"struct", "struct of", "unnamed", "union"}
  PROVE  VarTypeEnum(NameOf(t)) = KindOf(t)
<1> DEFINE c == Canonical(t)
           y == NameOf(t)
           x == GetType(t)
<1>1. c \notin BasicTypes
  BY Basics
<1>2. y = Named(c)
  BY <1>1 DEF NameOf
<1>3. /\ c[1] = "union" => y[1] = "union"
      /\ c[1] # "union" => y[1] \in {"struct", "unnamed"}
      /\ y[1] \in {"struct", "unnamed", "union"}
  BY <1>2, NamedTag
<1>4. x \in visited /\ TrueComplexType(x) = y
  BY RecordRaw, ModelledKnown
<1>5. y \in IF RecordAt(x)[1] = "union" THEN model.union ELSE model.raw
  BY <1>4 DEF IInv, Scripts, RawMade, Parsed
<1>6. y \notin DOMAIN Under
  BY <1>3, Definitions
<1>7. y \notin DOMAIN BuiltIn
  BY <1>3, Kinds, Basics
<1>8. y \notin DOMAIN enumInfo
  BY <1>3, EnumInfoIs, EnumTag
<1>9. IF c[1] = "union" THEN y \in model.union ELSE y \in model.raw /\ y \notin model.union
  BY <1>3, <1>5, <1>6, RecordsAre
<1>10. y \in DOMAIN varTypeMap /\ varTypeMap[y] = IF c[1] = "union" THEN "UNION" ELSE "RAW"
  BY <1>7, <1>8, <1>9, KindKept DEF Base, BaseKind, KindRead
<1>11. KindOf(t) = IF c[1] = "union" THEN "UNION" ELSE "RAW"
  BY DEF KindOf
<1> QED
  BY <1>3, <1>10, <1>11, KindInMap

LEMMA KindOfPointer ==
  ASSUME IInv, stage = "ready", NEW t \in Modelled, Clean(t), Canonical(t)[1] \in {"pointer", "vector", "interface"}
  PROVE  VarTypeEnum(NameOf(t)) = KindOf(t)
<1> DEFINE c == Canonical(t)
           y == NameOf(t)
<1>1. c \notin BasicTypes
  BY Basics
<1>2. y = c
  BY <1>1 DEF NameOf, Named
<1>3. y \notin DOMAIN Under
  BY <1>2, Definitions
<1>4. y \notin DOMAIN BuiltIn
  BY <1>1, <1>2, Kinds
<1>5. y \notin DOMAIN enumInfo
  BY <1>2, EnumInfoIs, EnumTag
<1>6. y \notin model.union /\ y \notin model.raw
  BY <1>2, <1>3, RecordsAre
<1>7. DOMAIN simplified \subseteq DOMAIN Under
  BY DEF IInv, Scripts, MapMade, Entries
<1>8. y \notin DOMAIN varTypeMap
  BY <1>3, <1>4, <1>5, <1>6, <1>7, KindKept DEF Base
<1> QED
  BY <1>2, <1>8 DEF VarTypeEnum, KindOf

\* A type definition that has the values of an enumeration without a name has the kind of
\* what it is an alias of.
LEMMA KindOfTaken ==
  ASSUME IInv, stage = "ready", NEW t \in DOMAIN enumInfo, t \in DOMAIN Under, Canonical(t) \in BasicTypes,
         ~OfTwoWidths(t)
  PROVE  Canonical(t) \in DOMAIN PromotionKind /\ KindRead(t) = PromotionKind[Canonical(t)]
<1> DEFINE p == GetType(Under[t])
<1>1. EnumOf(t, enumFiles[t]) /\ enumFiles[t].promotion \in DOMAIN PromotionKind
      /\ KindRead(t) = PromotionKind[enumFiles[t].promotion]
  BY EnumInfoIs
<1>2. t[1] = ""
  BY Definitions
<1>3. PICK u \in DOMAIN Unit : \E i \in DOMAIN Unit[u] :
        Unit[u][i].k = "enum" /\ Taken(u, i, t) /\ enumFiles[t].promotion = p
  <2>1. PICK u \in DOMAIN Unit : \E i \in DOMAIN Unit[u] :
          /\ Unit[u][i].k = "enum"
          /\ \/ Unit[u][i].n[1] \in {"enum", "enum of"} /\ t = Named(Unit[u][i].n)
             \/ Unit[u][i].n[1] = "anonymous" /\ t = Unit[u][i].n
             \/ Taken(u, i, t) /\ enumFiles[t].promotion = p
    BY <1>1 DEF EnumOf
  <2>2. PICK i \in DOMAIN Unit[u] :
          /\ Unit[u][i].k = "enum"
          /\ \/ Unit[u][i].n[1] \in {"enum", "enum of"} /\ t = Named(Unit[u][i].n)
             \/ Unit[u][i].n[1] = "anonymous" /\ t = Unit[u][i].n
             \/ Taken(u, i, t) /\ enumFiles[t].promotion = p
    BY <2>1
  <2>3. ~(Unit[u][i].n[1] \in {"enum", "enum of"} /\ t = Named(Unit[u][i].n))
    BY <1>2, NamedTag
  <2> QED BY <1>2, <2>2, <2>3
<1>4. PICK i \in DOMAIN Unit[u] : Unit[u][i].k = "enum" /\ Taken(u, i, t) /\ enumFiles[t].promotion = p
  BY <1>3
<1>5. p \in BasicTypes \cup {<<"", "dependent">>} /\ p \in DOMAIN PromotionKind
  BY <1>1, <1>4, Kinds
<1>6. CASE p = Named(Canonical(t))
  <2>1. p = Canonical(t)
    BY <1>6, Basics DEF Named
  <2> QED BY <1>1, <1>4, <1>5, <2>1
<1>7. CASE Under[t] \in DOMAIN Under /\ p = Under[t]
  <2>1. Under[t] \in FixedWidth \cup {<<"", "size_t">>}
    BY <1>5, <1>7, Basics
  <2>2. Under[t] \notin FixedWidth
    <3>1. Canonical(Under[t]) \notin DOMAIN Under
      BY <1>7, Definitions
    <3> QED BY <1>7, <3>1, GetTypeIn
  <2>3. OfTwoWidths(t)
    BY <1>4, <2>1, <2>2 DEF OfTwoWidths
  <2> QED BY <2>3
<1> QED
  BY <1>6, <1>7, LineNamed

LEMMA KindOfBasic ==
  ASSUME IInv, stage = "ready", NEW t \in Modelled, Clean(t), ~OfTwoWidths(t), Canonical(t) \in DOMAIN BuiltIn
  PROVE  VarTypeEnum(NameOf(t)) = KindOf(t)
<1> DEFINE c == Canonical(t)
           y == NameOf(t)
<1>1. c \in BasicTypes /\ c[1] = "" /\ Named(c) = c
  BY Kinds, Basics DEF Named
<1>2. KindOf(t) = BuiltIn[c]
  BY <1>1 DEF KindOf
<1>3. CASE y = c
  <2>1. c \in DOMAIN varTypeMap /\ varTypeMap[c] = BuiltIn[c]
    BY KindKept DEF Base, BaseKind
  <2> QED BY <1>1, <1>2, <1>3, <2>1, KindInMap
<1>4. CASE y = t /\ t \in DOMAIN Under \ FixedWidth
  <2>1. t \notin DOMAIN BuiltIn
    BY <1>4, Kinds, Basics
  <2>2. CASE t \in DOMAIN enumInfo
    <3>1. c \in DOMAIN PromotionKind /\ KindRead(t) = PromotionKind[c]
      BY <1>1, <1>4, <2>2, KindOfTaken
    <3>2. KindRead(t) = BuiltIn[c]
      BY <3>1, Kinds
    <3>3. t \in DOMAIN varTypeMap /\ varTypeMap[t] = BuiltIn[c]
      BY <2>1, <2>2, <3>2, KindKept DEF Base, BaseKind
    <3>4. t[1] = ""
      BY <1>4, Definitions
    <3> QED BY <1>2, <1>4, <3>3, <3>4, KindInMap
  <2>3. CASE t \notin DOMAIN enumInfo
    <3>1. t[1] = ""
      BY <1>4, Definitions
    <3>2. t \notin model.union /\ t \notin model.raw
      BY <1>1, <3>1, RecordsAre
    <3>3. t \notin Base
      BY <2>1, <2>3, <3>2 DEF Base
    <3>4. t \in DOMAIN simplified \cap usedTypes /\ simplified[t] = c
      BY <1>1, <1>4, ModelledKnown
    <3>5. t \in DOMAIN varTypeMap /\ varTypeMap[t] = BuiltIn[c]
      BY <3>3, <3>4, KindKept
    <3> QED BY <1>2, <1>4, <3>1, <3>5, KindInMap
  <2> QED BY <2>2, <2>3
<1>5. y = c \/ (y = t /\ t \in DOMAIN Under \ FixedWidth)
  BY <1>1 DEF NameOf
<1> QED
  BY <1>3, <1>4, <1>5

LEMMA KindIs ==
  ASSUME IInv
  PROVE  KindAsDeclared
<1> SUFFICES ASSUME stage = "ready", rawList \subseteq visited, NEW t \in Modelled, Clean(t), ~OfTwoWidths(t)
             PROVE  VarTypeEnum(TrueComplexType(GetType(t))) = KindOf(t)
  BY DEF KindAsDeclared
<1>1. HasKind(t) /\ TrueComplexType(GetType(t)) = NameOf(t)
  BY ModelledKnown
<1>2. CASE Canonical(t) \in DOMAIN Promotion /\ Canonical(t)[1] \in {"enum", "enum of"}
  BY <1>1, <1>2, KindOfEnum
<1>3. CASE Canonical(t)[1] \in {"struct", "struct of", "unnamed", "union"}
  BY <1>1, <1>3, KindOfRecord
<1>4. CASE Canonical(t)[1] \in {"pointer", "vector", "interface"}
  BY <1>1, <1>4, KindOfPointer
<1>5. CASE Canonical(t) \in DOMAIN BuiltIn
  BY <1>1, <1>5, KindOfBasic
<1> QED
  BY <1>1, <1>2, <1>3, <1>4, <1>5 DEF HasKind

\* When the fuzzer is ready it has the kind of writer that its declaration asks for, for the
\* type of every variable that the models have, whatever the units define and in whatever
\* order they were compiled and the files read (types.cpp:103, variable_type.py:13).
THEOREM KindAlways == Spec => []KindAsDeclared
BY IInvAlways, KindIs, PTL

-----------------------------------------------------------------------------
(* The values of an enumeration *)

\* What is taken for the values of a type definition is in front of it in every unit.
LEMMA TakenAlways ==
  ASSUME NEW t \in DOMAIN Under, NEW u \in DOMAIN Unit, NEW i \in DOMAIN Unit[u], Unit[u][i].k = "enum", Taken(u, i, t),
         NEW v \in DOMAIN Unit, NEW j \in DOMAIN Unit[v], Unit[v][j].k = "typedef", Unit[v][j].n = t
  PROVE  \E h \in DOMAIN Unit[v] : Unit[v][h].k = "enum" /\ Unit[v][h].n = Unit[u][i].n /\ Taken(v, h, t)
<1>1. Unit[v][j] = [k |-> "typedef", n |-> t]
  BY Declared
<1>2. j > 1 /\ Unit[v][j - 1].k = "enum" /\ Unit[v][j - 1].n = Unit[u][i].n
  <2>1. LET d == Unit[u][i] IN
          d.k = "enum" => \A x \in DOMAIN Under : Taken(u, i, x) =>
            \A w \in DOMAIN Unit : \A k \in DOMAIN Unit[w] :
              Unit[w][k] = [k |-> "typedef", n |-> x] => k > 1 /\ Unit[w][k - 1].k = "enum" /\ Unit[w][k - 1].n = d.n
    BY TypesAssumption DEF TypesAssumption, UnitsAssumption
  <2>2. \A w \in DOMAIN Unit : \A k \in DOMAIN Unit[w] : Unit[w][k] = [k |-> "typedef", n |-> t]
          => k > 1 /\ Unit[w][k - 1].k = "enum" /\ Unit[w][k - 1].n = Unit[u][i].n
    BY <2>1
  <2> QED BY <1>1, <2>2
<1>3. DOMAIN Unit[v] = 1..Len(Unit[v]) /\ Len(Unit[v]) \in Nat
  BY UnitSeq
<1>4. j - 1 \in DOMAIN Unit[v] /\ j - 1 < Len(Unit[v]) /\ (j - 1) + 1 = j
  BY <1>2, <1>3
<1>5. Followed(v, j - 1, [k |-> "typedef", n |-> t])
  BY <1>1, <1>4 DEF Followed
<1>6. Taken(v, j - 1, t)
  BY <1>2, <1>5 DEF Taken
<1> QED
  BY <1>2, <1>4, <1>6

LEMMA TakenDumped ==
  ASSUME IInv, stage = "ready", NEW t \in Modelled, t \in DOMAIN Under, Canonical(t) \in BasicTypes,
         GetType(Under[t])[1] \notin NotTaken,
         NEW u \in DOMAIN Unit, NEW i \in DOMAIN Unit[u], Unit[u][i].k = "enum", Taken(u, i, t), Unit[u][i].n \notin System
  PROVE  t \in DOMAIN enumFiles
<1>1. PICK v \in finished : \E j \in DOMAIN Unit[v] : t \in UsedBy(Unit[v][j])
  BY ModelledUsed
<1>2. PICK j \in DOMAIN Unit[v] : t \in UsedBy(Unit[v][j])
  BY <1>1
<1>3. v \in DOMAIN Unit
  BY DEF IInv, Compiled
<1>4. Declares(v, j, t)
  BY <1>2, <1>3, UsesDeclared
<1>5. PICK d \in DOMAIN Unit[v] : Unit[v][d].n = t /\ Unit[v][d].k = "typedef"
  BY <1>3, <1>4, DeclaredTypedef
<1>6. PICK h \in DOMAIN Unit[v] : Unit[v][h].k = "enum" /\ Unit[v][h].n = Unit[u][i].n /\ Taken(v, h, t)
  BY <1>3, <1>5, TakenAlways
<1>7. Dumped(v, h)
  BY <1>1, <1>3 DEF IInv, Files, Seen
<1> QED
  BY <1>6, <1>7 DEF Dumped

\* The file with the name of a type definition has the values of what is in front of it.
LEMMA TakenRead ==
  ASSUME IInv, NEW t \in DOMAIN enumFiles, t \in DOMAIN Under
  PROVE  /\ enumFiles[t].promotion = GetType(Under[t])
         /\ \E u \in DOMAIN Unit : \E i \in DOMAIN Unit[u] : Belongs(u, i, t) /\ enumFiles[t].values = Unit[u][i].values
<1>1. EnumOf(t, enumFiles[t])
  BY DEF IInv, Files, Sources
<1>2. t[1] = ""
  BY Definitions
<1>3. PICK u \in DOMAIN Unit : \E i \in DOMAIN Unit[u] :
        /\ Unit[u][i].k = "enum" /\ Unit[u][i].n \notin System /\ enumFiles[t].values = Unit[u][i].values
        /\ \/ Unit[u][i].n[1] \in {"enum", "enum of"} /\ t = Named(Unit[u][i].n)
           \/ Unit[u][i].n[1] = "anonymous" /\ t = Unit[u][i].n
           \/ Taken(u, i, t) /\ enumFiles[t].promotion = GetType(Under[t])
  BY <1>1 DEF EnumOf
<1>4. PICK i \in DOMAIN Unit[u] :
        /\ Unit[u][i].k = "enum" /\ Unit[u][i].n \notin System /\ enumFiles[t].values = Unit[u][i].values
        /\ \/ Unit[u][i].n[1] \in {"enum", "enum of"} /\ t = Named(Unit[u][i].n)
           \/ Unit[u][i].n[1] = "anonymous" /\ t = Unit[u][i].n
           \/ Taken(u, i, t) /\ enumFiles[t].promotion = GetType(Under[t])
  BY <1>3
<1>5. ~(Unit[u][i].n[1] \in {"enum", "enum of"} /\ t = Named(Unit[u][i].n))
  BY <1>2, NamedTag
<1>6. Taken(u, i, t) /\ enumFiles[t].promotion = GetType(Under[t])
  BY <1>2, <1>4, <1>5
<1> QED
  BY <1>4, <1>6 DEF Belongs

\* What belongs to a type and is not what it is an alias of is in front of its definition.
LEMMA TakenDefinition ==
  ASSUME NEW t, NEW u \in DOMAIN Unit, NEW i \in DOMAIN Unit[u], Belongs(u, i, t), Canonical(t) \notin DOMAIN Promotion
  PROVE  Unit[u][i].k = "enum" /\ Unit[u][i].n \notin System /\ Taken(u, i, t) /\ t \in DOMAIN Under
<1>1. Unit[u][i].k = "enum" /\ Unit[u][i].n \notin System /\ (Unit[u][i].n = Canonical(t) \/ Taken(u, i, t))
  BY DEF Belongs
<1>2. Taken(u, i, t)
  BY <1>1, Declared
<1>3. i < Len(Unit[u]) /\ Unit[u][i + 1] = [k |-> "typedef", n |-> t]
  BY <1>2 DEF Taken, Followed
<1>4. i + 1 \in DOMAIN Unit[u]
  BY <1>3, UnitSeq
<1>5. t \in DOMAIN Under
  BY <1>3, <1>4, Declared
<1> QED
  BY <1>1, <1>2, <1>5

\* A type that the fuzzer knows for an enumeration, and that is the name of the type behind a
\* type definition, says that this is an alias of a basic type.
LEMMA TakenBasic ==
  ASSUME NEW t \in DOMAIN Under, HasKind(t), Canonical(t) \notin DOMAIN Promotion,
         GetType(Under[t]) \in DOMAIN PromotionKind \ {<<"", "dependent">>}
  PROVE  Canonical(t) \in BasicTypes /\ GetType(Under[t])[1] \notin NotTaken
<1> DEFINE c == Canonical(t)
           p == GetType(Under[t])
<1>1. p \in BasicTypes /\ p[1] = ""
  BY Kinds, Basics
<1>2. c[1] = ""
  <2>1. CASE p = Named(c)
    BY <1>1, <2>1, NamedTag
  <2>2. CASE Under[t] \in DOMAIN Under /\ p = Under[t]
    BY <1>1, <2>2, Basics, CanonicalNext
  <2> QED BY <2>1, <2>2, LineNamed
<1>3. c \in DOMAIN BuiltIn
  BY <1>2 DEF HasKind
<1> QED
  BY <1>1, <1>3, Kinds DEF NotTaken

LEMMA ValuesAre ==
  ASSUME IInv
  PROVE  ValuesAsDeclared
<1> SUFFICES ASSUME stage = "ready", NEW t \in Modelled, NEW values \in DeclaredValues(t) \ {<<>>},
                    DeclaredValues(t) = {values}, KnownPromotion(t), Clean(t)
             PROVE  Drawn(TrueComplexType(GetType(t))) = Range(values)
  BY DEF ValuesAsDeclared
<1> DEFINE y == NameOf(t)
<1>1. HasKind(t) /\ TrueComplexType(GetType(t)) = y /\ y \in usedTypes
  BY ModelledKnown
<1>2. \A u \in DOMAIN Unit : \A i \in DOMAIN Unit[u] : Belongs(u, i, t) => Unit[u][i].values = values
  BY SMTT(30) DEF DeclaredValues
<1>3. PICK u \in DOMAIN Unit : \E i \in DOMAIN Unit[u] : Belongs(u, i, t)
  BY DEF DeclaredValues
<1>4. PICK i \in DOMAIN Unit[u] : Belongs(u, i, t)
  BY <1>3
<1>5. y \in DOMAIN enumInfo => (enumFiles[y].values = values /\ enumFiles[y].promotion # <<"", "dependent">>
        => Drawn(y) = Range(values))
  BY EnumInfoIs DEF Drawn
<1>6. CASE Canonical(t) \in DOMAIN Promotion
  <2>1. Canonical(t)[1] \in {"enum", "enum of"}
    <3>1. Canonical(t)[1] \in EnumTags
      BY <1>6, Tags
    <3>2. Canonical(t) \notin DOMAIN BuiltIn
      BY <3>1, Kinds, Basics DEF EnumTags
    <3> QED BY <1>1, <3>1, <3>2 DEF HasKind, EnumTags
  <2>2. /\ y \in DOMAIN enumInfo /\ enumFiles[y].promotion = Promotion[Canonical(t)]
        /\ \E v \in DOMAIN Unit : \E j \in DOMAIN Unit[v] : Belongs(v, j, t) /\ enumFiles[y].values = Unit[v][j].values
    BY <1>6, <2>1, EnumRead
  <2>3. enumFiles[y].values = values
    BY <1>2, <2>2
  <2>4. Promotion[Canonical(t)] # <<"", "dependent">>
    BY <1>6 DEF KnownPromotion
  <2> QED BY <1>1, <1>5, <2>2, <2>3, <2>4
<1>7. CASE Canonical(t) \notin DOMAIN Promotion
  <2>1. t \notin FixedWidth /\ GetType(Under[t]) \in DOMAIN PromotionKind \ {<<"", "dependent">>}
    BY <1>7 DEF KnownPromotion
  <2>2. Unit[u][i].k = "enum" /\ Unit[u][i].n \notin System /\ Taken(u, i, t) /\ t \in DOMAIN Under
    BY <1>4, <1>7, TakenDefinition
  <2>3. Canonical(t) \in BasicTypes /\ GetType(Under[t])[1] \notin NotTaken
    BY <1>1, <1>7, <2>1, <2>2, TakenBasic
  <2>4. y = t
    BY <2>1, <2>2, <2>3 DEF NameOf
  <2>5. t \in DOMAIN enumFiles
    BY <2>2, <2>3, TakenDumped
  <2>6. /\ enumFiles[t].promotion = GetType(Under[t])
        /\ \E v \in DOMAIN Unit : \E j \in DOMAIN Unit[v] : Belongs(v, j, t) /\ enumFiles[t].values = Unit[v][j].values
    BY <2>2, <2>5, TakenRead
  <2>7. enumFiles[t].values = values
    BY <1>2, <2>6
  <2>8. t \in DOMAIN enumInfo
    BY <1>1, <2>1, <2>4, <2>5, <2>6, EnumInfoIs
  <2> QED BY <1>1, <1>5, <2>1, <2>4, <2>6, <2>7, <2>8
<1> QED
  BY <1>6, <1>7

\* The values that the fuzzer draws for an enumeration, or for a type definition behind one
\* without a name, are those of its declaration and no other, in whatever order the files
\* were read (enum_type.cpp:35, BinderIface.cpp:2191).
THEOREM ValuesAlways == Spec => []ValuesAsDeclared
BY IInvAlways, ValuesAre, PTL
=============================================================================
