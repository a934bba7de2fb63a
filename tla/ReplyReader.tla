----------------------------- MODULE ReplyReader -----------------------------
(***************************************************************************)
(* What class ParcelReader reads from a reply, and what it copies to the   *)
(* target parcel when a variable depends on the reply: parcel_reader.cpp,  *)
(* with the reading of arrays, blobs, structures and functions, and        *)
(* DependencySolver::solveTxDependency and solveStructDependency.          *)
(*                                                                         *)
(* A variable depends on an item of a reply, or on a member of a structure *)
(* that a reply has.  For the latter the structure is copied to a parcel   *)
(* tmp, and then tmp is read, as the structure, for the member.            *)
(*                                                                         *)
(* A parcel is a sequence of cells.  One is enough for a value; it has a   *)
(* tag, the path to what it is the value of: pairs of a variable and the   *)
(* number of an element of it, or 0.  Tags are for the properties: nothing *)
(* that is read depends on them.  ParcelTraversal has the loops, and       *)
(* ConstraintCache the constraints: here one says that a variable is not 0.*)
(***************************************************************************)
EXTENDS Naturals, SequencesExt

CONSTANTS
  Parcel,     \* of transactions, structures and functions
  Message,    \* of transactions
  kind,       \* kind[p], see Kinds
  table,      \* table[p]: the symbol table
  items,      \* items[p][k]: the reply items of possibility k, indexes into the table
  params,     \* params[p]: the parameters of a function, in its table
  Known,      \* Known[m]: the values that its reader knows since it wrote the data
  Replies,    \* Replies[m][k]: what a service answers
  Word,       \* the number of values of an integer
  MaxArray,   \* MAX_ARRAY_SIZE
  BlobLimit   \* the largest blob that is copied

Kinds == {"transaction", "parcelable", "flattenable", "light", "fixed", "raw", "union", "function"}
Types == {"int8", "int", "flatbool", "string", "utf8", "fd", "binder", "literal", "blob", "array",
          "bytes", "status", "parcel"}

\* of: what a structure or function may be, none if there is no such type, or arguments
\* that initArgv refuses.  by, n: the size is that of a variable, a number, or in the
\* reply (a vector's own); for a status n is mException.  guard: the variable of the
\* under_constraint, or 0.  args: what is passed to a function, 0 for what is ignored.
Variable == [type : Types, of : SUBSET Parcel, by : {"own", "number", "name"}, n : Nat,
             args : Seq(Nat), present : BOOLEAN, guard : Nat]

ReaderAssumption ==
  /\ Message \subseteq Parcel /\ kind \in [Parcel -> Kinds]
  /\ DOMAIN table = Parcel /\ DOMAIN items = Parcel /\ DOMAIN params = Parcel
  /\ \A p \in Parcel :
       /\ \A x \in DOMAIN table[p] : table[p][x] \in Variable
       /\ items[p] \in Seq(Seq(DOMAIN table[p])) /\ items[p] # <<>>
       /\ Range(params[p]) \subseteq DOMAIN table[p]
  /\ \A m \in Message : DOMAIN Known[m] \subseteq DOMAIN table[m] /\ Range(Known[m]) \subseteq 0..Word - 1
  /\ Word \in Nat \ {0, 1} /\ MaxArray \in 1..Word - 1 /\ BlobLimit \in 1..Word - 2

Minus1 == Word - 1

\* What is not an integer.
String16 == Word
CString  == Word + 1
Other    == Word + 2
Cell     == [v : 0..Other, tag : Seq(Nat \X Nat)]
RepliesAssumption ==
  \A m \in Message : Replies[m] \in [DOMAIN items[m] -> SUBSET Seq(Cell)]

VARIABLES
  phase,     \* what is read: a reply, a reply for its structure, or tmp for a member
  goal,      \* the dependency: a variable of a transaction, and perhaps a member of it
  reply, position,
  target,    \* targetParcel
  readers,   \* the active ParcelReaderWriters, innermost last
  exited,    \* exit(0), or a pointer that is null
  answer     \* history: the reply itself

vars == <<phase, goal, reply, position, target, readers, exited, answer>>

All == 0      \* dependIdx == UINT32_MAX

Reader(p, poss, dependIdx, dependency) ==
  [of |-> p, poss |-> poss, idx |-> 1, dependIdx |-> dependIdx, isDependency |-> dependency,
   arrays |-> <<>>, value |-> <<>>]

\* The structures that item x of a parcel has: itself, or the elements of the array.
Structures(p, x) ==
  LET y == IF table[p][x].type = "array" THEN x + 1 ELSE x IN
  IF table[p][y].type = "parcel" THEN {q \in table[p][y].of : kind[q] = "parcelable"} ELSE {}

\* A member is given by its structure, possIdx and varIdx.
Members(q) == UNION {{<<q, l, j>> : j \in DOMAIN items[q][l]} : l \in DOMAIN items[q]}
Goals(m, x) == {[tx |-> m, var |-> x, member |-> d] :
                  d \in {<<>>} \cup UNION {Members(q) : q \in Structures(m, x)}}

Init ==
  /\ \E m \in Message : \E k \in DOMAIN items[m] : \E i \in DOMAIN items[m][k] :
       /\ reply \in Replies[m][k]
       /\ readers = <<[Reader(m, k, i, FALSE) EXCEPT !.value = Known[m]]>>
       /\ goal \in Goals(m, items[m][k][i])
       /\ phase = IF goal.member = <<>> THEN "reply" ELSE "structure"
  /\ position = 0 /\ target = <<>> /\ exited = FALSE /\ answer = reply

-----------------------------------------------------------------------------
Top   == Last(readers)
Array == Last(Top.arrays)
Items(w)  == items[w.of][w.poss]
SetTop(w) == readers' = [readers EXCEPT ![Len(readers)] = w]

\* start() and ArrayType::read turn isDependency on.
IsDependencyItem == Top.isDependency \/ Top.idx = Top.dependIdx
Dependency == IF Top.arrays = <<>> THEN IsDependencyItem
              ELSE Top.isDependency \/ Array.at = Array.chosen
Begun == [Top EXCEPT !.isDependency = Dependency]

\* Of a reply, nothing behind the item is read.
AlreadyRead == IsDependencyItem /\ Top.dependIdx # All /\ Top.idx > Top.dependIdx

Active == ~exited /\ phase # "done"
Ready == /\ Active
         /\ IF Top.arrays = <<>> THEN Top.idx <= Len(Items(Top)) /\ ~AlreadyRead
            ELSE Array.at <= Array.n
Idx   == IF Top.arrays = <<>> THEN Items(Top)[Top.idx] ELSE Array.var + 1
V     == table[Top.of][Idx]

\* Once the element that is depended on has been read, no other is.
Done(w) ==
  IF w.arrays = <<>> THEN [w EXCEPT !.idx = @ + 1]
  ELSE [w EXCEPT !.arrays[Len(w.arrays)].at = IF w.isDependency THEN Last(w.arrays).n + 1 ELSE @ + 1]

Stored(w, x, v) ==
  [w EXCEPT !.value = [y \in DOMAIN @ \cup {x} |-> IF y = x THEN v ELSE @[y]]]

\* A variable that is not known gives a random answer.
Guards == IF V.guard = 0 THEN {TRUE}
          ELSE IF V.guard \in DOMAIN Top.value THEN {Top.value[V.guard] # 0} ELSE BOOLEAN
Item == Ready /\ TRUE \in Guards
SkipItem == /\ Ready /\ FALSE \in Guards /\ SetTop(Done(Begun))
            /\ UNCHANGED <<phase, goal, reply, position, target, exited, answer>>

-----------------------------------------------------------------------------
(* android::Parcel *)

Blank  == [v |-> 0, tag |-> <<<<0, 0>>>>]
Number(c) == IF c.v < Word THEN c.v ELSE 0
At(i)  == IF position + i \in DOMAIN reply THEN reply[position + i] ELSE Blank
Has(from, n)   == position + from + n <= Len(reply)
Slice(from, n) == IF Has(from, n) THEN SubSeq(reply, position + from + 1, position + from + n) ELSE <<>>

\* Behind the end nothing is read, and the position stays.
Advance(n) == position' = Min({position + n, Max({position, Len(reply)})})
Copy(cells) == target' = IF Dependency THEN target \o cells ELSE target
Unchanged == UNCHANGED <<phase, goal, reply, exited, answer>>

-----------------------------------------------------------------------------
(* One value *)

\* Integers, Booleans and numbers of other types: read, stored and copied.
ReadInt ==
  /\ Item /\ V.type = "int"
  /\ SetTop(Done(Stored(Begun, Idx, Number(At(1))))) /\ Advance(1) /\ Copy(<<At(1)>>) /\ Unchanged

ReadIntegerLiteral ==
  /\ Item /\ V.type = "literal"
  /\ SetTop(Done(Begun)) /\ Advance(1) /\ UNCHANGED target /\ Unchanged

\* readString16, readString8, readCString and readFileDescriptor; what is read as UTF-16
\* ("utf8") is copied as a C string.
ReadString ==
  /\ Item /\ V.type \in {"string", "utf8", "fd"}
  /\ SetTop(Done(Begun)) /\ Advance(1)
  /\ Copy(<<IF V.type = "utf8" THEN [At(1) EXCEPT !.v = CString] ELSE At(1)>>) /\ Unchanged

\* "here we should just read one byte": data() is the beginning of the reply.
ReadFlattenableBool ==
  /\ Item /\ V.type = "flatbool"
  /\ LET first == IF reply = <<>> THEN Blank ELSE Head(reply) IN
       SetTop(Done(Stored(Begun, Idx, Number(first)))) /\ Copy(<<first>>)
  /\ position' = position + 1 /\ Unchanged

\* A binder goes to the reader, not to the target; TxEngine has what is done with it.
ReadStrongBinder ==
  /\ Item /\ V.type = "binder"
  /\ SetTop(Done(Begun)) /\ Advance(1) /\ UNCHANGED target /\ Unchanged

\* class android::binder::Status: the exception code, which is not copied.
ReadStatus ==
  /\ Item /\ V.type = "status" /\ V.n # 0
  /\ SetTop(Done(Stored(Begun, V.n, 0))) /\ Advance(1) /\ UNCHANGED target /\ Unchanged

-----------------------------------------------------------------------------
(* Arrays, blobs and raw structures *)

VarSize ==
  CASE V.by = "number" -> V.n
    [] V.by = "own" -> Number(At(1))
    [] V.by = "name" -> IF V.n \in DOMAIN Top.value THEN Top.value[V.n] ELSE Minus1
SizeCells == IF V.by = "own" THEN 1 ELSE 0

Bounded(n) == Min({n, MaxArray})

\* Mutant: a vector's size is not read.
ReadArrayUnsized ==
  /\ Item /\ V.type = "array"
  /\ \E chosen \in IF Dependency THEN 1..Bounded(VarSize) \cup {0} ELSE {0} :
       /\ Dependency /\ VarSize > 0 => chosen # 0
       /\ SetTop([Begun EXCEPT !.isDependency = FALSE,
                    !.arrays = Append(@, [var |-> Idx, n |-> Bounded(VarSize), at |-> 1, chosen |-> chosen])])
  /\ UNCHANGED <<position, target>> /\ Unchanged

\* Of an array that is depended on, one element is; in front of it isDependency is off.
ReadArray ==
  /\ Item /\ V.type = "array"
  /\ \E chosen \in IF Dependency THEN 1..Bounded(VarSize) \cup {0} ELSE {0} :
       /\ Dependency /\ VarSize > 0 => chosen # 0
       /\ SetTop([Begun EXCEPT !.isDependency = FALSE,
                    !.arrays = Append(@, [var |-> Idx, n |-> Bounded(VarSize), at |-> 1, chosen |-> chosen])])
  /\ Advance(SizeCells) /\ UNCHANGED target /\ Unchanged

LeaveArray ==
  /\ Active /\ Top.arrays # <<>> /\ Array.at > Array.n
  /\ SetTop(Done([Top EXCEPT !.arrays = Front(@)])) /\ UNCHANGED <<position, target>> /\ Unchanged

\* What cannot be read as a whole is zeros.
Bytes(n) == IF Has(0, n) THEN Slice(0, n) ELSE [i \in 1..n |-> Blank]

\* readByteVector: all bytes; their number is not copied.
ReadByteVector ==
  /\ Item /\ V.type = "bytes" /\ V.by = "own"
  /\ SetTop(Done(Begun)) /\ Advance(1 + Len(Slice(1, VarSize))) /\ Copy(Slice(1, VarSize)) /\ Unchanged

ReadBytes ==
  /\ Item /\ V.type = "bytes" /\ V.by # "own"
  /\ LET n == Bounded(VarSize) IN Advance(Len(Slice(0, n))) /\ Copy(Bytes(n))
  /\ SetTop(Done(Begun)) /\ Unchanged

OfKind(kinds) == V.type = "parcel" /\ V.of # {} /\ \A q \in V.of : kind[q] \in kinds

ReadRawStructure ==
  /\ Item /\ OfKind({"raw"}) /\ VarSize # Minus1
  /\ Advance(Len(Slice(0, VarSize))) /\ Copy(Bytes(VarSize))
  /\ SetTop(Done(Begun)) /\ Unchanged

\* The type of a blob is read by readBlob, and not copied.
ReadBlob ==
  /\ Item /\ V.type = "blob"
  /\ Dependency => VarSize <= BlobLimit /\ Has(1, VarSize)
  /\ Advance(1 + Len(Slice(1, VarSize))) /\ Copy(Slice(1, VarSize))
  /\ SetTop(Done(Begun)) /\ Unchanged

-----------------------------------------------------------------------------
(* Structures and functions *)

\* The buffer and the descriptors are copied with their numbers.
FlatSize == Number(At(1))
ReadFlattenable ==
  /\ Item /\ OfKind({"flattenable"})
  /\ Dependency => Has(2, FlatSize)
  /\ LET content == Slice(2, FlatSize)
         fds == Slice(2 + Len(content), Number(At(2)))
     IN /\ Advance(2 + Len(content) + Len(fds)) /\ Copy(<<At(1), At(2)>> \o content \o fds)
  /\ SetTop(Done(Begun)) /\ Unchanged

\* A structure's reader reads its last possibility, and copies all or nothing.
Call(child, header) ==
  /\ readers' = Append([readers EXCEPT ![Len(readers)] = Begun], child)
  /\ Advance(header) /\ UNCHANGED target /\ Unchanged
Whole(q) == Reader(q, Len(items[q]), All, Dependency)

ReadParcelable ==
  /\ Item /\ OfKind({"parcelable"})
  /\ \E q \in V.of : Call(Whole(q), IF V.present THEN 1 ELSE 0)

ReadLightFlattenable ==
  /\ Item /\ OfKind({"light", "fixed"})
  /\ \E q \in V.of : Call(Whole(q), IF kind[q] = "light" THEN 1 ELSE 0)

\* Mutant: the function's reader is not told that it is depended on.
ReadFunctionAlone ==
  /\ Item /\ OfKind({"function"})
  /\ \E q \in V.of :
       LET Param(y) == CHOOSE i \in DOMAIN V.args : params[q][i] = y
           passed == {params[q][i] : i \in {j \in DOMAIN V.args : V.args[j] # 0}}
           Arg(y) == LET x == V.args[Param(y)] IN IF x \in DOMAIN Top.value THEN Top.value[x] ELSE Minus1
       IN Call([Reader(q, Len(items[q]), All, FALSE) EXCEPT !.value = [y \in passed |-> Arg(y)]], 0)

ReadFunction ==
  /\ Item /\ OfKind({"function"})
  /\ \E q \in V.of :
       LET Param(y) == CHOOSE i \in DOMAIN V.args : params[q][i] = y
           passed == {params[q][i] : i \in {j \in DOMAIN V.args : V.args[j] # 0}}
           Arg(y) == LET x == V.args[Param(y)] IN IF x \in DOMAIN Top.value THEN Top.value[x] ELSE Minus1
       IN Call([Whole(q) EXCEPT !.value = [y \in passed |-> Arg(y)]], 0)

-----------------------------------------------------------------------------
(* The end of a reader, and of a parcel *)

Ended == Active /\ Top.arrays = <<>> /\ (Top.idx > Len(Items(Top)) \/ AlreadyRead)

LeaveStructure ==
  /\ Ended /\ Len(readers) > 1
  /\ LET rest == Front(readers) IN readers' = [rest EXCEPT ![Len(rest)] = Done(@)]
  /\ UNCHANGED <<position, target>> /\ Unchanged

\* Mutant: tmp is read from where it was written.
ReadTmpFromEnd ==
  /\ Ended /\ Len(readers) = 1 /\ phase = "structure"
  /\ phase' = "member" /\ reply' = target /\ position' = Len(target) /\ target' = <<>>
  /\ readers' = <<Reader(goal.member[1], goal.member[2], goal.member[3], FALSE)>>
  /\ UNCHANGED <<goal, exited, answer>>

\* solveStructDependency: tmp has the structure; its member is what is depended on.
ReadTmp ==
  /\ Ended /\ Len(readers) = 1 /\ phase = "structure"
  /\ phase' = "member" /\ reply' = target /\ position' = 0 /\ target' = <<>>
  /\ readers' = <<Reader(goal.member[1], goal.member[2], goal.member[3], FALSE)>>
  /\ UNCHANGED <<goal, exited, answer>>

Solved ==
  /\ Ended /\ Len(readers) = 1 /\ phase \in {"reply", "member"} /\ phase' = "done"
  /\ UNCHANGED <<goal, reply, position, target, readers, exited, answer>>

\* What no reader is prepared for, or is read behind the end and used.
Refused ==
  \/ V.type = "int8"
  \/ V.type = "status" /\ V.n = 0
  \/ V.type = "parcel" /\ (V.of = {} \/ OfKind({"union"}))
  \/ OfKind({"raw"}) /\ VarSize = Minus1
  \/ V.type = "blob" /\ Dependency /\ (VarSize > BlobLimit \/ ~Has(1, VarSize))
  \/ OfKind({"flattenable"}) /\ Dependency /\ ~Has(2, FlatSize)
Exit == Item /\ Refused /\ exited' = TRUE
        /\ UNCHANGED <<phase, goal, reply, position, target, readers, answer>>

Next ==
  \/ SkipItem \/ ReadInt \/ ReadIntegerLiteral \/ ReadString \/ ReadFlattenableBool
  \/ ReadStrongBinder \/ ReadStatus \/ ReadArray \/ LeaveArray \/ ReadByteVector \/ ReadBytes
  \/ ReadRawStructure \/ ReadBlob \/ ReadFlattenable \/ ReadParcelable \/ ReadLightFlattenable
  \/ ReadFunction \/ LeaveStructure \/ ReadTmp \/ Solved \/ Exit

Spec == Init /\ [][Next]_vars

-----------------------------------------------------------------------------
\* What a reader is at: a variable, or elements of arrays.
Steps(w) == IF w.arrays = <<>> THEN <<<<Items(w)[w.idx], 0>>>>
            ELSE [k \in DOMAIN w.arrays |-> <<w.arrays[k].var, w.arrays[k].at>>]
Path == FlattenSeq([k \in DOMAIN readers |-> Steps(readers[k])])
Of(path, cells) == SelectSeq(cells, LAMBDA c : IsPrefix(path, c.tag))

\* Of an array that is larger than MAX_ARRAY_SIZE the rest is not read (array_type.cpp:207),
\* and of a function that may be one of several, one is chosen.
Oversized == \E i \in DOMAIN answer : \E k \in DOMAIN answer[i].tag : answer[i].tag[k][2] > MaxArray
Guessed   == \E x \in DOMAIN table[goal.tx] : Cardinality(table[goal.tx][x].of) > 1
Regular   == ~Oversized /\ ~Guessed

\* A reader is in step with the service: when it comes to an item, or to an element, of
\* which the reply has something, that is what is read next (parcel_reader.cpp:278).
InStep ==
  Ready /\ phase \in {"reply", "structure"} /\ Regular /\ Of(Path, reply) # <<>>
    => position < Len(reply) /\ IsPrefix(Path, reply[position + 1].tag)

\* What the code copies with all that a reader of the copy has to see.
Plain(v) ==
  \/ v.type \in {"int", "string", "fd"}
  \/ v.type = "bytes" /\ v.by # "own"
  \/ v.type = "parcel" /\ v.of # {} /\ \A q \in v.of : kind[q] \in {"raw", "flattenable"}

\* Nor may it depend on a constraint that the reader can only guess.
Seen(q) == Range(Last(items[q])) \cup Range(params[q])
RECURSIVE CopiedWhole(_, _)
CopiedWhole(v, seen) ==
  /\ v.guard \in seen \cup {0}
  /\ \/ Plain(v)
     \/ /\ v.type = "parcel" /\ v.of # {} /\ ~v.present
        /\ \A q \in v.of : /\ kind[q] \in {"parcelable", "fixed", "function"}
                           /\ \A y \in Range(Last(items[q])) : CopiedWhole(table[q][y], Seen(q))

\* The item that is depended on, or one element of it if it is an array.
Element(p, x) == table[p][IF table[p][x].type = "array" THEN x + 1 ELSE x]
Asked == LET x == goal.var IN
  {path \in IF table[goal.tx][x].type = "array" THEN {<<<<x, i>>>> : i \in 1..MaxArray} ELSE {<<<<x, 0>>>>} :
     Of(path, answer) # <<>>}

\* When a reply has been read for an item, the target has what the reply has of the item,
\* and nothing else (parcel_reader_writer.cpp:99-100, "we should only read the item at the
\* dependIdx").
TargetIsItem ==
  phase = "done" /\ goal.member = <<>> /\ Regular
    => IF Asked = {} THEN target = <<>> ELSE \E path \in Asked : target = Of(path, answer)
ItemCopied == CopiedWhole(Element(goal.tx, goal.var), Range(Last(items[goal.tx])) \cup DOMAIN Known[goal.tx]) => TargetIsItem

\* When it has been read for a member of a structure, by way of tmp, the target has what
\* the reply has of the member.
TargetIsMember ==
  phase = "done" /\ goal.member # <<>> /\ Regular
    => \E path \in Asked : LET q == goal.member[1]
                               y == items[q][goal.member[2]][goal.member[3]]
                           IN target = Of(path \o <<<<y, 0>>>>, answer)
MemberCopied ==
  (goal.member # <<>> => LET q == goal.member[1] IN
     /\ goal.member[2] = Len(items[q]) /\ Asked # {}
     /\ \A y \in Range(Last(items[q])) : CopiedWhole(table[q][y], Seen(q)))
  => TargetIsMember

-----------------------------------------------------------------------------
(* What comments say, and is not so *)

\* A light flattenable structure is copied as it is in the reply (structure_type.cpp:87-88,
\* "read structure from tx->reply, write it to target parcel when solving dependency").
LightCopied ==
  (table[goal.tx][goal.var].type = "parcel" /\ \A q \in table[goal.tx][goal.var].of : kind[q] = "light")
    => TargetIsItem

\* A member is what the structure in the reply has (dependency_solver.cpp:52, 56, "read
\* target structure to tmp parcel", "read target structure item").
MemberRead == Asked # {} => TargetIsMember
=============================================================================
