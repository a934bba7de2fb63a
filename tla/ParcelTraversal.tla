-------------------------- MODULE ParcelTraversal --------------------------
(***************************************************************************)
(* How class ParcelReaderWriter walks through a parcel: start,             *)
(* readWriteFrom and readWriteRange of parcel_reader_writer.cpp, with the  *)
(* reading of arrays (array_type.cpp) and of nested structures             *)
(* (structure_type.cpp), for which a reader of their own is created.       *)
(*                                                                         *)
(* A parcel is written item by item, or a reply is read item by item; the  *)
(* items of a loop are repeated as long as its constraint holds.  When a   *)
(* reply is read for a dependency, the item at dependIdx is copied to the  *)
(* target parcel.  The C++ call stack is the variable readers, and within  *)
(* each reader its frames: the loops and the array that it is in.          *)
(*                                                                         *)
(* Whether a constraint holds, and how long an array is, is a choice here; *)
(* ConstraintCache has the constraints.                                    *)
(***************************************************************************)
EXTENDS Naturals, Sequences

CONSTANTS
  Parcel,     \* the parcels: of transactions and of structures
  Message,    \* those that a transaction, or the solving of a dependency, starts with
  Loop,       \* names of loops
  items,      \* items[p]: the items of parcel p
  NoParcel,   \* not a parcel
  MaxLoop,    \* a loop is left after more iterations than this (65537)
  MaxArray    \* MAX_ARRAY_SIZE (65537)

\* loops are given from the outermost inwards; a structure's members are in of.
Item == [loops : Seq(Loop), array : BOOLEAN, of : Parcel \cup {NoParcel}]

LoopsOf(p, i) == {items[p][i].loops[k] : k \in DOMAIN items[p][i].loops}
InLoop(p, l) == {i \in DOMAIN items[p] : l \in LoopsOf(p, i)}

ASSUME ParcelAssumption ==
  /\ Message \subseteq Parcel /\ NoParcel \notin Parcel
  /\ items \in [Parcel -> Seq(Item)]
  /\ MaxLoop \in Nat /\ MaxArray \in Nat \ {0}

\* The items of a loop are adjacent, and loops are properly nested.
ASSUME LoopAssumption ==
  \A p \in Parcel : \A l \in Loop : \A i, j \in InLoop(p, l) :
    /\ i..j \subseteq InLoop(p, l)
    /\ \E k \in DOMAIN items[p][i].loops \cap DOMAIN items[p][j].loops :
         /\ items[p][i].loops[k] = l /\ items[p][j].loops[k] = l
         /\ \A m \in 1..k : items[p][i].loops[m] = items[p][j].loops[m]

VARIABLES
  operation,  \* WRITE_DATA or READ_REPLY
  readers     \* the active readers, innermost last

vars == <<operation, readers>>

All == 0      \* dependIdx == UINT32_MAX

\* Within a reader: a loop in progress, with the current item (or Check, when
\* its constraint is about to be checked), or an array with the current element.
Check == 0
RangeFrame == [kind : {"range"}, begin : Nat, end : Nat, loop : Loop, at : Nat, count : Nat]
ArrayFrame == [kind : {"array"}, size : 0..MaxArray, chosen : 0..MaxArray, at : Nat, count : Nat]

Reader(p, dependIdx, dependency) ==
  [parcel |-> p, idx |-> 1, dependIdx |-> dependIdx, isDependency |-> dependency,
   frames |-> <<>>, loopVisit |-> {},
   \* history: how it was created, the item dealt with last, the items read, the
   \* items copied to the target, and whether an array was found empty
   whole |-> dependency, last |-> 0, seen |-> {}, put |-> {}, empty |-> FALSE]

Init ==
  \E p \in Message :
    \/ operation = "write" /\ readers = <<Reader(p, All, FALSE)>>
    \/ /\ operation = "read"
       /\ \E dependIdx \in DOMAIN items[p] : readers = <<Reader(p, dependIdx, FALSE)>>

-----------------------------------------------------------------------------
R == readers[Len(readers)]
SetR(r) == readers' = [readers EXCEPT ![Len(readers)] = r]

F == R.frames[Len(R.frames)]
InStart == R.frames = <<>>
InRange == R.frames # <<>> /\ F.kind = "range"
InArray == R.frames # <<>> /\ F.kind = "array"

PopFrame(r) == [r EXCEPT !.frames = SubSeq(@, 1, Len(@) - 1)]
SetFrame(r, f) == [r EXCEPT !.frames[Len(r.frames)] = f]
PushFrame(r, f) == [r EXCEPT !.frames = Append(@, f)]

\* isDependencyItem: once an item is the dependency, the following ones are too.
IsDependencyItem == R.idx = R.dependIdx \/ R.isDependency

\* Mutant: one item too late.
AlreadyReadLate == R.isDependency /\ R.dependIdx # All /\ R.idx > R.dependIdx + 1

\* "Dependent item has already been read": start goes out of its loop.
AlreadyRead == IsDependencyItem /\ R.dependIdx # All /\ R.idx > R.dependIdx

Position == IF InStart THEN R.idx ELSE F.at

\* readWriteFrom(Position) is about to be called.
AtItem ==
  /\ readers # <<>>
  /\ \/ InStart /\ R.idx \in DOMAIN items[R.parcel] /\ ~AlreadyRead
     \/ InRange /\ F.at \in F.begin..(F.end - 1)

Current == IF InStart THEN [R EXCEPT !.isDependency = IsDependencyItem] ELSE R

TheItem == items[R.parcel][Position]

\* getValidLoopIdxOf: the outermost loop of the item that is not being visited.
Unvisited(i) == {k \in DOMAIN items[R.parcel][i].loops :
                   items[R.parcel][i].loops[k] \notin R.loopVisit}
HasValidLoop(i) == Unvisited(i) # {}
ValidLoop(i) ==
  items[R.parcel][i].loops[CHOOSE k \in Unvisited(i) : \A m \in Unvisited(i) : k <= m]

\* readWriteFrom returns n to start, or to the loop of readWriteRange, which
\* does not look at n and goes on with the next item.
Returned(r, n) ==
  IF r.frames = <<>> THEN [r EXCEPT !.idx = @ + n]
  ELSE [r EXCEPT !.frames[Len(r.frames)].at = @ + 1]

\* The item is a value, and is copied if it is the dependency.
Value(r, i) ==
  [r EXCEPT !.seen = @ \cup {i},
            !.put = IF r.isDependency THEN @ \cup {i} ELSE @]

-----------------------------------------------------------------------------
(* readWriteFrom and readWriteRange *)

EnterLoop ==
  /\ AtItem /\ HasValidLoop(Position)
  /\ LET l == ValidLoop(Position)
         after == {j \in Position..Len(items[R.parcel]) :
                     ~(HasValidLoop(j) /\ ValidLoop(j) = l)}
         end == IF after = {} THEN Len(items[R.parcel]) + 1
                ELSE CHOOSE j \in after : \A k \in after : j <= k
     IN SetR(PushFrame([Current EXCEPT !.loopVisit = @ \cup {l}],
                       [kind |-> "range", begin |-> Position, end |-> end,
                        loop |-> l, at |-> Check, count |-> 0]))
  /\ UNCHANGED operation

\* The constraint of the loop holds.
Iterate ==
  /\ readers # <<>> /\ InRange /\ F.at = Check
  /\ SetR(SetFrame(R, [F EXCEPT !.at = F.begin]))
  /\ UNCHANGED operation

\* Mutants: one item is counted for the loop; the end itself is returned.
LeaveOne == Returned(PopFrame([R EXCEPT !.loopVisit = @ \ {F.loop}]), 1)
Leave == Returned(PopFrame([R EXCEPT !.loopVisit = @ \ {F.loop}]), F.end - F.begin)

\* It does not.
LeaveLoop ==
  /\ readers # <<>> /\ InRange /\ F.at = Check
  /\ SetR(Leave)
  /\ UNCHANGED operation

\* The counter is increased; a loop that is too big is left.
NextIteration ==
  /\ readers # <<>> /\ InRange /\ F.at >= F.end
  /\ SetR(IF F.count + 1 > MaxLoop THEN Leave
          ELSE SetFrame(R, [F EXCEPT !.at = Check, !.count = @ + 1]))
  /\ UNCHANGED operation

-----------------------------------------------------------------------------
(* readWriteItem *)

Visited == [Current EXCEPT !.last = Position]
ReadItem == AtItem /\ ~HasValidLoop(Position) /\ UNCHANGED operation

\* checkUnderConstraint fails.
SkipItem ==
  /\ ReadItem
  /\ SetR(Returned(Visited, 1))

PlainItem ==
  /\ ReadItem /\ ~TheItem.array /\ TheItem.of = NoParcel
  /\ SetR(Returned(Value(Visited, Position), 1))

\* A reader of its own; when the structure is the dependency, all its items are.
Nested(r, p) ==
  readers' = Append([readers EXCEPT ![Len(readers)] = r],
                    Reader(p, All, r.isDependency))

StructItem ==
  /\ ReadItem /\ ~TheItem.array /\ TheItem.of # NoParcel
  /\ Nested([Visited EXCEPT !.seen = @ \cup {Position}], TheItem.of)

\* The dependency is one element of the array: the reader's own dependency is
\* switched off until that element is reached.
ArrayItem ==
  /\ ReadItem /\ TheItem.array
  /\ \E size \in 0..MaxArray : \E chosen \in 0..size :
       /\ chosen = 0 <=> ~(Visited.isDependency /\ size > 0)
       /\ SetR(PushFrame([Visited EXCEPT !.seen = @ \cup {Position}, !.empty = @ \/ size = 0,
                                         !.isDependency = FALSE],
                         [kind |-> "array", size |-> size, chosen |-> chosen,
                          at |-> 1, count |-> 0]))

\* Mutant: the dependency stays switched off.
RecoveredNever == R

\* "This the target dependency array item. Recover depdendency."
Recovered == IF F.at = F.chosen THEN [R EXCEPT !.isDependency = TRUE] ELSE R

\* The array is left when the dependency has been read.
ElementDone(r) ==
  IF r.isDependency THEN Returned(PopFrame(r), 1)
  ELSE [r EXCEPT !.frames[Len(r.frames)].at = @ + 1]

ReadElement == readers # <<>> /\ InArray /\ F.at <= F.size /\ UNCHANGED operation
TheArray == items[R.parcel][R.last]

SkipElement ==
  /\ ReadElement
  /\ SetR(ElementDone(Recovered))

PlainElement ==
  /\ ReadElement /\ TheArray.of = NoParcel
  /\ SetR(ElementDone(Value(Recovered, R.last)))

StructElement ==
  /\ ReadElement /\ TheArray.of # NoParcel
  /\ Nested(Recovered, TheArray.of)

LeaveArray ==
  /\ readers # <<>> /\ InArray /\ F.at > F.size
  /\ SetR(Returned(PopFrame(R), 1))
  /\ UNCHANGED operation

\* The reader has finished; the one that created it goes on.
Return ==
  /\ readers # <<>> /\ InStart
  /\ R.idx > Len(items[R.parcel]) \/ AlreadyRead
  /\ LET n == Len(readers) - 1 IN
     IF n = 0 THEN readers' = <<>>
     ELSE LET parent == readers[n]
              r == [parent EXCEPT !.put = IF R.put # {} THEN @ \cup {parent.last} ELSE @]
          IN readers' = Append(SubSeq(readers, 1, n - 1),
               IF r.frames # <<>> /\ r.frames[Len(r.frames)].kind = "array"
               THEN ElementDone(r) ELSE Returned(r, 1))
  /\ UNCHANGED operation

-----------------------------------------------------------------------------
Next ==
  \/ EnterLoop \/ Iterate \/ LeaveLoop \/ NextIteration
  \/ SkipItem \/ PlainItem \/ StructItem \/ ArrayItem
  \/ SkipElement \/ PlainElement \/ StructElement \/ LeaveArray
  \/ Return

Spec == Init /\ [][Next]_vars

-----------------------------------------------------------------------------
(* Properties *)

ReaderOK(r) ==
  /\ r.parcel \in Parcel
  /\ r.idx \in 1..(Len(items[r.parcel]) + 1)
  /\ r.dependIdx \in Nat /\ {r.isDependency, r.whole, r.empty} \subseteq BOOLEAN
  /\ r.frames \in Seq(RangeFrame \cup ArrayFrame)
  /\ r.loopVisit \subseteq Loop
  /\ r.last \in Nat /\ r.put \subseteq r.seen /\ r.seen \subseteq DOMAIN items[r.parcel]

TypeOK ==
  /\ operation \in {"write", "read"}
  /\ \A i \in DOMAIN readers : ReaderOK(readers[i])

\* Which item may follow which in a program with these loops: items are passed
\* over only when they are in a loop (without the item before and the one
\* after) that is not entered, and a jump back goes to the start of a loop.
PassedOver(p, S, i) == \A k \in S : \E l \in LoopsOf(p, k) : i \notin InLoop(p, l)

Follows(p, i, j) ==
  \/ /\ i < j
     /\ PassedOver(p, (i + 1)..(j - 1), i) /\ PassedOver(p, (i + 1)..(j - 1), j)
  \/ \E l \in Loop :
       /\ {i, j} \subseteq InLoop(p, l)
       /\ PassedOver(p, {k \in InLoop(p, l) : k > i}, i)
       /\ PassedOver(p, {k \in InLoop(p, l) : k < j}, j)

\* A loop inside a loop has one item.
SimpleNests(p) ==
  \A i \in DOMAIN items[p] : \A k \in 2..Len(items[p][i].loops) :
    InLoop(p, items[p][i].loops[k]) = {i}

\* The items are written, or read, in an order in which the program with these
\* loops does it, as long as every inner loop has one item.
InSourceOrder ==
  AtItem /\ ~HasValidLoop(Position) /\ SimpleNests(R.parcel) =>
    Follows(R.parcel, R.last, Position)

\* Only the item that is depended on is copied, and nothing after it is read.
OnlyDependency(r) == r.put \subseteq {r.dependIdx} /\ r.seen \subseteq 1..r.dependIdx

\* Through arrays and nested structures, nothing but the item that is depended
\* on gets into the target parcel, and the reading stops after it, when the
\* item is outside of loops and no array was empty.
DependencyExact ==
  \A i \in DOMAIN readers :
    LET r == readers[i] IN
    r.dependIdx # All /\ LoopsOf(r.parcel, r.dependIdx) = {} /\ ~r.empty => OnlyDependency(r)

Plain(p) == {i \in DOMAIN items[p] : ~items[p][i].array /\ items[p][i].of = NoParcel}

\* A structure that is the dependency is copied with all its values: also those
\* that follow an array, unless an array was empty.
StructureCopied ==
  \A i \in DOMAIN readers :
    LET r == readers[i] IN
    r.whole /\ ~r.empty => r.seen \cap Plain(r.parcel) \subseteq r.put

=============================================================================
