------------------------------ MODULE SizeMap ------------------------------
(***************************************************************************)
(* CSizeMap: the tables that give every request a size class.  They are     *)
(* filled once, by whichever thread calls GetInstance first; each action    *)
(* is one turn of a loop of Init.  The constants are those of the build     *)
(* (ft_sizemap.h), so this is the instance every other part runs on.        *)
(***************************************************************************)
EXTENDS Integers, FiniteSetsExt, SequencesExt

CONSTANT Threads

kMinAlign == 8
kBaseClasses == 16
kPageShift == 16
kNumClasses == kBaseClasses + 73
kPageSize == 2 ^ kPageShift
kMaxSize == 256 * 1024
kAlignment == 8
kMaxSmallSize == 1024
kClassArraySize == ((kMaxSize + 127 + 120 * 128) \div 128) + 1
transfer_num_objects == kPageSize \div 8

VARIABLES
  bInit,
  pc,                 \* per thread: outside, asking, one of Init's loops, ready
  sc, size,           \* locals of Init's first loop
  cl, next_size,      \* locals of its other loops
  class_to_size, class_to_pages, class_array, num_objects_to_move

localVars == << sc, size, cl, next_size >>
vars == << bInit, pc, localVars, class_to_size, class_to_pages, class_array,
           num_objects_to_move >>

-----------------------------------------------------------------------------
(* One turn of LgFloor's loop: the upper half of the bits, if there are any. *)
LgTurn(r, i) ==
  LET x == r.n \div 2 ^ (2 ^ i)
  IN  IF x = 0 THEN r ELSE [n |-> x, log |-> r.log + 2 ^ i]

LgFloor(n) == FoldLeft(LgTurn, [n |-> n, log |-> 0], << 4, 3, 2, 1, 0 >>).log

AlignmentCoarse(n) ==              \* mutant: a quarter of the power of two
  IF n >= 128 THEN 2 ^ LgFloor(n) \div 4 ELSE kMinAlign

AlignmentForSize(n) ==
  LET alignment == CASE n > kMaxSize -> kPageSize
                     [] n <= kMaxSize /\ n >= 128 -> 2 ^ LgFloor(n) \div 8
                     [] OTHER -> kMinAlign
  IN  IF alignment > kPageSize THEN kPageSize ELSE alignment

NumMoveSize(n) ==
  LET num == (64 * 1024) \div n
  IN  IF num < 2 THEN 2
      ELSE IF num > transfer_num_objects THEN transfer_num_objects ELSE num

ClassIndexRoundDown(s) ==          \* mutant: the larger sizes are not rounded up
  IF s <= kMaxSmallSize THEN (s + 7) \div 8 ELSE (s + 120 * 128) \div 128

ClassIndex(s) ==
  IF s <= kMaxSmallSize THEN (s + 7) \div 8 ELSE (s + 127 + 120 * 128) \div 128

SizeClass(s) == class_array[ClassIndex(s)]

(* The first number of pages that wastes at most an eighth of itself and
   holds as many objects as are moved at once.  Both loops of the code add a
   page until they have it. *)
MyPages(n) ==
  Min({p \in 1 .. 8 : /\ (p * kPageSize) % n <= (p * kPageSize) \div 8
                      /\ (p * kPageSize) \div n >= NumMoveSize(n) \div 4})

Mergeable(pages) ==                \* the size fits the previous class's cut
  /\ sc > 1 /\ pages = class_to_pages[sc - 1]
  /\ (pages * kPageSize) \div size
       = (class_to_pages[sc - 1] * kPageSize) \div class_to_size[sc - 1]

-----------------------------------------------------------------------------
Init ==
  /\ bInit = FALSE
  /\ pc = [t \in Threads |-> "outside"]
  /\ sc = 0 /\ size = 0 /\ cl = 0 /\ next_size = 0
  /\ class_to_size = [c \in 0 .. kNumClasses - 1 |-> 0]
  /\ class_to_pages = [c \in 0 .. kNumClasses - 1 |-> 0]
  /\ class_array = [i \in 0 .. kClassArraySize - 1 |-> 0]
  /\ num_objects_to_move = [c \in 0 .. kNumClasses - 1 |-> 0]

Goto(t, place) == pc' = [pc EXCEPT ![t] = place]

tables == << class_to_size, class_to_pages, class_array, num_objects_to_move >>

(* GetInstance sets bInit before it calls Init: it returns at once to a
   second thread.  (That two threads may both find it FALSE is not modelled:
   the locals of a second Init.) *)
GetInstance(t) ==
  /\ pc[t] = "outside"
  /\ IF bInit
     THEN Goto(t, "ready") /\ UNCHANGED << bInit, localVars >>
     ELSE /\ Goto(t, "classes") /\ bInit' = TRUE
          /\ sc' = 1 /\ size' = kAlignment
          /\ UNCHANGED << cl, next_size >>
  /\ UNCHANGED tables

MergeIntoPrevious ==
  /\ class_to_size' = [class_to_size EXCEPT ![sc - 1] = size]
  /\ UNCHANGED << sc, class_to_pages >>

AddNewClass(pages) ==
  /\ class_to_pages' = [class_to_pages EXCEPT ![sc] = pages]
  /\ class_to_size' = [class_to_size EXCEPT ![sc] = size]
  /\ sc' = sc + 1

ComputeClass(t) ==
  /\ pc[t] = "classes" /\ size <= kMaxSize
  /\ \E pages \in {MyPages(size)} :
       \/ Mergeable(pages) /\ MergeIntoPrevious
       \/ ~ Mergeable(pages) /\ AddNewClass(pages)
  /\ size' = size + AlignmentForSize(size)
  /\ UNCHANGED << bInit, pc, cl, next_size, class_array, num_objects_to_move >>

ClassesDone(t) ==
  /\ pc[t] = "classes" /\ size > kMaxSize
  /\ Goto(t, "map") /\ cl' = 1 /\ next_size' = 0
  /\ UNCHANGED << bInit, sc, size, tables >>

(* The indexes of the sizes from next_size up to the class's own. *)
IndexesOfClass(c, from) ==
  {ClassIndex(kAlignment * k) : k \in (from \div kAlignment) .. (class_to_size[c] \div kAlignment)}

MapClass(t) ==
  /\ pc[t] = "map" /\ cl < kNumClasses
  /\ \E indexes \in {IndexesOfClass(cl, next_size)} :
       class_array' = [i \in DOMAIN class_array |->
                         IF i \in indexes THEN cl ELSE class_array[i]]
  /\ next_size' = class_to_size[cl] + kAlignment
  /\ cl' = cl + 1
  /\ UNCHANGED << bInit, pc, sc, size, class_to_size, class_to_pages, num_objects_to_move >>

MapDone(t) ==
  /\ pc[t] = "map" /\ cl = kNumClasses
  /\ Goto(t, "moves") /\ cl' = 1
  /\ UNCHANGED << bInit, sc, size, next_size, tables >>

CountMoves(t) ==
  /\ pc[t] = "moves" /\ cl < kNumClasses
  /\ num_objects_to_move' = [num_objects_to_move EXCEPT
       ![cl] = (class_to_pages[cl] * kPageSize) \div class_to_size[cl]]
  /\ cl' = cl + 1
  /\ UNCHANGED << bInit, pc, sc, size, next_size, class_to_size, class_to_pages, class_array >>

ReturnInstance(t) ==
  /\ pc[t] = "moves" /\ cl = kNumClasses
  /\ Goto(t, "ready")
  /\ UNCHANGED << bInit, localVars, tables >>

Next ==
  \E t \in Threads :
    \/ GetInstance(t) \/ ComputeClass(t) \/ ClassesDone(t)
    \/ MapClass(t) \/ MapDone(t) \/ CountMoves(t) \/ ReturnInstance(t)

Spec == Init /\ [][Next]_vars

-----------------------------------------------------------------------------
(* Every table holds what its type in the code can, and no loop has written
   past the end of an array: sc is the next index to write. *)
SizeMapTypeOK ==
  /\ bInit \in BOOLEAN
  /\ pc \in [Threads -> {"outside", "classes", "map", "moves", "ready"}]
  /\ sc \in 0 .. kNumClasses /\ cl \in 0 .. kNumClasses
  /\ size \in 0 .. kMaxSize + kPageSize /\ next_size \in 0 .. kMaxSize + kAlignment
  /\ class_to_size \in [0 .. kNumClasses - 1 -> 0 .. kMaxSize]
  /\ class_to_pages \in [0 .. kNumClasses - 1 -> 0 .. 8]
  /\ class_array \in [0 .. kClassArraySize - 1 -> 0 .. kNumClasses - 1]
  /\ num_objects_to_move \in [0 .. kNumClasses - 1 -> 0 .. kPageSize]

(* The loop over sizes makes exactly kNumClasses classes, what the empty
   "if (sc != kNumClasses)" was meant to check: with fewer, CountMoves divides
   by a class size of 0; with more, the tables overflow. *)
ClassesFit ==
  \A t \in Threads : pc[t] \in {"map", "moves"} => /\ sc = kNumClasses
                                                 /\ class_to_size[sc - 1] = kMaxSize

(* A size class serves s: it is the first whose objects are at least s bytes
   (SizeClass and class_to_size, as Malloc uses them). *)
Serves(c, s) ==
  /\ c \in 1 .. kNumClasses - 1
  /\ s <= class_to_size[c]
  /\ c > 1 => class_to_size[c - 1] < s

(* GetInstance gives the map to a thread. *)
Returns(t) == pc[t] # "ready" /\ pc'[t] = "ready"

LittleLeftOver(s) ==
  \E waste \in {class_to_size[SizeClass(s)] - s} : waste < kAlignment \/ 4 * waste < s

AllServed == \A s \in 1 .. kMaxSize : Serves(SizeClass(s), s) /\ LittleLeftOver(s)

(* A thread that GetInstance gives the map to finds every request of up to
   kMaxSize bytes in the first class that is large enough: what the loop
   "Double-check sizes just to be safe" of Init was meant to check.  It wastes
   less than a quarter of itself there, or less than kAlignment bytes:
   AlignmentForSize would keep it to an eighth ("Space wasted due to alignment
   is at most 1/8"), and merging classes costs the rest.  No table is written
   any more after that. *)
SizesServed ==
  [][\A t \in Threads :
       /\ Returns(t) => AllServed'
       /\ pc[t] = "ready" => UNCHANGED tables]_vars

(* Every class's span holds a whole transfer: at least one object, at least a
   quarter of NumMoveSize, as many as num_objects_to_move says, and at most an
   eighth of it is left over: what the central cache assumes of its classes. *)
SpansHoldABatch ==
  \A t \in Threads : pc[t] = "moves" => \A c \in 1 .. cl - 1 :
    \E span \in {class_to_pages[c] * kPageSize} :
      /\ num_objects_to_move[c] >= 1
      /\ num_objects_to_move[c] >= NumMoveSize(class_to_size[c]) \div 4
      /\ num_objects_to_move[c] * class_to_size[c] <= span
      /\ 8 * (span - num_objects_to_move[c] * class_to_size[c]) <= span

(* The tables are what the rest of the library assumes of them. *)
ClassesSound == SizeMapTypeOK /\ ClassesFit /\ SpansHoldABatch
=============================================================================
