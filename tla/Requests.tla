------------------------------ MODULE Requests ------------------------------
(***************************************************************************)
(* The sizes a program asks for and the word in front of each block from    *)
(* which Free learns what to give back: CCacheAllocator's Malloc, Calloc,   *)
(* ReAlloc and Free above the lists and the central cache, which appear as  *)
(* their contracts (an object of the class, a run of so many pages).        *)
(* The classes are those CSizeMap computes before the first request.        *)
(* size_t is narrowed to WordBits bits and the int in which the central     *)
(* cache takes a number of pages to IntBits; the others are the build's.    *)
(***************************************************************************)
EXTENDS SizeMap

CONSTANTS
  WordBits,        \* MEM_INFO_BITS: 64 in the build
  IntBits,         \* of an int: 32
  Sizes, Counts,   \* what the program asks for: bytes, and nmemb of Calloc
  Blocks           \* bound: names of the blocks that are out at a time

MEM_INFO_BYTES == 8
FT_PAGE_BIT == 16
PAGE_FLAG == 2 ^ (WordBits - 1)      \* 1 << PAGE_FLAG_BIT

Word(x) == x % 2 ^ WordBits
Page == 2 ^ FT_PAGE_BIT
Classes == 1 .. kNumClasses - 1

ASSUME RequestsAssumption ==
  /\ WordBits \in 19 .. 30 /\ IntBits \in 2 .. WordBits
  /\ Sizes \subseteq 0 .. 2 ^ WordBits - 1 /\ Counts \subseteq Sizes

VARIABLES
  given,     \* what the layers below have handed out under each name
  header,    \* the word in front of each block that is out
  asked,     \* the bytes the program asked for; nmemb * size, for Calloc
  held       \* the blocks the program has an address of

blockVars == << given, header, asked, held >>
requestVars == << vars, blockVars >>

Nothing == [pages |-> 0, class |-> 0]

RequestInit ==
  /\ Init
  /\ given = [b \in Blocks |-> Nothing]
  /\ header = [b \in Blocks |-> 0] /\ asked = [b \in Blocks |-> 0]
  /\ held = {}

-----------------------------------------------------------------------------
(* The header macros *)

GET_NEED_LENGTH(bytes) == Word(bytes + MEM_INFO_BYTES)

SET_MEM_INFO_CLASSLESS(clz, pages) ==      \* mutant: the flag is not set
  IF pages > 0 THEN pages ELSE clz

SET_MEM_INFO(clz, pages) == IF pages > 0 THEN (pages % PAGE_FLAG) + PAGE_FLAG ELSE clz

IS_PAGE_ALLOC(info) == info >= PAGE_FLAG
GET_PAGE_COUNT(info) == info % PAGE_FLAG

(* A size_t that is passed to AllocPages(int) or FreePages(void *, int). *)
AsInt(pages) == pages % 2 ^ IntBits

(* What Free gives back after it has read a header. *)
Told(info) ==
  IF IS_PAGE_ALLOC(info) THEN [pages |-> AsInt(GET_PAGE_COUNT(info)), class |-> 0]
  ELSE [pages |-> 0, class |-> info]

-----------------------------------------------------------------------------
SmallAlloc(bytes) == [pages |-> 0, class |-> SizeClass(GET_NEED_LENGTH(bytes))]

NeedPagesDown(allocSize) == allocSize \div Page      \* mutant: not rounded up

(* The mask is FT_PAGE_BIT - 1 = 15. *)
NeedPages(allocSize) ==
  (allocSize \div Page) + (IF allocSize % FT_PAGE_BIT > 0 THEN 1 ELSE 0)

PageAlloc(bytes) == [pages |-> NeedPages(GET_NEED_LENGTH(bytes)), class |-> 0]

Allocated(bytes) ==
  IF GET_NEED_LENGTH(bytes) >= kMaxSize THEN PageAlloc(bytes) ELSE SmallAlloc(bytes)

(* What the layers below hand out. *)
Received(bytes) == [Allocated(bytes) EXCEPT !.pages = AsInt(@)]

(* An int that is negative, or 0 for a request of pages, is not followed into
   the page manager: such a request is not made. *)
Followed(bytes) ==
  Allocated(bytes).pages > 0 => Received(bytes).pages \in 1 .. 2 ^ (IntBits - 1) - 1

(* Under a name that is not in use; total is what the caller wanted. *)
Place(b, bytes, total) ==
  /\ given[b] = Nothing /\ Followed(bytes)
  /\ given' = [given EXCEPT ![b] = Received(bytes)]
  /\ header' = [header EXCEPT ![b] = SET_MEM_INFO(Allocated(bytes).class, Allocated(bytes).pages)]
  /\ asked' = [asked EXCEPT ![b] = total]

(* A size of 0 is answered with NULL. *)
Malloc(b, bytes) ==
  /\ bytes > 0
  /\ Place(b, bytes, bytes)
  /\ held' = held \cup {b}

Overflows(nmemb, bytes) ==
  Word(nmemb * bytes) # 0 /\ Word(nmemb * bytes) \div bytes # nmemb

(* memset then clears needsize bytes, which never wrap here. *)
Calloc(b, nmemb, bytes) ==
  /\ ~ Overflows(nmemb, bytes)
  /\ Word(nmemb * bytes) > 0
  /\ Place(b, Word(nmemb * bytes), nmemb * bytes)
  /\ held' = held \cup {b}

FreedObject(b) ==                 \* mutant: pages are not passed on
  IF given[b].pages = 0 THEN Nothing ELSE given[b]

(* What the header names goes back; one that names nothing, or something else,
   leaves the block where it is. *)
Freed(b) == IF Told(header[b]) = given[b] THEN Nothing ELSE given[b]

Free(b) ==
  /\ b \in held
  /\ given' = [given EXCEPT ![b] = Freed(b)]
  /\ header' = [header EXCEPT ![b] = 0] /\ asked' = [asked EXCEPT ![b] = 0]
  /\ held' = held \ {b}

(* Of a block and a size above oldsize, which is always 0: the address of the
   new block stays in the inner addr, nothing is copied, the old block is
   freed, and the answer is the outer addr, NULL.  A size of 0 is answered with
   NULL too, and the block stays. *)
ReAlloc(old, b, bytes) ==
  /\ old \in held /\ bytes > 0
  /\ given[b] = Nothing /\ Followed(bytes)
  /\ given' = [given EXCEPT ![b] = Received(bytes), ![old] = Freed(old)]
  /\ header' = [header EXCEPT ![b] = SET_MEM_INFO(Allocated(bytes).class, Allocated(bytes).pages),
                              ![old] = 0]
  /\ asked' = [asked EXCEPT ![b] = bytes, ![old] = 0]
  /\ held' = held \ {old}

Request ==
  \E b \in Blocks :
    \/ \E bytes \in Sizes :
         \/ Malloc(b, bytes)
         \/ \E old \in held : ReAlloc(old, b, bytes)
    \/ \E nmemb \in Counts, bytes \in Sizes : Calloc(b, nmemb, bytes)
    \/ Free(b)

(* GetInstance comes before the first use of a class. *)
RequestNext ==
  \/ Next /\ UNCHANGED blockVars
  \/ (\E t \in Threads : pc[t] = "ready") /\ Request /\ UNCHANGED vars

RequestSpec == RequestInit /\ [][RequestNext]_requestVars
-----------------------------------------------------------------------------
Extent(g) == IF g.pages > 0 THEN g.pages * Page ELSE class_to_size[g.class]

Out == {b \in Blocks : given[b] # Nothing}

(* The values the variables range over. *)
RequestsTypeOK ==
  /\ given \in [Blocks -> [pages : Nat, class : {0} \cup Classes]]
  /\ header \in [Blocks -> 0 .. 2 ^ WordBits - 1]
  /\ asked \in [Blocks -> Nat]
  /\ held \subseteq Blocks

(* The header of a block tells Free exactly what the block is, over all sizes,
   classes and numbers of pages: nothing is given back in part, as of another
   kind, or not at all. *)
HeaderTells == \A b \in held : Told(header[b]) = given[b]

(* Free finds in a header what SET_MEM_INFO was told. *)
HeadersRight == RequestsTypeOK /\ HeaderTells

(* Only three kinds of request get less than they ask for: one whose length
   with the header wraps around, one of whole pages whose length is a multiple
   of 16 but not of a page, and one of more pages than an int counts.  A block
   with more bytes than size_t can count is never handed out: Calloc refuses
   every product that wraps, also one that wraps to a small number. *)
Rounded(b) == (asked[b] + MEM_INFO_BYTES) % FT_PAGE_BIT = 0
Narrowed(b) == asked[b] >= 2 ^ (IntBits - 1) * Page - MEM_INFO_BYTES
ShortOnlyIfKnown ==
  \A b \in held :
    /\ asked[b] < 2 ^ WordBits
    /\ \/ Extent(given[b]) >= asked[b] + MEM_INFO_BYTES
       \/ asked[b] + MEM_INFO_BYTES >= 2 ^ WordBits
       \/ given[b].pages > 0 /\ (Rounded(b) \/ Narrowed(b))

(* Only ReAlloc loses a block, its new one: whatever else is done, in any
   order, what is out is what the program holds or what ReAlloc lost before. *)
OnlyReAllocLeaks ==
  [][\/ (Out \ held)' \subseteq Out \ held
     \/ \E old \in held, b \in Blocks, bytes \in Sizes : ReAlloc(old, b, bytes)]_requestVars
=============================================================================
