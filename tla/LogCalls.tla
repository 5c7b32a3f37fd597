------------------------------ MODULE LogCalls ------------------------------
(***************************************************************************)
(* FT_LOG inside the allocator.  The Makefile builds with LOG_PRINTF and     *)
(* FT_LOG_DEBUG: every call of malloc and free prints, outside and inside    *)
(* its two locks, and printf takes a lock of its own and, at its first use,  *)
(* memory.  A thread is the sequence of the steps it still has to do; a call *)
(* puts the callee's steps in front.                                         *)
(*                                                                           *)
(* printf is libc's and external: stdout has a recursive lock, and a buffer  *)
(* that is made when it is first needed, by mmap or by malloc.               *)
(***************************************************************************)
EXTENDS Integers, Sequences, FiniteSets

CONSTANTS
  Threads, NoThread,
  BufferFromMalloc,    \* libc takes stdout's buffer from malloc
  MaxSteps             \* bound on the nesting of calls

ASSUME ThreadsAssumption == NoThread \notin Threads

Locks == {"sCacheAllocateLock", "s_central_cache_lock", "stdout"}

VARIABLES
  todo,        \* the steps before each thread
  holder,      \* of each lock
  depth,       \* how often its holder has taken stdout
  buffered,    \* stdout has its buffer
  key,         \* CThreadCache's key has a value for the thread
  allocators   \* CCacheAllocators made for the thread and not yet destroyed

vars == << todo, holder, depth, buffered, key, allocators >>

Init ==
  /\ todo = [t \in Threads |-> << >>]
  /\ holder = [l \in Locks |-> NoThread]
  /\ depth = 0 /\ buffered = FALSE
  /\ key = [t \in Threads |-> FALSE]
  /\ allocators = [t \in Threads |-> 0]

-----------------------------------------------------------------------------
(* The steps of the methods; "log" is an FT_LOG. *)

Lock(l) == << "lock", l >>
Unlock(l) == << "unlock", l >>
Log == << "log" >>

printf == << Lock("stdout"), << "buffer" >>, Unlock("stdout") >>

(* CreateMemAllocator with the slab's AllocNode, and the rest of GetAllocator. *)
CreateMemAllocator ==
  << Log, Lock("sCacheAllocateLock"), Log, << "made" >>, Unlock("sCacheAllocateLock"),
     Log, << "set" >> >>

CentralCallNested ==                   \* mutant: a public method calls another
  << Log, Lock("s_central_cache_lock"), Log, Lock("s_central_cache_lock"),
     Unlock("s_central_cache_lock"), Unlock("s_central_cache_lock"), Log >>

CentralCallRetried ==                  \* mutant: asked again if there was nothing
  << Log, Lock("s_central_cache_lock"), Log, Unlock("s_central_cache_lock"), << "central" >> >>

(* RemoveRange, InsertRange, AllocPages and FreePages. *)
CentralCall ==
  << Log, Lock("s_central_cache_lock"), Log, Unlock("s_central_cache_lock"), Log >>

(* malloc and free alike; a list that is long enough needs no "central". *)
AllocatorCall == << << "get" >>, Log, << "central" >>, Log >>

(* The destructor's flush; the node goes back without a lock. *)
TLSDestructor == << Log, Log, << "central" >>, << "gone" >>, Log >>

-----------------------------------------------------------------------------
Idle(t) == todo[t] = << >>
Does(t, step) == ~ Idle(t) /\ Head(todo[t]) = step
Continue(t, steps) == todo' = [todo EXCEPT ![t] = steps \o Tail(@)]

Call(t) ==
  /\ Idle(t)
  /\ todo' = [todo EXCEPT ![t] = AllocatorCall]
  /\ UNCHANGED << holder, depth, buffered, key, allocators >>

(* The program's own output. *)
Prints(t) ==
  /\ Idle(t)
  /\ todo' = [todo EXCEPT ![t] = printf]
  /\ UNCHANGED << holder, depth, buffered, key, allocators >>

(* pthread_exit clears the key before it calls the destructor. *)
ThreadExit(t) ==
  /\ Idle(t) /\ key[t]
  /\ key' = [key EXCEPT ![t] = FALSE]
  /\ todo' = [todo EXCEPT ![t] = TLSDestructor]
  /\ UNCHANGED << holder, depth, buffered, allocators >>

GetAllocator(t) ==
  /\ Does(t, << "get" >>)
  /\ Continue(t, IF key[t] THEN << >> ELSE CreateMemAllocator)
  /\ UNCHANGED << holder, depth, buffered, key, allocators >>

FT_LOG(t) ==
  /\ Does(t, Log)
  /\ Continue(t, printf)
  /\ UNCHANGED << holder, depth, buffered, key, allocators >>

GoCentral(t) ==
  /\ Does(t, << "central" >>)
  /\ Continue(t, CentralCall) \/ Continue(t, << >>)
  /\ UNCHANGED << holder, depth, buffered, key, allocators >>

(* The mutexes of CAutoLock are not recursive. *)
MayTake(t, l) == holder[l] = NoThread \/ (l = "stdout" /\ holder[l] = t)

Acquire(t, l) ==
  /\ Does(t, Lock(l)) /\ MayTake(t, l)
  /\ holder' = [holder EXCEPT ![l] = t]
  /\ depth' = IF l = "stdout" THEN depth + 1 ELSE depth
  /\ Continue(t, << >>)
  /\ UNCHANGED << buffered, key, allocators >>

Release(t, l) ==
  /\ Does(t, Unlock(l))
  /\ holder' = IF l = "stdout" /\ depth > 1 THEN holder ELSE [holder EXCEPT ![l] = NoThread]
  /\ depth' = IF l = "stdout" THEN depth - 1 ELSE depth
  /\ Continue(t, << >>)
  /\ UNCHANGED << buffered, key, allocators >>

(* If the buffer comes from malloc it is there when malloc has returned. *)
Asks == BufferFromMalloc /\ ~ buffered
Buffer(t) ==
  /\ Len(todo[t]) < MaxSteps
  /\ Does(t, << "buffer" >>) \/ Does(t, << "buffer is here" >>)
  /\ IF Asks /\ Does(t, << "buffer" >>)
     THEN Continue(t, Append(AllocatorCall, << "buffer is here" >>)) /\ UNCHANGED buffered
     ELSE Continue(t, << >>) /\ buffered' = TRUE
  /\ UNCHANGED << holder, depth, key, allocators >>

(* The thread's record: an allocator is made, entered under the key, gone. *)
Record(t) ==
  /\ Does(t, << "made" >>) \/ Does(t, << "set" >>) \/ Does(t, << "gone" >>)
  /\ allocators' = [allocators EXCEPT ![t] = CASE Does(t, << "made" >>) -> @ + 1
                                               [] Does(t, << "gone" >>) -> @ - 1
                                               [] OTHER -> @]
  /\ key' = [key EXCEPT ![t] = @ \/ Does(t, << "set" >>)]
  /\ Continue(t, << >>)
  /\ UNCHANGED << holder, depth, buffered >>

Goes(t) ==
  \/ GetAllocator(t) \/ FT_LOG(t) \/ GoCentral(t) \/ Buffer(t) \/ Record(t)
  \/ \E l \in Locks : Acquire(t, l) \/ Release(t, l)

Next == \E t \in Threads : Call(t) \/ Prints(t) \/ ThreadExit(t) \/ Goes(t)

Spec == Init /\ [][Next]_vars

(* A thread inside a call runs on; the program need not call again. *)
FairSpec == Spec /\ \A t \in Threads : WF_vars(Goes(t))
-----------------------------------------------------------------------------
Pending(t, step) == {i \in DOMAIN todo[t] : todo[t][i] = step}

(* The values the variables range over; a thread has one allocator at most. *)
LogTypeOK ==
  /\ holder \in [Locks -> Threads \cup {NoThread}]
  /\ depth \in Nat /\ buffered \in BOOLEAN
  /\ key \in [Threads -> BOOLEAN] /\ allocators \in [Threads -> 0 .. 1]

(* A lock is held by the one thread that has yet to leave it, in whatever
   order calls, logs and thread ends nest and interleave. *)
LocksMatchCalls ==
  /\ \A t \in Threads, l \in Locks :
       holder[l] = t => \E i \in Pending(t, Unlock(l)) : TRUE
  /\ depth > 0 <=> holder["stdout"] # NoThread

Waiting(t) == \E l \in Locks : Does(t, Lock(l)) /\ ~ MayTake(t, l)

(* While a thread waits for a lock another one can go on: the three locks are
   never waited for in a circle, be it of several threads or of one. *)
WaitsEnd ==
  \A t \in Threads :
    Waiting(t) => \E u \in Threads \ {t} : ~ Idle(u) /\ ~ Waiting(u)

(* The three locks are kept by no thread for ever. *)
LocksSound == LogTypeOK /\ LocksMatchCalls /\ WaitsEnd

(* Every call returns once the other threads leave the allocator alone. *)
CallsReturn ==
  \A t \in Threads :
    <>[](\A u \in Threads \ {t} : Idle(u)) => (~ Idle(t) ~> Idle(t))

-----------------------------------------------------------------------------
(* A statement that does not hold; README.md of this directory, section 5. *)

(* README.md: with LD_PRELOAD memory is requested from the library, for
   printf's buffer too.  The request is answered without a second one. *)
BufferAskedOnce == \A t \in Threads : Cardinality(Pending(t, << "buffer is here" >>)) <= 1
=============================================================================
