--------------------------- MODULE LogCallsSafety ---------------------------
(***************************************************************************)
(* No circle of waits for the three locks, and one allocator per thread at  *)
(* most, however many threads call, print and end at once, when libc takes  *)
(* stdout's buffer from the system.  A thread stands at three places: in    *)
(* printf, in the method it called from, and in the call or the destructor  *)
(* it made first.  What it still has to do is the rest of each, and what it *)
(* holds is told by where it stands.                                        *)
(***************************************************************************)
EXTENDS LogCalls, SequenceTheorems, TLAPS

After(s, k) == [i \in 1 .. Len(s) - k |-> s[i + k]]

LEMMA AfterEffect ==
  ASSUME NEW S, NEW s \in Seq(S), NEW k \in 0 .. Len(s)
  PROVE  /\ After(s, k) \in Seq(S)
         /\ k = Len(s) <=> After(s, k) = << >>
         /\ k < Len(s) => /\ Head(After(s, k)) = s[k + 1]
                          /\ Tail(After(s, k)) = After(s, k + 1)
         /\ k = 0 => After(s, k) = s
<1> DEFINE r == After(s, k)
<1>1. r \in Seq(S) /\ Len(r) = Len(s) - k /\ \A i \in 1 .. Len(r) : r[i] = s[i + k]
  BY DEF After
<1>2. k = Len(s) <=> r = << >>
  BY <1>1
<1>3. ASSUME k < Len(s) PROVE Head(r) = s[k + 1] /\ Tail(r) = After(s, k + 1)
  <2>1. r # << >> /\ Head(r) = r[1] /\ r[1] = s[1 + k]
    BY <1>1, <1>2, <1>3
  <2> DEFINE q == After(s, k + 1)
  <2>2. q \in Seq(S) /\ Len(q) = Len(s) - (k + 1) /\ \A i \in 1 .. Len(q) : q[i] = s[i + (k + 1)]
    BY <1>3 DEF After
  <2>3. Tail(r) \in Seq(S) /\ Len(Tail(r)) = Len(q) /\ \A i \in 1 .. Len(q) : Tail(r)[i] = r[i + 1]
    BY <1>1, <1>3, <2>1, <2>2
  <2> HIDE DEF r, q
  <2>4. ASSUME NEW i \in 1 .. Len(q) PROVE Tail(r)[i] = q[i]
    <3>1. i \in Nat /\ i + 1 \in 1 .. Len(r) /\ (i + 1) + k = i + (k + 1)
      BY <1>1, <2>2, <1>3
    <3> QED BY <1>1, <2>2, <2>3, <3>1
  <2>5. Tail(r) = q
    BY <2>2, <2>3, <2>4, SeqEqual
  <2> QED BY <2>1, <2>5 DEF q
<1>4. k = 0 => r = s
  BY <1>1
<1> QED BY <1>1, <1>2, <1>3, <1>4

LEMMA JoinEffect ==
  ASSUME NEW S, NEW a \in Seq(S), NEW b \in Seq(S)
  PROVE  /\ a \o b \in Seq(S)
         /\ a \o b = << >> <=> a = << >> /\ b = << >>
         /\ a = << >> => a \o b = b
         /\ a # << >> => Head(a \o b) = Head(a) /\ Tail(a \o b) = Tail(a) \o b
  OBVIOUS

LEMMA AfterRange ==
  ASSUME NEW S, NEW s \in Seq(S), NEW k \in 0 .. Len(s)
  PROVE  /\ After(s, k) \in Seq(S) /\ Len(After(s, k)) = Len(s) - k
         /\ \A n \in 1 .. Len(After(s, k)) : After(s, k)[n] = s[n + k]
  BY DEF After

LEMMA JoinRange ==
  ASSUME NEW S, NEW a \in Seq(S), NEW b \in Seq(S)
  PROVE  /\ a \o b \in Seq(S) /\ Len(a \o b) = Len(a) + Len(b)
         /\ Len(a) \in Nat /\ Len(b) \in Nat
         /\ \A n \in 1 .. Len(a) : (a \o b)[n] = a[n]
         /\ \A n \in 1 .. Len(b) : (a \o b)[Len(a) + n] = b[n]
  OBVIOUS

-----------------------------------------------------------------------------
(* Where a thread stands: i steps of printf are done, j of a method's, k of
   the call's or the destructor's. *)
Method(m) == IF m = "create" THEN CreateMemAllocator ELSE CentralCall
Outer(c)  == IF c = "call" THEN AllocatorCall ELSE TLSDestructor

IsPlace(i, m, j, c, k) ==
  /\ i \in 0 .. 3
  /\ m \in {"create", "central"} /\ j \in 0 .. Len(Method(m))
  /\ c \in {"call", "destructor"} /\ k \in 0 .. Len(Outer(c))

Rest(i, m, j, c, k) == After(printf, i) \o (After(Method(m), j) \o After(Outer(c), k))

Ahead(i, m, j, c, k) ==
  IF i < 3 THEN printf[i + 1]
  ELSE IF j < Len(Method(m)) THEN Method(m)[j + 1] ELSE Outer(c)[k + 1]

Done(i, m, j, c, k) == i = 3 /\ j = Len(Method(m)) /\ k = Len(Outer(c))

Steps ==
  {Lock(l) : l \in Locks} \cup {Unlock(l) : l \in Locks} \cup {Log}
    \cup {<< "buffer" >>, << "made" >>, << "set" >>, << "get" >>, << "central" >>, << "gone" >>}

LEMMA Pieces ==
  /\ printf \in Seq(Steps) /\ Len(printf) = 3
  /\ CreateMemAllocator \in Seq(Steps) /\ Len(CreateMemAllocator) = 7
  /\ CentralCall \in Seq(Steps) /\ Len(CentralCall) = 5
  /\ AllocatorCall \in Seq(Steps) /\ Len(AllocatorCall) = 4
  /\ TLSDestructor \in Seq(Steps) /\ Len(TLSDestructor) = 5
<1>1. /\ Log \in Steps /\ \A l \in Locks : Lock(l) \in Steps /\ Unlock(l) \in Steps
      /\ << "buffer" >> \in Steps /\ << "made" >> \in Steps /\ << "set" >> \in Steps
      /\ << "get" >> \in Steps /\ << "central" >> \in Steps /\ << "gone" >> \in Steps
  BY DEF Steps
<1>2. \A l \in {"stdout", "sCacheAllocateLock", "s_central_cache_lock"} : l \in Locks
  BY DEF Locks
<1> HIDE DEF Steps
<1> QED BY <1>1, <1>2 DEF printf, CreateMemAllocator, CentralCall, AllocatorCall, TLSDestructor

LEMMA Methods ==
  ASSUME NEW m, NEW c
  PROVE  /\ Method(m) \in Seq(Steps) /\ Outer(c) \in Seq(Steps)
         /\ Len(Method(m)) = IF m = "create" THEN 7 ELSE 5
         /\ Len(Outer(c)) = IF c = "call" THEN 4 ELSE 5
  BY Pieces DEF Method, Outer

LEMMA RestEffect ==
  ASSUME NEW i, NEW m, NEW j, NEW c, NEW k, IsPlace(i, m, j, c, k)
  PROVE  LET r == Rest(i, m, j, c, k)
         IN  /\ r = << >> <=> Done(i, m, j, c, k)
             /\ r # << >> => Head(r) = Ahead(i, m, j, c, k)
             /\ i < 3 => r # << >> /\ Tail(r) = Rest(i + 1, m, j, c, k)
             /\ i = 3 /\ j < Len(Method(m)) => r # << >> /\ Tail(r) = Rest(i, m, j + 1, c, k)
             /\ i = 3 /\ j = Len(Method(m)) /\ k < Len(Outer(c)) =>
                  r # << >> /\ Tail(r) = Rest(i, m, j, c, k + 1)
<1> DEFINE p == After(printf, i)
           x == After(Method(m), j)
           y == After(Outer(c), k)
<1>1. /\ i \in 0 .. Len(printf) /\ j \in 0 .. Len(Method(m)) /\ k \in 0 .. Len(Outer(c))
      /\ printf \in Seq(Steps) /\ Method(m) \in Seq(Steps) /\ Outer(c) \in Seq(Steps)
      /\ Len(printf) = 3 /\ Len(Method(m)) \in Nat /\ Len(Outer(c)) \in Nat
  BY Pieces, Methods DEF IsPlace
<1>2. /\ p \in Seq(Steps) /\ (i = 3 <=> p = << >>)
      /\ i < 3 => Head(p) = printf[i + 1] /\ Tail(p) = After(printf, i + 1)
  <2>1. /\ p \in Seq(Steps) /\ (i = Len(printf) <=> p = << >>)
        /\ i < Len(printf) => Head(p) = printf[i + 1] /\ Tail(p) = After(printf, i + 1)
    <3>1. i \in 0 .. Len(printf) /\ printf \in Seq(Steps)
      BY <1>1
    <3> QED BY <3>1, AfterEffect, SMTT(20)
  <2> HIDE DEF p
  <2> QED BY <1>1, <2>1
<1>3. /\ x \in Seq(Steps) /\ (j = Len(Method(m)) <=> x = << >>)
      /\ j < Len(Method(m)) => Head(x) = Method(m)[j + 1] /\ Tail(x) = After(Method(m), j + 1)
  BY <1>1, AfterEffect
<1>4. /\ y \in Seq(Steps) /\ (k = Len(Outer(c)) <=> y = << >>)
      /\ k < Len(Outer(c)) => Head(y) = Outer(c)[k + 1] /\ Tail(y) = After(Outer(c), k + 1)
  BY <1>1, AfterEffect
<1> HIDE DEF p, x, y
<1>5. /\ x \o y \in Seq(Steps) /\ (x \o y = << >> <=> x = << >> /\ y = << >>)
      /\ x = << >> => x \o y = y
      /\ x # << >> => Head(x \o y) = Head(x) /\ Tail(x \o y) = Tail(x) \o y
  <2>1. x \in Seq(Steps) /\ y \in Seq(Steps)
    BY <1>3, <1>4
  <2> QED BY <2>1, JoinEffect, SMTT(20)
<1> DEFINE z == x \o y
           r == p \o z
<1>6. /\ r = << >> <=> p = << >> /\ z = << >>
      /\ p = << >> => r = z
      /\ p # << >> => Head(r) = Head(p) /\ Tail(r) = Tail(p) \o z
  <2> HIDE DEF z
  <2>1. z \in Seq(Steps)
    BY <1>5 DEF z
  <2> QED BY <1>2, <2>1, JoinEffect
<1>7. r = Rest(i, m, j, c, k)
  BY DEF p, x, y, Rest
<1>8. i \in 0 .. 3 /\ (i < 3 <=> i # 3) /\ (j < Len(Method(m)) <=> j # Len(Method(m)))
      /\ (k < Len(Outer(c)) <=> k # Len(Outer(c)))
  BY <1>1
<1>9. /\ r = << >> <=> Done(i, m, j, c, k)
      /\ r # << >> => Head(r) = Ahead(i, m, j, c, k)
  <2> HIDE DEF r
  <2>1. r = << >> <=> Done(i, m, j, c, k)
    BY <1>2, <1>3, <1>4, <1>5, <1>6 DEF Done
  <2>2. CASE i < 3
    BY <1>2, <1>6, <1>8, <2>1, <2>2 DEF Ahead
  <2>3. CASE i = 3 /\ j < Len(Method(m))
    <3>1. ~ (i < 3) /\ p = << >> /\ x # << >>
      BY <1>2, <1>3, <1>8, <2>3
    <3>2. r = z /\ Head(z) = Head(x) /\ Head(x) = Method(m)[j + 1]
      BY <1>3, <1>5, <1>6, <2>3, <3>1
    <3> QED BY <2>1, <2>3, <3>1, <3>2 DEF Ahead
  <2>4. CASE i = 3 /\ j = Len(Method(m))
    BY <1>2, <1>3, <1>4, <1>5, <1>6, <1>8, <2>1, <2>4 DEF Ahead, Done
  <2> QED BY <1>8, <2>1, <2>2, <2>3, <2>4
<1>10. i < 3 => r # << >> /\ Tail(r) = Rest(i + 1, m, j, c, k)
  BY <1>2, <1>6, <1>8 DEF Rest, x, y
<1>11. i = 3 /\ j < Len(Method(m)) => r # << >> /\ Tail(r) = Rest(i, m, j + 1, c, k)
  <2> SUFFICES ASSUME i = 3, j < Len(Method(m))
               PROVE  r # << >> /\ Tail(r) = Rest(i, m, j + 1, c, k)
    OBVIOUS
  <2>1. r = z /\ z # << >> /\ Tail(z) = After(Method(m), j + 1) \o y /\ p = << >>
    BY <1>2, <1>3, <1>5, <1>6, <1>8
  <2>2. Rest(i, m, j + 1, c, k) = p \o (After(Method(m), j + 1) \o y)
    BY DEF Rest, p, y
  <2>3. After(Method(m), j + 1) \o y \in Seq(Steps)
    <3>1. j + 1 \in 0 .. Len(Method(m))
      BY <1>1
    <3>2. After(Method(m), j + 1) \in Seq(Steps)
      BY <1>1, <3>1, AfterEffect
    <3> QED BY <1>4, <3>2
  <2>4. p \o (After(Method(m), j + 1) \o y) = After(Method(m), j + 1) \o y
    BY <2>1, <2>3
  <2> QED BY <2>1, <2>2, <2>4
<1>12. i = 3 /\ j = Len(Method(m)) /\ k < Len(Outer(c)) =>
         r # << >> /\ Tail(r) = Rest(i, m, j, c, k + 1)
  <2> SUFFICES ASSUME i = 3, j = Len(Method(m)), k < Len(Outer(c))
               PROVE  r # << >> /\ Tail(r) = Rest(i, m, j, c, k + 1)
    OBVIOUS
  <2> DEFINE w == After(Outer(c), k + 1)
  <2>1. r = y /\ y # << >> /\ Tail(y) = w /\ p = << >> /\ x = << >>
    BY <1>2, <1>3, <1>4, <1>5, <1>6, <1>8
  <2>2. w \in Seq(Steps)
    <3>1. k + 1 \in 0 .. Len(Outer(c))
      BY <1>1
    <3> QED BY <1>1, <3>1, AfterEffect
  <2>3. Rest(i, m, j, c, k + 1) = p \o (x \o w)
    BY DEF Rest, p, x
  <2> HIDE DEF w
  <2>4. p \o (x \o w) = w
    BY <2>1, <2>2
  <2> QED BY <2>1, <2>3, <2>4
<1> QED BY <1>7, <1>9, <1>10, <1>11, <1>12

-----------------------------------------------------------------------------
(* Which step is ahead tells the place. *)
Kind(step) == step[1]

LEMMA StepKinds ==
  /\ Kind(Log) = "log" /\ \A l : Kind(Lock(l)) = "lock" /\ Kind(Unlock(l)) = "unlock"
  /\ \A l : Lock(l)[2] = l /\ Unlock(l)[2] = l
  /\ \A s : Kind(<< s >>) = s
  BY DEF Kind, Log, Lock, Unlock

InPrintf(i, step) ==
  \/ i = 0 /\ step = Lock("stdout")
  \/ i = 1 /\ step = << "buffer" >>
  \/ i = 2 /\ step = Unlock("stdout")

InMethod(m, j, step) ==
  \/ m = "create" /\ j \in {0, 2, 5} /\ step = Log
  \/ m = "create" /\ j = 1 /\ step = Lock("sCacheAllocateLock")
  \/ m = "create" /\ j = 3 /\ step = << "made" >>
  \/ m = "create" /\ j = 4 /\ step = Unlock("sCacheAllocateLock")
  \/ m = "create" /\ j = 6 /\ step = << "set" >>
  \/ m = "central" /\ j \in {0, 2, 4} /\ step = Log
  \/ m = "central" /\ j = 1 /\ step = Lock("s_central_cache_lock")
  \/ m = "central" /\ j = 3 /\ step = Unlock("s_central_cache_lock")

InOuter(c, k, step) ==
  \/ c = "call" /\ k = 0 /\ step = << "get" >>
  \/ c = "call" /\ k \in {1, 3} /\ step = Log
  \/ k = 2 /\ step = << "central" >>
  \/ c = "destructor" /\ k = 3 /\ step = << "gone" >>
  \/ c = "destructor" /\ k \in {0, 1, 4} /\ step = Log

LEMMA StepAhead ==
  ASSUME NEW i, NEW m, NEW j, NEW c, NEW k, IsPlace(i, m, j, c, k),
         NEW step, step = Ahead(i, m, j, c, k), ~ Done(i, m, j, c, k)
  PROVE  \/ i < 3 /\ InPrintf(i, step)
         \/ i = 3 /\ j < Len(Method(m)) /\ InMethod(m, j, step)
         \/ i = 3 /\ j = Len(Method(m)) /\ k < Len(Outer(c)) /\ InOuter(c, k, step)
<1>1. i \in 0 .. 3 /\ Len(Method(m)) = (IF m = "create" THEN 7 ELSE 5)
      /\ Len(Outer(c)) = (IF c = "call" THEN 4 ELSE 5)
  BY Methods DEF IsPlace
<1>2. CASE i < 3
  <2>1. step = printf[i + 1] /\ i \in {0, 1, 2}
    BY <1>1, <1>2 DEF Ahead
  <2>2. printf[1] = Lock("stdout") /\ printf[2] = << "buffer" >> /\ printf[3] = Unlock("stdout")
    BY DEF printf
  <2> QED BY <1>2, <2>1, <2>2 DEF InPrintf
<1>3. CASE i = 3 /\ j < Len(Method(m))
  <2>1. step = Method(m)[j + 1] /\ j \in 0 .. Len(Method(m)) - 1 /\ m \in {"create", "central"}
    BY <1>1, <1>3 DEF Ahead, IsPlace
  <2>2. CASE m = "create"
    <3>0. Method(m) = CreateMemAllocator /\ Len(Method(m)) = 7
      BY <1>1, <2>2 DEF Method
    <3>1. /\ j \in {0, 1, 2, 3, 4, 5, 6}
          /\ j = 0 => step = CreateMemAllocator[1]
          /\ j = 1 => step = CreateMemAllocator[2]
          /\ j = 2 => step = CreateMemAllocator[3]
          /\ j = 3 => step = CreateMemAllocator[4]
          /\ j = 4 => step = CreateMemAllocator[5]
          /\ j = 5 => step = CreateMemAllocator[6]
          /\ j = 6 => step = CreateMemAllocator[7]
      <4>1. j \in 0 .. 6 /\ step = CreateMemAllocator[j + 1]
        BY <2>1, <3>0
      <4>2. j \in {0, 1, 2, 3, 4, 5, 6} /\ step = CreateMemAllocator[j + 1]
        BY <4>1
      <4> QED BY <4>2
    <3>2. /\ CreateMemAllocator[1] = Log /\ CreateMemAllocator[3] = Log /\ CreateMemAllocator[6] = Log
          /\ CreateMemAllocator[2] = Lock("sCacheAllocateLock")
          /\ CreateMemAllocator[4] = << "made" >>
          /\ CreateMemAllocator[5] = Unlock("sCacheAllocateLock")
          /\ CreateMemAllocator[7] = << "set" >>
      BY DEF CreateMemAllocator
    <3> QED BY <1>3, <2>2, <3>1, <3>2 DEF InMethod
  <2>3. CASE m = "central"
    <3>0. Method(m) = CentralCall /\ Len(Method(m)) = 5
      BY <1>1, <2>3 DEF Method
    <3>1. /\ j \in {0, 1, 2, 3, 4}
          /\ j = 0 => step = CentralCall[1]
          /\ j = 1 => step = CentralCall[2]
          /\ j = 2 => step = CentralCall[3]
          /\ j = 3 => step = CentralCall[4]
          /\ j = 4 => step = CentralCall[5]
      <4>1. j \in 0 .. 4 /\ step = CentralCall[j + 1]
        BY <2>1, <3>0
      <4>2. j \in {0, 1, 2, 3, 4} /\ step = CentralCall[j + 1]
        BY <4>1
      <4> QED BY <4>2
    <3>2. /\ CentralCall[1] = Log /\ CentralCall[3] = Log /\ CentralCall[5] = Log
          /\ CentralCall[2] = Lock("s_central_cache_lock")
          /\ CentralCall[4] = Unlock("s_central_cache_lock")
      BY DEF CentralCall
    <3> QED BY <1>3, <2>3, <3>1, <3>2 DEF InMethod
  <2> QED BY <2>1, <2>2, <2>3
<1>4. CASE i = 3 /\ j = Len(Method(m))
  <2>1. /\ step = Outer(c)[k + 1] /\ k \in 0 .. Len(Outer(c)) - 1
        /\ k < Len(Outer(c)) /\ c \in {"call", "destructor"}
    BY <1>1, <1>4 DEF Ahead, IsPlace, Done
  <2>2. CASE c = "call"
    <3>0. Outer(c) = AllocatorCall /\ Len(Outer(c)) = 4
      BY <1>1, <2>2 DEF Outer
    <3>1. /\ k \in {0, 1, 2, 3}
          /\ k = 0 => step = AllocatorCall[1]
          /\ k = 1 => step = AllocatorCall[2]
          /\ k = 2 => step = AllocatorCall[3]
          /\ k = 3 => step = AllocatorCall[4]
      <4>1. k \in 0 .. 3 /\ step = AllocatorCall[k + 1]
        BY <2>1, <3>0
      <4>2. k \in {0, 1, 2, 3} /\ step = AllocatorCall[k + 1]
        BY <4>1
      <4> QED BY <4>2
    <3>2. /\ AllocatorCall[1] = << "get" >> /\ AllocatorCall[2] = Log
          /\ AllocatorCall[3] = << "central" >> /\ AllocatorCall[4] = Log
      BY DEF AllocatorCall
    <3> QED BY <1>4, <2>1, <2>2, <3>1, <3>2 DEF InOuter
  <2>3. CASE c = "destructor"
    <3>0. Outer(c) = TLSDestructor /\ Len(Outer(c)) = 5
      BY <1>1, <2>3 DEF Outer
    <3>1. /\ k \in {0, 1, 2, 3, 4}
          /\ k = 0 => step = TLSDestructor[1]
          /\ k = 1 => step = TLSDestructor[2]
          /\ k = 2 => step = TLSDestructor[3]
          /\ k = 3 => step = TLSDestructor[4]
          /\ k = 4 => step = TLSDestructor[5]
      <4>1. k \in 0 .. 4 /\ step = TLSDestructor[k + 1]
        BY <2>1, <3>0
      <4>2. k \in {0, 1, 2, 3, 4} /\ step = TLSDestructor[k + 1]
        BY <4>1
      <4> QED BY <4>2
    <3>2. /\ TLSDestructor[1] = Log /\ TLSDestructor[2] = Log /\ TLSDestructor[5] = Log
          /\ TLSDestructor[3] = << "central" >> /\ TLSDestructor[4] = << "gone" >>
      BY DEF TLSDestructor
    <3> QED BY <1>4, <2>1, <2>3, <3>1, <3>2 DEF InOuter
  <2> QED BY <2>1, <2>2, <2>3
<1>5. i < 3 \/ (i = 3 /\ j < Len(Method(m))) \/ (i = 3 /\ j = Len(Method(m)))
  BY <1>1 DEF IsPlace
<1> QED BY <1>2, <1>3, <1>4, <1>5

LEMMA RestType ==
  ASSUME NEW i, NEW m, NEW j, NEW c, NEW k, IsPlace(i, m, j, c, k)
  PROVE  Rest(i, m, j, c, k) \in Seq(Steps)
<1>1. /\ i \in 0 .. Len(printf) /\ j \in 0 .. Len(Method(m)) /\ k \in 0 .. Len(Outer(c))
      /\ printf \in Seq(Steps) /\ Method(m) \in Seq(Steps) /\ Outer(c) \in Seq(Steps)
  BY Pieces, Methods DEF IsPlace
<1>2. After(printf, i) \in Seq(Steps)
  BY <1>1, AfterEffect
<1>3. After(Method(m), j) \in Seq(Steps)
  BY <1>1, AfterEffect
<1>4. After(Outer(c), k) \in Seq(Steps)
  BY <1>1, AfterEffect
<1> HIDE DEF Steps
<1> QED BY <1>2, <1>3, <1>4 DEF Rest

(* A printf begins where none is under way, a method where none is, and a call
   or destructor where there is nothing left to do. *)
LEMMA PrintfBegins ==
  ASSUME NEW m, NEW j, NEW c, NEW k, IsPlace(3, m, j, c, k)
  PROVE  /\ printf \o Rest(3, m, j, c, k) = Rest(0, m, j, c, k)
         /\ IsPlace(0, m, j, c, k)
<1>1. /\ j \in 0 .. Len(Method(m)) /\ k \in 0 .. Len(Outer(c)) /\ Len(printf) = 3
      /\ printf \in Seq(Steps) /\ Method(m) \in Seq(Steps) /\ Outer(c) \in Seq(Steps)
  BY Pieces, Methods DEF IsPlace
<1>2. 0 \in 0 .. Len(printf) /\ 3 \in 0 .. Len(printf)
  BY <1>1
<1>3. After(printf, 3) = << >> /\ After(printf, 0) = printf
  BY <1>1, <1>2, AfterEffect
<1> DEFINE z == After(Method(m), j) \o After(Outer(c), k)
<1>4. After(Method(m), j) \in Seq(Steps)
  BY <1>1, AfterEffect
<1>5. After(Outer(c), k) \in Seq(Steps)
  BY <1>1, AfterEffect
<1>6. z \in Seq(Steps)
  BY <1>4, <1>5, JoinEffect
<1>7. Rest(3, m, j, c, k) = After(printf, 3) \o z /\ Rest(0, m, j, c, k) = After(printf, 0) \o z
  BY DEF Rest
<1> HIDE DEF z
<1>8. << >> \o z = z
  BY <1>6
<1>9. printf \o Rest(3, m, j, c, k) = Rest(0, m, j, c, k)
  BY <1>3, <1>7, <1>8
<1>10. IsPlace(0, m, j, c, k)
  BY DEF IsPlace
<1> QED BY <1>9, <1>10

LEMMA MethodBegins ==
  ASSUME NEW m, NEW c, NEW k, IsPlace(3, m, Len(Method(m)), c, k), NEW n \in {"create", "central"}
  PROVE  /\ Method(n) \o Rest(3, m, Len(Method(m)), c, k) = Rest(3, n, 0, c, k)
         /\ IsPlace(3, n, 0, c, k)
<1> DEFINE j == Len(Method(m))
<1>1. /\ k \in 0 .. Len(Outer(c)) /\ Len(printf) = 3 /\ j \in Nat
      /\ printf \in Seq(Steps) /\ Method(m) \in Seq(Steps) /\ Outer(c) \in Seq(Steps)
      /\ Method(n) \in Seq(Steps) /\ Len(Method(n)) \in Nat
  BY Pieces, Methods DEF IsPlace
<1>2. 3 \in 0 .. Len(printf) /\ j \in 0 .. Len(Method(m)) /\ 0 \in 0 .. Len(Method(n))
  BY <1>1
<1>3. After(printf, 3) = << >>
  BY <1>1, <1>2, AfterEffect
<1>4. After(Method(m), j) = << >>
  BY <1>1, <1>2, AfterEffect
<1>5. After(Method(n), 0) = Method(n)
  BY <1>1, <1>2, AfterEffect
<1> DEFINE y == After(Outer(c), k)
<1>6. y \in Seq(Steps)
  BY <1>1, AfterEffect
<1> HIDE DEF y
<1>7. /\ << >> \o (<< >> \o y) = y
      /\ << >> \o (Method(n) \o y) = Method(n) \o y
  <2>1. << >> \o y = y
    BY <1>6
  <2>2. Method(n) \o y \in Seq(Steps)
    BY <1>1, <1>6
  <2> QED BY <2>1, <2>2
<1>8. Rest(3, m, j, c, k) = y /\ Rest(3, n, 0, c, k) = Method(n) \o y
  BY <1>3, <1>4, <1>5, <1>7 DEF Rest, y
<1> QED BY <1>2, <1>8 DEF IsPlace

LEMMA OuterBegins ==
  ASSUME NEW m \in {"create", "central"}, NEW d \in {"call", "destructor"}
  PROVE  /\ Outer(d) = Rest(3, m, Len(Method(m)), d, 0)
         /\ IsPlace(3, m, Len(Method(m)), d, 0)
<1> DEFINE j == Len(Method(m))
<1>1. /\ Len(printf) = 3 /\ j \in Nat /\ Len(Outer(d)) \in Nat
      /\ printf \in Seq(Steps) /\ Method(m) \in Seq(Steps) /\ Outer(d) \in Seq(Steps)
  <2>1. Len(printf) = 3 /\ printf \in Seq(Steps)
    BY Pieces
  <2>2. j \in Nat /\ Len(Outer(d)) \in Nat /\ Method(m) \in Seq(Steps) /\ Outer(d) \in Seq(Steps)
    BY Methods
  <2> QED BY <2>1, <2>2
<1>2. 3 \in 0 .. Len(printf) /\ j \in 0 .. Len(Method(m)) /\ 0 \in 0 .. Len(Outer(d))
  BY <1>1
<1>3. After(printf, 3) = << >>
  BY <1>1, <1>2, AfterEffect
<1>4. After(Method(m), j) = << >>
  BY <1>1, <1>2, AfterEffect
<1>5. After(Outer(d), 0) = Outer(d)
  BY <1>1, <1>2, AfterEffect
<1>6. << >> \o (<< >> \o Outer(d)) = Outer(d)
  BY <1>1
<1>7. IsPlace(3, m, j, d, 0)
  BY <1>2 DEF IsPlace
<1>8. Rest(3, m, j, d, 0) = << >> \o (<< >> \o Outer(d))
  BY <1>3, <1>4, <1>5 DEF Rest
<1> QED BY <1>6, <1>7, <1>8

-----------------------------------------------------------------------------
(* The inductive invariant: every thread stands at a place, which says what it
   holds and how far its allocator is made or unmade. *)
InStdout(i)     == i \in {1, 2}
InMaker(m, j)   == m = "create" /\ j \in {2, 3, 4}
InCentral(m, j) == m = "central" /\ j \in {2, 3}
Making(m, j)    == m = "create" /\ j \in 0 .. 6
Made(m, j)      == m = "create" /\ j \in {4, 5, 6}
Leaving(c, k)   == c = "destructor" /\ k \in 0 .. 3

Holds(t, i, m, j) ==
  /\ holder["stdout"] = t <=> InStdout(i)
  /\ holder["sCacheAllocateLock"] = t <=> InMaker(m, j)
  /\ holder["s_central_cache_lock"] = t <=> InCentral(m, j)

Recorded(t, m, j, c, k) ==
  /\ Making(m, j) => c = "call"
  /\ Making(m, j) \/ Leaving(c, k) => key[t] = FALSE
  /\ allocators[t] = IF key[t] = TRUE \/ Made(m, j) \/ Leaving(c, k) THEN 1 ELSE 0

Keeps(t, i, m, j, c, k) == Holds(t, i, m, j) /\ Recorded(t, m, j, c, k)

Stands(t, i, m, j, c, k) ==
  IsPlace(i, m, j, c, k) /\ todo[t] = Rest(i, m, j, c, k) /\ Keeps(t, i, m, j, c, k)

Placed(t) ==
  \E i \in 0 .. 3, m \in {"create", "central"}, j \in 0 .. 7,
     c \in {"call", "destructor"}, k \in 0 .. 5 : Stands(t, i, m, j, c, k)

TodoTypeOK == DOMAIN todo = Threads /\ todo = [t \in Threads |-> todo[t]]

LogIInv ==
  /\ TodoTypeOK /\ LogTypeOK
  /\ depth = IF holder["stdout"] = NoThread THEN 0 ELSE 1
  /\ \A t \in Threads : Placed(t)

LEMMA PlaceNumbers ==
  ASSUME NEW i, NEW m, NEW j, NEW c, NEW k, IsPlace(i, m, j, c, k)
  PROVE  /\ i \in 0 .. 3 /\ j \in 0 .. 7 /\ k \in 0 .. 5
         /\ m \in {"create", "central"} /\ c \in {"call", "destructor"}
         /\ Len(Method(m)) = IF m = "create" THEN 7 ELSE 5
         /\ Len(Outer(c)) = IF c = "call" THEN 4 ELSE 5
<1>1. /\ Len(Method(m)) = IF m = "create" THEN 7 ELSE 5
      /\ Len(Outer(c)) = IF c = "call" THEN 4 ELSE 5
  BY Methods
<1> QED BY <1>1 DEF IsPlace

(* Two places at which a thread holds and has recorded the same. *)
SamePlace(i, m, j, c, k, a, n, b, d, e) ==
  /\ InStdout(i) <=> InStdout(a)
  /\ InMaker(m, j) <=> InMaker(n, b)
  /\ InCentral(m, j) <=> InCentral(n, b)
  /\ Making(m, j) <=> Making(n, b)
  /\ Made(m, j) <=> Made(n, b)
  /\ Leaving(c, k) <=> Leaving(d, e)
  /\ Making(n, b) => d = c

LEMMA SameKept ==
  ASSUME NEW t, NEW i, NEW m, NEW j, NEW c, NEW k, NEW a, NEW n, NEW b, NEW d, NEW e,
         Keeps(t, i, m, j, c, k), SamePlace(i, m, j, c, k, a, n, b, d, e)
  PROVE  Keeps(t, a, n, b, d, e)
BY DEF Keeps, Holds, Recorded, SamePlace

(* What a thread holds and records between two calls, and where a call, a
   destructor or a method begins. *)
LEMMA Marks ==
  ASSUME NEW i, NEW m, NEW j, NEW c, NEW k
  PROVE  /\ i = 3 \/ i = 0 => ~ InStdout(i)
         /\ (m = "create" /\ j = 7) \/ (m = "central" /\ j = 5) \/ (m = "central" /\ j = 0) =>
              ~ InMaker(m, j) /\ ~ InCentral(m, j) /\ ~ Making(m, j) /\ ~ Made(m, j)
         /\ m = "create" /\ j = 0 =>
              ~ InMaker(m, j) /\ ~ InCentral(m, j) /\ Making(m, j) /\ ~ Made(m, j)
         /\ c = "call" => ~ Leaving(c, k)
         /\ c = "destructor" /\ k \in 0 .. 3 => Leaving(c, k)
         /\ k \in {4, 5} => ~ Leaving(c, k)
BY DEF InStdout, InMaker, InCentral, Making, Made, Leaving

(* What a step of t leaves alone. *)
OthersKept(t) ==
  \A u \in Threads \ {t} :
    /\ key'[u] = key[u] /\ allocators'[u] = allocators[u]
    /\ \A l \in Locks : holder'[l] = u <=> holder[l] = u

Counted == depth = IF holder["stdout"] = NoThread THEN 0 ELSE 1

LEMMA OneSteps ==
  ASSUME LogIInv, NEW t \in Threads, NEW i, NEW m, NEW j, NEW c, NEW k,
         IsPlace(i, m, j, c, k), Keeps(t, i, m, j, c, k)',
         todo' = [todo EXCEPT ![t] = Rest(i, m, j, c, k)],
         OthersKept(t), LogTypeOK', Counted'
  PROVE  LogIInv'
<1>1. TodoTypeOK' /\ todo'[t] = Rest(i, m, j, c, k)
      /\ \A u \in Threads \ {t} : todo'[u] = todo[u]
  BY DEF LogIInv, TodoTypeOK
<1>2. Placed(t)'
  <2>1. Stands(t, i, m, j, c, k)'
    BY <1>1 DEF Stands
  <2> QED BY <2>1, PlaceNumbers DEF Stands, Placed
<1>3. ASSUME NEW u \in Threads \ {t} PROVE Placed(u)'
  <2>1. PICK a \in 0 .. 3, n \in {"create", "central"}, b \in 0 .. 7,
             d \in {"call", "destructor"}, e \in 0 .. 5 : Stands(u, a, n, b, d, e)
    BY DEF LogIInv, Placed
  <2>2. {"stdout", "sCacheAllocateLock", "s_central_cache_lock"} \subseteq Locks
    BY DEF Locks
  <2>3. Keeps(u, a, n, b, d, e)'
    BY <2>1, <2>2 DEF Stands, Keeps, Holds, Recorded, OthersKept
  <2> QED BY <1>1, <2>1, <2>3 DEF Stands, Placed
<1> QED BY <1>1, <1>2, <1>3 DEF LogIInv, Counted

(* The place before a step, and the one after it if nothing is put in front. *)
Moves(step, i, m, j, c, k, a, b, e) ==
  \/ i < 3 /\ InPrintf(i, step) /\ a = i + 1 /\ b = j /\ e = k
  \/ i = 3 /\ j < Len(Method(m)) /\ InMethod(m, j, step) /\ a = 3 /\ b = j + 1 /\ e = k
  \/ /\ i = 3 /\ j = Len(Method(m)) /\ k < Len(Outer(c)) /\ InOuter(c, k, step)
     /\ a = 3 /\ b = j /\ e = k + 1

LEMMA StepOff ==
  ASSUME NEW t, NEW i, NEW m, NEW j, NEW c, NEW k, Stands(t, i, m, j, c, k),
         NEW step, Does(t, step)
  PROVE  \E a, b, e : /\ Moves(step, i, m, j, c, k, a, b, e)
                      /\ IsPlace(a, m, b, c, e)
                      /\ Tail(todo[t]) = Rest(a, m, b, c, e)
<1> DEFINE r == Rest(i, m, j, c, k)
<1>1. IsPlace(i, m, j, c, k) /\ todo[t] = r /\ r # << >> /\ Head(r) = step
  BY DEF Stands, Does, Idle
<1> HIDE DEF r
<1>2. /\ ~ Done(i, m, j, c, k) /\ step = Ahead(i, m, j, c, k)
      /\ i < 3 => Tail(r) = Rest(i + 1, m, j, c, k)
      /\ i = 3 /\ j < Len(Method(m)) => Tail(r) = Rest(i, m, j + 1, c, k)
      /\ i = 3 /\ j = Len(Method(m)) /\ k < Len(Outer(c)) => Tail(r) = Rest(i, m, j, c, k + 1)
  BY <1>1, RestEffect DEF r
<1>3. \/ i < 3 /\ InPrintf(i, step)
      \/ i = 3 /\ j < Len(Method(m)) /\ InMethod(m, j, step)
      \/ i = 3 /\ j = Len(Method(m)) /\ k < Len(Outer(c)) /\ InOuter(c, k, step)
  BY <1>1, <1>2, StepAhead
<1>4. CASE i < 3 /\ InPrintf(i, step)
  <2>1. IsPlace(i + 1, m, j, c, k)
    BY <1>1, <1>4 DEF IsPlace
  <2>2. Moves(step, i, m, j, c, k, i + 1, j, k)
    BY <1>4 DEF Moves
  <2> QED BY <1>1, <1>2, <1>4, <2>1, <2>2
<1>5. CASE i = 3 /\ j < Len(Method(m)) /\ InMethod(m, j, step)
  <2>1. IsPlace(3, m, j + 1, c, k)
    <3>1. Len(Method(m)) \in Nat
      BY Methods
    <3> QED BY <1>1, <1>5, <3>1 DEF IsPlace
  <2>2. Moves(step, i, m, j, c, k, 3, j + 1, k)
    BY <1>5 DEF Moves
  <2> QED BY <1>1, <1>2, <1>5, <2>1, <2>2
<1>6. CASE i = 3 /\ j = Len(Method(m)) /\ k < Len(Outer(c)) /\ InOuter(c, k, step)
  <2>1. IsPlace(3, m, j, c, k + 1)
    <3>1. Len(Outer(c)) \in Nat
      BY Methods
    <3> QED BY <1>1, <1>6, <3>1 DEF IsPlace
  <2>2. Moves(step, i, m, j, c, k, 3, j, k + 1)
    BY <1>6 DEF Moves
  <2> QED BY <1>1, <1>2, <1>6, <2>1, <2>2
<1> QED BY <1>3, <1>4, <1>5, <1>6

LEMMA MethodDone ==
  ASSUME NEW i, NEW m, NEW j, NEW c, NEW k, IsPlace(i, m, j, c, k), j = Len(Method(m))
  PROVE  (m = "create" /\ j = 7) \/ (m = "central" /\ j = 5)
<1>1. m \in {"create", "central"}
  BY DEF IsPlace
<1>2. Len(Method(m)) = IF m = "create" THEN 7 ELSE 5
  BY Methods
<1> QED BY <1>1, <1>2

(* Which place a step has. *)
LEMMA Where ==
  ASSUME NEW step, NEW i, NEW m, NEW j, NEW c, NEW k, NEW a, NEW b, NEW e,
         Moves(step, i, m, j, c, k, a, b, e)
  PROVE  /\ Kind(step) = "get" =>
              i = 3 /\ j = Len(Method(m)) /\ c = "call" /\ k = 0 /\ a = 3 /\ b = j /\ e = k + 1
         /\ Kind(step) = "central" =>
              i = 3 /\ j = Len(Method(m)) /\ k = 2 /\ a = 3 /\ b = j /\ e = k + 1
         /\ Kind(step) = "gone" =>
              /\ i = 3 /\ j = Len(Method(m)) /\ c = "destructor" /\ k = 3
              /\ a = 3 /\ b = j /\ e = k + 1
         /\ Kind(step) = "made" =>
              i = 3 /\ m = "create" /\ j = 3 /\ a = 3 /\ b = j + 1 /\ e = k
         /\ Kind(step) = "set" =>
              i = 3 /\ m = "create" /\ j = 6 /\ a = 3 /\ b = j + 1 /\ e = k
<1>1. InPrintf(i, step) => Kind(step) \in {"lock", "unlock", "buffer"}
  BY StepKinds DEF InPrintf
<1>2. InMethod(m, j, step) => /\ Kind(step) \in {"log", "lock", "unlock", "made", "set"}
                              /\ Kind(step) = "made" => m = "create" /\ j = 3
                              /\ Kind(step) = "set" => m = "create" /\ j = 6
  BY StepKinds DEF InMethod
<1>3. InOuter(c, k, step) => /\ Kind(step) \in {"log", "get", "central", "gone"}
                             /\ Kind(step) = "get" => c = "call" /\ k = 0
                             /\ Kind(step) = "central" => k = 2
                             /\ Kind(step) = "gone" => c = "destructor" /\ k = 3
  BY StepKinds DEF InOuter
<1> QED BY <1>1, <1>2, <1>3 DEF Moves

LEMMA WhereTaken ==
  ASSUME NEW l, NEW step, step = Lock(l),
         NEW i, NEW m, NEW j, NEW c, NEW k, NEW a, NEW b, NEW e,
         Moves(step, i, m, j, c, k, a, b, e)
  PROVE  \/ l = "stdout" /\ i = 0 /\ a = 1 /\ b = j /\ e = k
         \/ /\ i = 3 /\ j = 1 /\ a = 3 /\ b = 2 /\ e = k
            /\ \/ m = "create" /\ l = "sCacheAllocateLock"
               \/ m = "central" /\ l = "s_central_cache_lock"
<1>1. Kind(step) = "lock" /\ step[2] = l
  BY StepKinds
<1>2. InPrintf(i, step) => i = 0 /\ step[2] = "stdout"
  BY <1>1, StepKinds DEF InPrintf
<1>3. InMethod(m, j, step) => /\ j = 1
                              /\ \/ m = "create" /\ step[2] = "sCacheAllocateLock"
                                 \/ m = "central" /\ step[2] = "s_central_cache_lock"
  BY <1>1, StepKinds DEF InMethod
<1>4. ~ InOuter(c, k, step)
  BY <1>1, StepKinds DEF InOuter
<1> QED BY <1>1, <1>2, <1>3, <1>4 DEF Moves

LEMMA WhereReleased ==
  ASSUME NEW l, NEW step, step = Unlock(l),
         NEW i, NEW m, NEW j, NEW c, NEW k, NEW a, NEW b, NEW e,
         Moves(step, i, m, j, c, k, a, b, e)
  PROVE  \/ l = "stdout" /\ i = 2 /\ a = 3 /\ b = j /\ e = k
         \/ /\ i = 3 /\ a = 3 /\ e = k
            /\ \/ m = "create" /\ j = 4 /\ b = 5 /\ l = "sCacheAllocateLock"
               \/ m = "central" /\ j = 3 /\ b = 4 /\ l = "s_central_cache_lock"
<1>1. Kind(step) = "unlock" /\ step[2] = l
  BY StepKinds
<1>2. InPrintf(i, step) => i = 2 /\ step[2] = "stdout"
  BY <1>1, StepKinds DEF InPrintf
<1>3. InMethod(m, j, step) => \/ m = "create" /\ j = 4 /\ step[2] = "sCacheAllocateLock"
                              \/ m = "central" /\ j = 3 /\ step[2] = "s_central_cache_lock"
  BY <1>1, StepKinds DEF InMethod
<1>4. ~ InOuter(c, k, step)
  BY <1>1, StepKinds DEF InOuter
<1> QED BY <1>1, <1>2, <1>3, <1>4 DEF Moves

BufferSteps == {<< "buffer" >>, << "buffer is here" >>}

LEMMA WhereBuffered ==
  ASSUME NEW step, step \in BufferSteps,
         NEW i, NEW m, NEW j, NEW c, NEW k, NEW a, NEW b, NEW e,
         Moves(step, i, m, j, c, k, a, b, e)
  PROVE  i = 1 /\ a = 2 /\ b = j /\ e = k
<1>1. Kind(step) \in {"buffer", "buffer is here"}
  <2>1. \A s : step = << s >> => Kind(step) = s
    BY StepKinds
  <2> QED BY <2>1 DEF BufferSteps
<1>2. InPrintf(i, step) => i = 1
  BY <1>1, StepKinds DEF InPrintf
<1>3. ~ InMethod(m, j, step) /\ ~ InOuter(c, k, step)
  BY <1>1, StepKinds DEF InMethod, InOuter
<1> QED BY <1>2, <1>3 DEF Moves

LEMMA WhereLogs ==
  ASSUME NEW i, NEW m, NEW j, NEW c, NEW k, NEW a, NEW b, NEW e,
         Moves(Log, i, m, j, c, k, a, b, e)
  PROVE  /\ i = 3 /\ a = 3
         /\ \/ m = "create" /\ j \in {0, 2, 5} /\ b = j + 1 /\ e = k
            \/ m = "central" /\ j \in {0, 2, 4} /\ b = j + 1 /\ e = k
            \/ /\ j = Len(Method(m)) /\ b = j /\ e = k + 1
               /\ (c = "call" /\ k \in {1, 3}) \/ (c = "destructor" /\ k \in {0, 1, 4})
<1>1. Kind(Log) = "log"
  BY StepKinds
<1>2. ~ InPrintf(i, Log)
  <2>1. InPrintf(i, Log) => Kind(Log) \in {"lock", "unlock", "buffer"}
    BY StepKinds DEF InPrintf
  <2> QED BY <1>1, <2>1
<1>3. InMethod(m, j, Log) => \/ m = "create" /\ j \in {0, 2, 5}
                             \/ m = "central" /\ j \in {0, 2, 4}
  <2> DEFINE step == Log
  <2>1. InMethod(m, j, step) /\ Kind(step) = "log" => \/ m = "create" /\ j \in {0, 2, 5}
                                                      \/ m = "central" /\ j \in {0, 2, 4}
    <3> HIDE DEF step
    <3> QED BY StepKinds DEF InMethod
  <2> QED BY <1>1, <2>1
<1>4. InOuter(c, k, Log) => \/ c = "call" /\ k \in {1, 3}
                            \/ c = "destructor" /\ k \in {0, 1, 4}
  <2> DEFINE step == Log
  <2>1. InOuter(c, k, step) /\ Kind(step) = "log" => \/ c = "call" /\ k \in {1, 3}
                                                     \/ c = "destructor" /\ k \in {0, 1, 4}
    <3> HIDE DEF step
    <3> QED BY StepKinds DEF InOuter
  <2> QED BY <1>1, <2>1
<1> QED BY <1>2, <1>3, <1>4 DEF Moves

-----------------------------------------------------------------------------
LEMMA ContinueTail ==
  ASSUME NEW t, NEW i, NEW m, NEW j, NEW c, NEW k, IsPlace(i, m, j, c, k),
         Tail(todo[t]) = Rest(i, m, j, c, k), Continue(t, << >>)
  PROVE  todo' = [todo EXCEPT ![t] = Rest(i, m, j, c, k)]
<1>1. << >> \o Rest(i, m, j, c, k) = Rest(i, m, j, c, k)
  BY RestType
<1> QED BY <1>1 DEF Continue

LEMMA TypeParts ==
  ASSUME LogIInv
  PROVE  /\ LogTypeOK /\ Counted /\ TodoTypeOK
         /\ {"stdout", "sCacheAllocateLock", "s_central_cache_lock"} \subseteq Locks
         /\ \A t \in Threads : \E i, m, j, c, k : Stands(t, i, m, j, c, k)
  BY DEF LogIInv, Counted, Placed, Locks

(* The steps of a thread that touch neither lock nor record. *)
LEMMA QuietStep ==
  ASSUME LogIInv, NEW t \in Threads, NEW i, NEW m, NEW j, NEW c, NEW k,
         IsPlace(i, m, j, c, k), Keeps(t, i, m, j, c, k),
         todo' = [todo EXCEPT ![t] = Rest(i, m, j, c, k)],
         UNCHANGED << holder, depth, key, allocators >>, buffered' \in BOOLEAN
  PROVE  LogIInv'
<1>1. Keeps(t, i, m, j, c, k)'
  BY DEF Keeps, Holds, Recorded
<1>2. OthersKept(t)
  BY DEF OthersKept
<1>3. LogTypeOK' /\ Counted'
  BY TypeParts DEF LogTypeOK, Counted
<1> QED BY <1>1, <1>2, <1>3, OneSteps

LEMMA CallStep ==
  ASSUME LogIInv, NEW t \in Threads, Call(t) \/ Prints(t)
  PROVE  LogIInv'
<1>1. PICK i, m, j, c, k : Stands(t, i, m, j, c, k)
  BY TypeParts
<1>2. IsPlace(i, m, j, c, k) /\ Keeps(t, i, m, j, c, k) /\ Done(i, m, j, c, k)
      /\ Rest(i, m, j, c, k) = << >>
  BY <1>1, RestEffect DEF Stands, Call, Prints, Idle
<1>3. /\ i = 3 /\ j = Len(Method(m)) /\ k = Len(Outer(c)) /\ m \in {"create", "central"}
      /\ ((m = "create" /\ j = 7) \/ (m = "central" /\ j = 5)) /\ k \in {4, 5}
  <2>1. i = 3 /\ j = Len(Method(m)) /\ k = Len(Outer(c)) /\ m \in {"create", "central"}
    BY <1>2 DEF Done, IsPlace
  <2> QED BY <1>2, <2>1, MethodDone, Methods
<1>4. ASSUME Call(t) PROVE LogIInv'
  <2>1. Outer("call") = Rest(3, m, j, "call", 0) /\ IsPlace(3, m, j, "call", 0)
    BY <1>3, OuterBegins
  <2>2. todo' = [todo EXCEPT ![t] = Rest(3, m, j, "call", 0)]
    BY <1>4, <2>1 DEF Call, Outer
  <2>3. SamePlace(i, m, j, c, k, 3, m, j, "call", 0)
    BY <1>3, Marks DEF SamePlace
  <2>4. Keeps(t, 3, m, j, "call", 0)
    BY <1>2, <2>3, SameKept
  <2> QED BY <1>4, <2>1, <2>2, <2>4, QuietStep, TypeParts DEF Call, LogTypeOK
<1>5. ASSUME Prints(t) PROVE LogIInv'
  <2>1. printf \o Rest(3, m, j, c, k) = Rest(0, m, j, c, k) /\ IsPlace(0, m, j, c, k)
    BY <1>2, <1>3, PrintfBegins
  <2>2. Rest(0, m, j, c, k) = printf
    <3>1. Rest(3, m, j, c, k) = << >> /\ printf \o << >> = printf
      BY <1>2, <1>3, Pieces
    <3> QED BY <2>1, <3>1
  <2>3. todo' = [todo EXCEPT ![t] = Rest(0, m, j, c, k)]
    BY <1>5, <2>2 DEF Prints
  <2>4. SamePlace(i, m, j, c, k, 0, m, j, c, k)
    BY <1>3 DEF SamePlace, InStdout, InMaker, InCentral, Making, Made, Leaving
  <2>5. Keeps(t, 0, m, j, c, k)
    BY <1>2, <2>4, SameKept
  <2> QED BY <1>5, <2>1, <2>3, <2>5, QuietStep, TypeParts DEF Prints, LogTypeOK
<1> QED BY <1>4, <1>5

LEMMA ExitStep == ASSUME LogIInv, NEW t \in Threads, ThreadExit(t) PROVE LogIInv'
<1>1. PICK i, m, j, c, k : Stands(t, i, m, j, c, k)
  BY TypeParts
<1>2. IsPlace(i, m, j, c, k) /\ Keeps(t, i, m, j, c, k) /\ Done(i, m, j, c, k)
  BY <1>1, RestEffect DEF Stands, ThreadExit, Idle
<1>3. /\ i = 3 /\ j = Len(Method(m)) /\ k = Len(Outer(c)) /\ m \in {"create", "central"}
      /\ ((m = "create" /\ j = 7) \/ (m = "central" /\ j = 5))
  <2>1. i = 3 /\ j = Len(Method(m)) /\ k = Len(Outer(c)) /\ m \in {"create", "central"}
    BY <1>2 DEF Done, IsPlace
  <2> QED BY <1>2, <2>1, MethodDone
<1>4. Outer("destructor") = Rest(3, m, j, "destructor", 0) /\ IsPlace(3, m, j, "destructor", 0)
  BY <1>3, OuterBegins
<1>5. todo' = [todo EXCEPT ![t] = Rest(3, m, j, "destructor", 0)]
  BY <1>4 DEF ThreadExit, Outer
<1>6. /\ key[t] /\ key' = [key EXCEPT ![t] = FALSE] /\ allocators' = allocators
      /\ holder' = holder /\ depth' = depth /\ buffered' = buffered
  BY DEF ThreadExit
<1>7. key \in [Threads -> BOOLEAN] /\ key' \in [Threads -> BOOLEAN] /\ key'[t] = FALSE
      /\ \A u \in Threads \ {t} : key'[u] = key[u]
  BY <1>6, TypeParts DEF LogTypeOK
<1>8. allocators[t] = 1
  <2>1. key[t] = TRUE
    BY <1>6, <1>7
  <2> QED BY <1>2, <2>1 DEF Keeps, Recorded
<1>9. Keeps(t, 3, m, j, "destructor", 0)'
  <2>1. /\ InStdout(i) <=> InStdout(3)
        /\ ~ Making(m, j) /\ Leaving("destructor", 0)
    <3>1. 0 \in 0 .. 3
      OBVIOUS
    <3> QED BY <1>3, <3>1, Marks
  <2>2. Holds(t, 3, m, j)'
    BY <1>2, <1>6, <2>1 DEF Keeps, Holds
  <2>3. Recorded(t, m, j, "destructor", 0)'
    BY <1>6, <1>7, <1>8, <2>1 DEF Recorded
  <2> QED BY <2>2, <2>3 DEF Keeps
<1>10. OthersKept(t)
  BY <1>6, <1>7 DEF OthersKept
<1>11. LogTypeOK' /\ Counted'
  BY <1>6, <1>7, TypeParts DEF LogTypeOK, Counted
<1> QED BY <1>4, <1>5, <1>9, <1>10, <1>11, OneSteps

LEMMA GetStep == ASSUME LogIInv, NEW t \in Threads, GetAllocator(t) PROVE LogIInv'
<1>1. PICK i, m, j, c, k : Stands(t, i, m, j, c, k)
  BY TypeParts
<1>0. PICK step : Kind(step) = "get" /\ Does(t, step)
  BY StepKinds DEF GetAllocator
<1>2. PICK a, b, e : /\ Moves(step, i, m, j, c, k, a, b, e) /\ IsPlace(a, m, b, c, e)
                     /\ Tail(todo[t]) = Rest(a, m, b, c, e)
  <2>1. Does(t, step)
    BY <1>0
  <2> QED BY <1>1, <2>1, StepOff
<1>3. /\ i = 3 /\ j = Len(Method(m)) /\ c = "call" /\ k = 0 /\ a = 3 /\ b = j /\ e = 1
      /\ m \in {"create", "central"} /\ ((m = "create" /\ j = 7) \/ (m = "central" /\ j = 5))
  <2>1. i = 3 /\ j = Len(Method(m)) /\ c = "call" /\ k = 0 /\ a = 3 /\ b = j /\ e = k + 1
    <3>1. Moves(step, i, m, j, c, k, a, b, e)
      BY <1>2
    <3> QED BY <1>0, <3>1, Where
  <2>2. m \in {"create", "central"} /\ ((m = "create" /\ j = 7) \/ (m = "central" /\ j = 5))
    BY <1>1, <2>1, MethodDone DEF IsPlace, Stands
  <2> QED BY <2>1, <2>2
<1>4. Keeps(t, i, m, j, c, k)
  BY <1>1 DEF Stands
<1>5. CASE key[t]
  <2>1. todo' = [todo EXCEPT ![t] = Rest(a, m, b, c, e)]
    BY <1>2, <1>5, ContinueTail DEF GetAllocator
  <2>2. SamePlace(i, m, j, c, k, a, m, b, c, e)
    BY <1>3 DEF SamePlace, InStdout, InMaker, InCentral, Making, Made, Leaving
  <2>3. Keeps(t, a, m, b, c, e)
    BY <1>4, <2>2, SameKept
  <2> QED BY <1>2, <2>1, <2>3, QuietStep, TypeParts DEF GetAllocator, LogTypeOK
<1>6. CASE ~ key[t]
  <2>1. Method("create") \o Rest(3, m, j, c, 1) = Rest(3, "create", 0, c, 1)
        /\ IsPlace(3, "create", 0, c, 1)
    <3>1. IsPlace(3, m, Len(Method(m)), c, 1) /\ j = Len(Method(m))
      BY <1>2, <1>3
    <3>2. "create" \in {"create", "central"}
      OBVIOUS
    <3> QED BY <3>1, <3>2, MethodBegins
  <2>2. todo' = [todo EXCEPT ![t] = Rest(3, "create", 0, c, 1)]
    <3>1. Method("create") = CreateMemAllocator /\ Tail(todo[t]) = Rest(3, m, j, c, 1)
      BY <1>2, <1>3 DEF Method
    <3>2. Continue(t, CreateMemAllocator)
      BY <1>6 DEF GetAllocator
    <3> QED BY <2>1, <3>1, <3>2 DEF Continue
  <2>3. Keeps(t, 3, "create", 0, c, 1)
    <3>1. /\ InStdout(i) <=> InStdout(3)
          /\ ~ InMaker(m, j) /\ ~ InMaker("create", 0)
          /\ ~ InCentral(m, j) /\ ~ InCentral("create", 0)
          /\ ~ Made(m, j) /\ ~ Made("create", 0)
          /\ ~ Leaving(c, k) /\ ~ Leaving(c, 1)
      BY <1>3, Marks
    <3>2. Holds(t, 3, "create", 0)
      BY <1>4, <3>1 DEF Keeps, Holds
    <3>3. key[t] = FALSE
      BY <1>6, TypeParts DEF LogTypeOK
    <3>4. Recorded(t, "create", 0, c, 1)
      BY <1>3, <1>4, <3>1, <3>3 DEF Keeps, Recorded
    <3> QED BY <3>2, <3>4 DEF Keeps
  <2> QED BY <2>1, <2>2, <2>3, QuietStep, TypeParts DEF GetAllocator, LogTypeOK
<1> QED BY <1>5, <1>6

LEMMA LogStep == ASSUME LogIInv, NEW t \in Threads, FT_LOG(t) PROVE LogIInv'
<1>1. PICK i, m, j, c, k : Stands(t, i, m, j, c, k)
  BY TypeParts
<1>2. PICK a, b, e : /\ Moves(Log, i, m, j, c, k, a, b, e) /\ IsPlace(a, m, b, c, e)
                     /\ Tail(todo[t]) = Rest(a, m, b, c, e)
  BY <1>1, StepOff DEF FT_LOG
<1>3. /\ i = 3 /\ a = 3
      /\ \/ m = "create" /\ j \in {0, 2, 5} /\ b = j + 1 /\ e = k
         \/ m = "central" /\ j \in {0, 2, 4} /\ b = j + 1 /\ e = k
         \/ /\ j = Len(Method(m)) /\ b = j /\ e = k + 1
            /\ (c = "call" /\ k \in {1, 3}) \/ (c = "destructor" /\ k \in {0, 1, 4})
  BY <1>2, WhereLogs
<1>4. /\ Keeps(t, i, m, j, c, k) /\ IsPlace(i, m, j, c, k)
      /\ j = Len(Method(m)) => (m = "create" /\ j = 7) \/ (m = "central" /\ j = 5)
  BY <1>1, MethodDone DEF Stands
<1>5. printf \o Rest(3, m, b, c, e) = Rest(0, m, b, c, e) /\ IsPlace(0, m, b, c, e)
  BY <1>2, <1>3, PrintfBegins
<1>6. todo' = [todo EXCEPT ![t] = Rest(0, m, b, c, e)]
  BY <1>2, <1>3, <1>5 DEF FT_LOG, Continue
<1>7. SamePlace(i, m, j, c, k, 0, m, b, c, e)
  <2>1. CASE m = "create" /\ j \in {0, 2, 5} /\ b = j + 1 /\ e = k
    BY <1>3, <2>1 DEF SamePlace, InStdout, InMaker, InCentral, Making, Made, Leaving
  <2>2. CASE m = "central" /\ j \in {0, 2, 4} /\ b = j + 1 /\ e = k
    BY <1>3, <2>2 DEF SamePlace, InStdout, InMaker, InCentral, Making, Made, Leaving
  <2>3. CASE /\ j = Len(Method(m)) /\ b = j /\ e = k + 1
             /\ (c = "call" /\ k \in {1, 3}) \/ (c = "destructor" /\ k \in {0, 1, 4})
    BY <1>3, <1>4, <2>3 DEF SamePlace, InStdout, InMaker, InCentral, Making, Made, Leaving
  <2> QED BY <1>3, <2>1, <2>2, <2>3
<1>8. Keeps(t, 0, m, b, c, e)
  <2>1. Keeps(t, i, m, j, c, k)
    BY <1>4
  <2> QED BY <1>7, <2>1, SameKept
<1> QED BY <1>5, <1>6, <1>8, QuietStep, TypeParts DEF FT_LOG, LogTypeOK

LEMMA CentralStep == ASSUME LogIInv, NEW t \in Threads, GoCentral(t) PROVE LogIInv'
<1>1. PICK i, m, j, c, k : Stands(t, i, m, j, c, k)
  BY TypeParts
<1>0. PICK step : Kind(step) = "central" /\ Does(t, step)
  BY StepKinds DEF GoCentral
<1>2. PICK a, b, e : /\ Moves(step, i, m, j, c, k, a, b, e) /\ IsPlace(a, m, b, c, e)
                     /\ Tail(todo[t]) = Rest(a, m, b, c, e)
  <2>1. Does(t, step)
    BY <1>0
  <2> QED BY <1>1, <2>1, StepOff
<1>3. /\ i = 3 /\ j = Len(Method(m)) /\ k = 2 /\ a = 3 /\ b = j /\ e = 3
      /\ m \in {"create", "central"} /\ ((m = "create" /\ j = 7) \/ (m = "central" /\ j = 5))
  <2>1. i = 3 /\ j = Len(Method(m)) /\ k = 2 /\ a = 3 /\ b = j /\ e = k + 1
    <3>1. Moves(step, i, m, j, c, k, a, b, e)
      BY <1>2
    <3> QED BY <1>0, <3>1, Where
  <2>2. m \in {"create", "central"} /\ ((m = "create" /\ j = 7) \/ (m = "central" /\ j = 5))
    BY <1>1, <2>1, MethodDone DEF IsPlace, Stands
  <2> QED BY <2>1, <2>2
<1>4. Keeps(t, i, m, j, c, k)
  BY <1>1 DEF Stands
<1>5. ASSUME Continue(t, << >>) PROVE LogIInv'
  <2>1. todo' = [todo EXCEPT ![t] = Rest(a, m, b, c, e)]
    BY <1>2, <1>5, ContinueTail
  <2>2. SamePlace(i, m, j, c, k, a, m, b, c, e)
    BY <1>3 DEF SamePlace, InStdout, InMaker, InCentral, Making, Made, Leaving
  <2>3. Keeps(t, a, m, b, c, e)
    BY <1>4, <2>2, SameKept
  <2> QED BY <1>2, <2>1, <2>3, QuietStep, TypeParts DEF GoCentral, LogTypeOK
<1>6. ASSUME Continue(t, CentralCall) PROVE LogIInv'
  <2>1. Method("central") \o Rest(3, m, j, c, 3) = Rest(3, "central", 0, c, 3)
        /\ IsPlace(3, "central", 0, c, 3)
    <3>1. IsPlace(3, m, Len(Method(m)), c, 3) /\ j = Len(Method(m))
      BY <1>2, <1>3
    <3>2. "central" \in {"create", "central"}
      OBVIOUS
    <3> QED BY <3>1, <3>2, MethodBegins
  <2>2. todo' = [todo EXCEPT ![t] = Rest(3, "central", 0, c, 3)]
    <3>1. Method("central") = CentralCall /\ Tail(todo[t]) = Rest(3, m, j, c, 3)
      BY <1>2, <1>3 DEF Method
    <3> QED BY <1>6, <2>1, <3>1 DEF Continue
  <2>3. SamePlace(i, m, j, c, k, 3, "central", 0, c, 3)
    <3>1. Leaving(c, k) <=> Leaving(c, 3)
      BY <1>3 DEF Leaving
    <3> QED BY <1>3, <3>1, Marks DEF SamePlace
  <2>4. Keeps(t, 3, "central", 0, c, 3)
    BY <1>4, <2>3, SameKept
  <2> QED BY <2>1, <2>2, <2>4, QuietStep, TypeParts DEF GoCentral, LogTypeOK
<1> QED BY <1>5, <1>6 DEF GoCentral

LEMMA AcquireStep ==
  ASSUME LogIInv, NEW t \in Threads, NEW l \in Locks, Acquire(t, l)
  PROVE  LogIInv'
<1>1. PICK i, m, j, c, k : Stands(t, i, m, j, c, k)
  BY TypeParts
<1>0. PICK step : step = Lock(l) /\ Does(t, step)
  BY DEF Acquire
<1>2. PICK a, b, e : /\ Moves(step, i, m, j, c, k, a, b, e) /\ IsPlace(a, m, b, c, e)
                     /\ Tail(todo[t]) = Rest(a, m, b, c, e)
  <2>1. Does(t, step)
    BY <1>0
  <2> QED BY <1>1, <2>1, StepOff
<1>3. \/ l = "stdout" /\ i = 0 /\ a = 1 /\ b = j /\ e = k
      \/ /\ i = 3 /\ j = 1 /\ a = 3 /\ b = 2 /\ e = k
         /\ \/ m = "create" /\ l = "sCacheAllocateLock"
            \/ m = "central" /\ l = "s_central_cache_lock"
  <2>1. step = Lock(l)
    BY <1>0
  <2>2. Moves(step, i, m, j, c, k, a, b, e)
    BY <1>2
  <2> QED BY <2>1, <2>2, WhereTaken
<1>4. Holds(t, i, m, j) /\ Recorded(t, m, j, c, k)
  BY <1>1 DEF Stands, Keeps
<1>5. /\ holder \in [Locks -> Threads \cup {NoThread}] /\ holder' = [holder EXCEPT ![l] = t]
      /\ \A n \in {"stdout", "sCacheAllocateLock", "s_central_cache_lock"} : n \in Locks
      /\ MayTake(t, l) /\ key' = key /\ allocators' = allocators /\ buffered' = buffered
      /\ depth' = IF l = "stdout" THEN depth + 1 ELSE depth
  BY TypeParts DEF Acquire, LogTypeOK
<1>6. holder'[l] = t /\ \A n \in Locks \ {l} : holder'[n] = holder[n]
  BY <1>5
<1>7. l = "stdout" => holder["stdout"] # t
  BY <1>3, <1>4 DEF Holds, InStdout
<1>8. holder[l] = NoThread
  BY <1>5, <1>7 DEF MayTake
<1>9. todo' = [todo EXCEPT ![t] = Rest(a, m, b, c, e)]
  BY <1>2, ContinueTail DEF Acquire
<1>10. Keeps(t, a, m, b, c, e)'
  <2>1. CASE l = "stdout" /\ i = 0 /\ a = 1 /\ b = j /\ e = k
    <3>1. InStdout(a)
      BY <2>1 DEF InStdout
    <3>2. Holds(t, a, m, b)'
      BY <1>4, <1>5, <1>6, <2>1, <3>1 DEF Holds
    <3> QED BY <1>4, <1>5, <2>1, <3>2 DEF Keeps, Recorded
  <2>2. CASE i = 3 /\ j = 1 /\ a = 3 /\ b = 2 /\ e = k /\ m = "create" /\ l = "sCacheAllocateLock"
    <3>1. /\ InStdout(a) <=> InStdout(i)
          /\ InMaker(m, b) /\ (InCentral(m, b) <=> InCentral(m, j))
          /\ (Making(m, b) <=> Making(m, j)) /\ (Made(m, b) <=> Made(m, j))
      BY <2>2 DEF InStdout, InMaker, InCentral, Making, Made
    <3>2. Holds(t, a, m, b)'
      BY <1>4, <1>5, <1>6, <2>2, <3>1 DEF Holds
    <3> QED BY <1>4, <1>5, <2>2, <3>1, <3>2 DEF Keeps, Recorded
  <2>3. CASE i = 3 /\ j = 1 /\ a = 3 /\ b = 2 /\ e = k /\ m = "central" /\ l = "s_central_cache_lock"
    <3>1. /\ InStdout(a) <=> InStdout(i)
          /\ InCentral(m, b) /\ (InMaker(m, b) <=> InMaker(m, j))
          /\ (Making(m, b) <=> Making(m, j)) /\ (Made(m, b) <=> Made(m, j))
      BY <2>3 DEF InStdout, InMaker, InCentral, Making, Made
    <3>2. Holds(t, a, m, b)'
      BY <1>4, <1>5, <1>6, <2>3, <3>1 DEF Holds
    <3> QED BY <1>4, <1>5, <2>3, <3>1, <3>2 DEF Keeps, Recorded
  <2> QED BY <1>3, <2>1, <2>2, <2>3
<1>11. OthersKept(t)
  BY <1>5, <1>6, <1>8, ThreadsAssumption DEF OthersKept
<1>12. LogTypeOK'
  <2>1. holder' \in [Locks -> Threads \cup {NoThread}]
    BY <1>5
  <2> QED BY <1>5, <2>1, TypeParts DEF LogTypeOK
<1>13. Counted'
  <2>1. CASE l = "stdout"
    <3>1. depth = 0 /\ depth' = 1 /\ holder'["stdout"] # NoThread
      BY <1>5, <1>6, <1>8, <2>1, TypeParts, ThreadsAssumption DEF Counted
    <3> QED BY <3>1 DEF Counted
  <2>2. CASE l # "stdout"
    BY <1>5, <1>6, <2>2, TypeParts DEF Counted
  <2> QED BY <2>1, <2>2
<1> QED BY <1>2, <1>9, <1>10, <1>11, <1>12, <1>13, OneSteps

LEMMA ReleaseStep ==
  ASSUME LogIInv, NEW t \in Threads, NEW l \in Locks, Release(t, l)
  PROVE  LogIInv'
<1>1. PICK i, m, j, c, k : Stands(t, i, m, j, c, k)
  BY TypeParts
<1>0. PICK step : step = Unlock(l) /\ Does(t, step)
  BY DEF Release
<1>2. PICK a, b, e : /\ Moves(step, i, m, j, c, k, a, b, e) /\ IsPlace(a, m, b, c, e)
                     /\ Tail(todo[t]) = Rest(a, m, b, c, e)
  <2>1. Does(t, step)
    BY <1>0
  <2> QED BY <1>1, <2>1, StepOff
<1>3. \/ l = "stdout" /\ i = 2 /\ a = 3 /\ b = j /\ e = k
      \/ /\ i = 3 /\ a = 3 /\ e = k
         /\ \/ m = "create" /\ j = 4 /\ b = 5 /\ l = "sCacheAllocateLock"
            \/ m = "central" /\ j = 3 /\ b = 4 /\ l = "s_central_cache_lock"
  <2>1. step = Unlock(l)
    BY <1>0
  <2>2. Moves(step, i, m, j, c, k, a, b, e)
    BY <1>2
  <2> QED BY <2>1, <2>2, WhereReleased
<1>4. Holds(t, i, m, j) /\ Recorded(t, m, j, c, k)
  BY <1>1 DEF Stands, Keeps
<1>5. /\ holder \in [Locks -> Threads \cup {NoThread}]
      /\ \A n \in {"stdout", "sCacheAllocateLock", "s_central_cache_lock"} : n \in Locks
      /\ key' = key /\ allocators' = allocators /\ buffered' = buffered
      /\ holder' = IF l = "stdout" /\ depth > 1 THEN holder ELSE [holder EXCEPT ![l] = NoThread]
      /\ depth' = IF l = "stdout" THEN depth - 1 ELSE depth
  BY TypeParts DEF Release, LogTypeOK
<1>6. holder[l] = t
  <2>1. l = "stdout" => InStdout(i)
    BY <1>3 DEF InStdout
  <2>2. l = "sCacheAllocateLock" => InMaker(m, j)
    BY <1>3 DEF InMaker
  <2>3. l = "s_central_cache_lock" => InCentral(m, j)
    BY <1>3 DEF InCentral
  <2> QED BY <1>3, <1>4, <2>1, <2>2, <2>3 DEF Holds
<1>7. l = "stdout" => depth = 1
  BY <1>6, TypeParts, ThreadsAssumption DEF Counted
<1>8. holder' = [holder EXCEPT ![l] = NoThread]
  BY <1>5, <1>7
<1>9. holder'[l] = NoThread /\ \A n \in Locks \ {l} : holder'[n] = holder[n]
  BY <1>5, <1>8
<1>10. todo' = [todo EXCEPT ![t] = Rest(a, m, b, c, e)]
  BY <1>2, ContinueTail DEF Release
<1>11. Keeps(t, a, m, b, c, e)'
  <2>0. NoThread # t
    BY ThreadsAssumption
  <2>1. CASE l = "stdout" /\ i = 2 /\ a = 3 /\ b = j /\ e = k
    <3>1. ~ InStdout(a)
      BY <2>1 DEF InStdout
    <3>2. Holds(t, a, m, b)'
      BY <1>4, <1>5, <1>9, <2>0, <2>1, <3>1 DEF Holds
    <3> QED BY <1>4, <1>5, <2>1, <3>2 DEF Keeps, Recorded
  <2>2. CASE i = 3 /\ a = 3 /\ e = k /\ m = "create" /\ j = 4 /\ b = 5 /\ l = "sCacheAllocateLock"
    <3>1. /\ InStdout(a) <=> InStdout(i)
          /\ ~ InMaker(m, b) /\ (InCentral(m, b) <=> InCentral(m, j))
          /\ (Making(m, b) <=> Making(m, j)) /\ (Made(m, b) <=> Made(m, j))
      BY <2>2 DEF InStdout, InMaker, InCentral, Making, Made
    <3>2. Holds(t, a, m, b)'
      BY <1>4, <1>5, <1>9, <2>0, <2>2, <3>1 DEF Holds
    <3> QED BY <1>4, <1>5, <2>2, <3>1, <3>2 DEF Keeps, Recorded
  <2>3. CASE i = 3 /\ a = 3 /\ e = k /\ m = "central" /\ j = 3 /\ b = 4 /\ l = "s_central_cache_lock"
    <3>1. /\ InStdout(a) <=> InStdout(i)
          /\ ~ InCentral(m, b) /\ (InMaker(m, b) <=> InMaker(m, j))
          /\ (Making(m, b) <=> Making(m, j)) /\ (Made(m, b) <=> Made(m, j))
      BY <2>3 DEF InStdout, InMaker, InCentral, Making, Made
    <3>2. Holds(t, a, m, b)'
      BY <1>4, <1>5, <1>9, <2>0, <2>3, <3>1 DEF Holds
    <3> QED BY <1>4, <1>5, <2>3, <3>1, <3>2 DEF Keeps, Recorded
  <2> QED BY <1>3, <2>1, <2>2, <2>3
<1>12. OthersKept(t)
  BY <1>5, <1>6, <1>9, ThreadsAssumption DEF OthersKept
<1>13. LogTypeOK'
  <2>1. holder' \in [Locks -> Threads \cup {NoThread}]
    BY <1>5, <1>8
  <2>2. depth' \in Nat
    BY <1>5, <1>7, TypeParts DEF LogTypeOK
  <2> QED BY <1>5, <2>1, <2>2, TypeParts DEF LogTypeOK
<1>14. Counted'
  <2>1. CASE l = "stdout"
    BY <1>5, <1>7, <1>9, <2>1 DEF Counted
  <2>2. CASE l # "stdout"
    BY <1>5, <1>9, <2>2, TypeParts DEF Counted
  <2> QED BY <2>1, <2>2
<1> QED BY <1>2, <1>10, <1>11, <1>12, <1>13, <1>14, OneSteps

(* Without a request of libc's own the buffer comes from the system. *)
LEMMA BufferStep ==
  ASSUME LogIInv, ~ BufferFromMalloc, NEW t \in Threads, Buffer(t)
  PROVE  LogIInv'
<1>1. PICK i, m, j, c, k : Stands(t, i, m, j, c, k)
  BY TypeParts
<1>2. PICK step : Does(t, step) /\ (step = << "buffer" >> \/ step = << "buffer is here" >>)
  BY DEF Buffer
<1>3. PICK a, b, e : /\ Moves(step, i, m, j, c, k, a, b, e) /\ IsPlace(a, m, b, c, e)
                     /\ Tail(todo[t]) = Rest(a, m, b, c, e)
  <2>1. Does(t, step)
    BY <1>2
  <2> QED BY <1>1, <2>1, StepOff
<1>4. i = 1 /\ a = 2 /\ b = j /\ e = k
  <2>1. step \in BufferSteps
    BY <1>2 DEF BufferSteps
  <2>2. Moves(step, i, m, j, c, k, a, b, e)
    BY <1>3
  <2> QED BY <2>1, <2>2, WhereBuffered
<1>5. Continue(t, << >>) /\ buffered' = TRUE /\ UNCHANGED << holder, depth, key, allocators >>
  BY DEF Buffer, Asks
<1>6. todo' = [todo EXCEPT ![t] = Rest(a, m, b, c, e)]
  <2>1. IsPlace(a, m, b, c, e) /\ Tail(todo[t]) = Rest(a, m, b, c, e) /\ Continue(t, << >>)
    BY <1>3, <1>5
  <2> QED BY <2>1, ContinueTail
<1>7. SamePlace(i, m, j, c, k, a, m, b, c, e)
  <2>1. Making(m, j) => c = c
    OBVIOUS
  <2> QED BY <1>4, <2>1 DEF SamePlace, InStdout
<1>8. Keeps(t, a, m, b, c, e)
  BY <1>1, <1>7, SameKept DEF Stands
<1> QED BY <1>3, <1>5, <1>6, <1>8, QuietStep

(* The thread's record: made, entered under the key, gone. *)
LEMMA MadeStep ==
  ASSUME LogIInv, NEW t \in Threads, Record(t), Does(t, << "made" >>)
  PROVE  LogIInv'
<1>0. PICK step : Kind(step) = "made" /\ Does(t, step)
  BY StepKinds
<1>1. PICK i, m, j, c, k : Stands(t, i, m, j, c, k)
  BY TypeParts
<1>2. PICK a, b, e : /\ Moves(step, i, m, j, c, k, a, b, e) /\ IsPlace(a, m, b, c, e)
                     /\ Tail(todo[t]) = Rest(a, m, b, c, e)
  <2>1. Does(t, step)
    BY <1>0
  <2> QED BY <1>1, <2>1, StepOff
<1>3. i = 3 /\ m = "create" /\ j = 3 /\ a = 3 /\ b = j + 1 /\ e = k
  <2>1. Moves(step, i, m, j, c, k, a, b, e)
    BY <1>2
  <2> QED BY <1>0, <2>1, Where
<1>4. Holds(t, i, m, j) /\ Recorded(t, m, j, c, k)
  BY <1>1 DEF Stands, Keeps
<1>5. /\ InStdout(a) <=> InStdout(i)
      /\ InMaker(m, b) <=> InMaker(m, j)
      /\ InCentral(m, b) <=> InCentral(m, j)
      /\ Making(m, j) /\ Making(m, b) /\ ~ Made(m, j) /\ Made(m, b)
  BY <1>3 DEF InStdout, InMaker, InCentral, Making, Made
<1>6. c = "call" /\ key[t] = FALSE /\ ~ Leaving(c, k) /\ allocators[t] = 0
  <2>1. c = "call" /\ key[t] = FALSE
    BY <1>4, <1>5 DEF Recorded
  <2>2. ~ Leaving(c, k)
    BY <2>1, Marks
  <2> QED BY <1>4, <1>5, <2>1, <2>2 DEF Recorded
<1>7. /\ ~ Does(t, << "gone" >>) /\ ~ Does(t, << "set" >>)
  <2>1. Kind(<< "made" >>) = "made" /\ Kind(<< "gone" >>) = "gone" /\ Kind(<< "set" >>) = "set"
    BY StepKinds
  <2> QED BY <2>1 DEF Does
<1>8. /\ allocators' = [allocators EXCEPT ![t] = 1] /\ key' = key
      /\ holder' = holder /\ depth' = depth /\ buffered' = buffered /\ Continue(t, << >>)
  <2>1. key \in [Threads -> BOOLEAN] /\ allocators \in [Threads -> 0 .. 1]
    BY TypeParts DEF LogTypeOK
  <2>2. allocators' = [allocators EXCEPT ![t] = allocators[t] + 1]
    <3>1. allocators' = [allocators EXCEPT ![t] =
            CASE Does(t, << "made" >>) -> allocators[t] + 1
              [] Does(t, << "gone" >>) -> allocators[t] - 1
              [] OTHER -> allocators[t]]
      BY DEF Record
    <3> QED BY <1>7, <3>1
  <2>3. key' = key
    <3>1. key' = [key EXCEPT ![t] = key[t] \/ Does(t, << "set" >>)]
      BY DEF Record
    <3>2. (key[t] \/ Does(t, << "set" >>)) = FALSE
      BY <1>6, <1>7
    <3>3. key' = [key EXCEPT ![t] = FALSE]
      BY <3>1, <3>2, Zenon
    <3> QED BY <1>6, <2>1, <3>3
  <2>4. /\ allocators' = [allocators EXCEPT ![t] = 1]
        /\ holder' = holder /\ depth' = depth /\ buffered' = buffered /\ Continue(t, << >>)
    <3>1. allocators[t] + 1 = 1
      BY <1>6
    <3> QED BY <2>2, <3>1 DEF Record
  <2> QED BY <2>3, <2>4
<1>9. allocators \in [Threads -> 0 .. 1]
  BY TypeParts DEF LogTypeOK
<1>10. allocators'[t] = 1 /\ \A u \in Threads \ {t} : allocators'[u] = allocators[u]
  BY <1>8, <1>9
<1>11. todo' = [todo EXCEPT ![t] = Rest(a, m, b, c, e)]
  BY <1>2, <1>8, ContinueTail
<1>12. Keeps(t, a, m, b, c, e)'
  <2>1. Holds(t, a, m, b)'
    BY <1>4, <1>5, <1>8 DEF Holds
  <2>2. Recorded(t, m, b, c, e)'
    BY <1>5, <1>6, <1>8, <1>10 DEF Recorded
  <2> QED BY <2>1, <2>2 DEF Keeps
<1>13. OthersKept(t)
  BY <1>8, <1>10 DEF OthersKept
<1>14. LogTypeOK' /\ Counted'
  BY <1>8, <1>9, TypeParts DEF LogTypeOK, Counted
<1> QED BY <1>2, <1>11, <1>12, <1>13, <1>14, OneSteps

LEMMA SetStep ==
  ASSUME LogIInv, NEW t \in Threads, Record(t), Does(t, << "set" >>)
  PROVE  LogIInv'
<1>0. PICK step : Kind(step) = "set" /\ Does(t, step)
  BY StepKinds
<1>1. PICK i, m, j, c, k : Stands(t, i, m, j, c, k)
  BY TypeParts
<1>2. PICK a, b, e : /\ Moves(step, i, m, j, c, k, a, b, e) /\ IsPlace(a, m, b, c, e)
                     /\ Tail(todo[t]) = Rest(a, m, b, c, e)
  <2>1. Does(t, step)
    BY <1>0
  <2> QED BY <1>1, <2>1, StepOff
<1>3. i = 3 /\ m = "create" /\ j = 6 /\ a = 3 /\ b = j + 1 /\ e = k
  <2>1. Moves(step, i, m, j, c, k, a, b, e)
    BY <1>2
  <2> QED BY <1>0, <2>1, Where
<1>4. Holds(t, i, m, j) /\ Recorded(t, m, j, c, k)
  BY <1>1 DEF Stands, Keeps
<1>5. /\ InStdout(a) <=> InStdout(i)
      /\ InMaker(m, b) <=> InMaker(m, j)
      /\ InCentral(m, b) <=> InCentral(m, j)
      /\ Making(m, j) /\ ~ Making(m, b) /\ Made(m, j)
  BY <1>3 DEF InStdout, InMaker, InCentral, Making, Made
<1>6. c = "call" /\ ~ Leaving(c, k) /\ allocators[t] = 1
  <2>1. c = "call"
    BY <1>4, <1>5 DEF Recorded
  <2>2. ~ Leaving(c, k)
    BY <2>1, Marks
  <2> QED BY <1>4, <1>5, <2>1, <2>2 DEF Recorded
<1>7. /\ ~ Does(t, << "gone" >>) /\ ~ Does(t, << "made" >>)
  <2>1. Kind(<< "made" >>) = "made" /\ Kind(<< "gone" >>) = "gone" /\ Kind(<< "set" >>) = "set"
    BY StepKinds
  <2> QED BY <2>1 DEF Does
<1>8. /\ allocators' = allocators /\ key' = [key EXCEPT ![t] = TRUE]
      /\ holder' = holder /\ depth' = depth /\ buffered' = buffered /\ Continue(t, << >>)
  <2>1. key \in [Threads -> BOOLEAN] /\ allocators \in [Threads -> 0 .. 1]
    BY TypeParts DEF LogTypeOK
  <2>2. allocators' = [allocators EXCEPT ![t] = allocators[t]]
    BY <1>7 DEF Record
  <2>3. allocators' = allocators
    BY <2>1, <2>2
  <2> QED BY <2>3 DEF Record
<1>9. key \in [Threads -> BOOLEAN]
  BY TypeParts DEF LogTypeOK
<1>10. /\ key'[t] = TRUE /\ \A u \in Threads \ {t} : key'[u] = key[u]
       /\ key' \in [Threads -> BOOLEAN]
  BY <1>8, <1>9
<1>11. todo' = [todo EXCEPT ![t] = Rest(a, m, b, c, e)]
  BY <1>2, <1>8, ContinueTail
<1>12. Keeps(t, a, m, b, c, e)'
  <2>1. Holds(t, a, m, b)'
    BY <1>4, <1>5, <1>8 DEF Holds
  <2>2. Recorded(t, m, b, c, e)'
    BY <1>3, <1>5, <1>6, <1>8, <1>10 DEF Recorded
  <2> QED BY <2>1, <2>2 DEF Keeps
<1>13. OthersKept(t)
  BY <1>8, <1>10 DEF OthersKept
<1>14. LogTypeOK' /\ Counted'
  BY <1>8, <1>10, TypeParts DEF LogTypeOK, Counted
<1> QED BY <1>2, <1>11, <1>12, <1>13, <1>14, OneSteps

LEMMA GoneStep ==
  ASSUME LogIInv, NEW t \in Threads, Record(t), Does(t, << "gone" >>)
  PROVE  LogIInv'
<1>0. PICK step : Kind(step) = "gone" /\ Does(t, step)
  BY StepKinds
<1>1. PICK i, m, j, c, k : Stands(t, i, m, j, c, k)
  BY TypeParts
<1>2. PICK a, b, e : /\ Moves(step, i, m, j, c, k, a, b, e) /\ IsPlace(a, m, b, c, e)
                     /\ Tail(todo[t]) = Rest(a, m, b, c, e)
  <2>1. Does(t, step)
    BY <1>0
  <2> QED BY <1>1, <2>1, StepOff
<1>3. /\ i = 3 /\ c = "destructor" /\ k = 3 /\ a = 3 /\ b = j /\ e = 4
      /\ (m = "create" /\ j = 7) \/ (m = "central" /\ j = 5)
  <2>1. Moves(step, i, m, j, c, k, a, b, e)
    BY <1>2
  <2>2. /\ i = 3 /\ j = Len(Method(m)) /\ c = "destructor" /\ k = 3
        /\ a = 3 /\ b = j /\ e = k + 1
    BY <1>0, <2>1, Where
  <2>3. (m = "create" /\ j = 7) \/ (m = "central" /\ j = 5)
    BY <1>1, <2>2, MethodDone DEF Stands
  <2> QED BY <2>2, <2>3
<1>4. Holds(t, i, m, j) /\ Recorded(t, m, j, c, k)
  BY <1>1 DEF Stands, Keeps
<1>5. /\ Leaving(c, k) /\ ~ Leaving(c, e) /\ ~ Making(m, j) /\ ~ Made(m, j)
  <2>1. k \in 0 .. 3 /\ e \in {4, 5}
    BY <1>3
  <2> QED BY <1>3, <2>1, Marks
<1>6. key[t] = FALSE /\ allocators[t] = 1
  BY <1>4, <1>5 DEF Recorded
<1>7. /\ ~ Does(t, << "made" >>) /\ ~ Does(t, << "set" >>)
  <2>1. Kind(<< "made" >>) = "made" /\ Kind(<< "gone" >>) = "gone" /\ Kind(<< "set" >>) = "set"
    BY StepKinds
  <2> QED BY <2>1 DEF Does
<1>8. /\ allocators' = [allocators EXCEPT ![t] = 0] /\ key' = key
      /\ holder' = holder /\ depth' = depth /\ buffered' = buffered /\ Continue(t, << >>)
  <2>1. key \in [Threads -> BOOLEAN] /\ allocators \in [Threads -> 0 .. 1]
    BY TypeParts DEF LogTypeOK
  <2>2. allocators' = [allocators EXCEPT ![t] = allocators[t] - 1]
    BY <1>7 DEF Record
  <2>3. key' = key
    <3>1. key' = [key EXCEPT ![t] = key[t] \/ Does(t, << "set" >>)]
      BY DEF Record
    <3>2. (key[t] \/ Does(t, << "set" >>)) = FALSE
      BY <1>6, <1>7
    <3>3. key' = [key EXCEPT ![t] = FALSE]
      BY <3>1, <3>2, Zenon
    <3> QED BY <1>6, <2>1, <3>3
  <2>4. /\ allocators' = [allocators EXCEPT ![t] = 0]
        /\ holder' = holder /\ depth' = depth /\ buffered' = buffered /\ Continue(t, << >>)
    BY <1>6, <2>2 DEF Record
  <2> QED BY <2>3, <2>4
<1>9. allocators \in [Threads -> 0 .. 1]
  BY TypeParts DEF LogTypeOK
<1>10. allocators'[t] = 0 /\ \A u \in Threads \ {t} : allocators'[u] = allocators[u]
  BY <1>8, <1>9
<1>11. todo' = [todo EXCEPT ![t] = Rest(a, m, b, c, e)]
  BY <1>2, <1>8, ContinueTail
<1>12. Keeps(t, a, m, b, c, e)'
  <2>1. Holds(t, a, m, b)'
    BY <1>3, <1>4, <1>8 DEF Holds
  <2>2. Recorded(t, m, b, c, e)'
    BY <1>3, <1>5, <1>6, <1>8, <1>10 DEF Recorded
  <2> QED BY <2>1, <2>2 DEF Keeps
<1>13. OthersKept(t)
  BY <1>8, <1>10 DEF OthersKept
<1>14. LogTypeOK' /\ Counted'
  BY <1>8, <1>9, TypeParts DEF LogTypeOK, Counted
<1> QED BY <1>2, <1>11, <1>12, <1>13, <1>14, OneSteps

LEMMA LogNext == ASSUME LogIInv, ~ BufferFromMalloc, [Next]_vars PROVE LogIInv'
<1>1. ASSUME NEW t \in Threads, Call(t) \/ Prints(t) PROVE LogIInv'
  BY <1>1, CallStep
<1>2. ASSUME NEW t \in Threads, ThreadExit(t) PROVE LogIInv'
  BY <1>2, ExitStep
<1>3. ASSUME NEW t \in Threads, GetAllocator(t) PROVE LogIInv'
  BY <1>3, GetStep
<1>4. ASSUME NEW t \in Threads, FT_LOG(t) PROVE LogIInv'
  BY <1>4, LogStep
<1>5. ASSUME NEW t \in Threads, GoCentral(t) PROVE LogIInv'
  BY <1>5, CentralStep
<1>6. ASSUME NEW t \in Threads, Buffer(t) PROVE LogIInv'
  BY <1>6, BufferStep
<1>7. ASSUME NEW t \in Threads, Record(t) PROVE LogIInv'
  <2>1. Does(t, << "made" >>) \/ Does(t, << "set" >>) \/ Does(t, << "gone" >>)
    BY <1>7 DEF Record
  <2> QED BY <1>7, <2>1, MadeStep, SetStep, GoneStep
<1>8. ASSUME NEW t \in Threads, NEW l \in Locks, Acquire(t, l) PROVE LogIInv'
  BY <1>8, AcquireStep
<1>9. ASSUME NEW t \in Threads, NEW l \in Locks, Release(t, l) PROVE LogIInv'
  BY <1>9, ReleaseStep
<1>10. CASE UNCHANGED vars
  <2>1. /\ todo' = todo /\ holder' = holder /\ depth' = depth /\ buffered' = buffered
        /\ key' = key /\ allocators' = allocators
    BY <1>10 DEF vars
  <2>2. ASSUME NEW t \in Threads PROVE Placed(t)'
    <3>1. PICK i \in 0 .. 3, m \in {"create", "central"}, j \in 0 .. 7,
               c \in {"call", "destructor"}, k \in 0 .. 5 : Stands(t, i, m, j, c, k)
      BY DEF LogIInv, Placed
    <3>2. Stands(t, i, m, j, c, k)'
      BY <2>1, <3>1 DEF Stands, Keeps, Holds, Recorded
    <3> QED BY <3>2 DEF Placed
  <2>3. LogTypeOK' /\ Counted' /\ TodoTypeOK'
    BY <2>1, TypeParts DEF LogTypeOK, Counted, TodoTypeOK
  <2> QED BY <2>2, <2>3 DEF LogIInv, Counted
<1>11. CASE Next
  BY <1>1, <1>2, <1>3, <1>4, <1>5, <1>6, <1>7, <1>8, <1>9, <1>11 DEF Next, Goes
<1> QED BY <1>10, <1>11

LEMMA LogInit == ASSUME Init PROVE LogIInv
<1>1. LogTypeOK /\ Counted /\ TodoTypeOK
  <2>1. "stdout" \in Locks
    BY DEF Locks
  <2>2. LogTypeOK
    <3>1. 0 \in 0 .. 1 /\ 0 \in Nat /\ FALSE \in BOOLEAN
      OBVIOUS
    <3>2. holder \in [Locks -> Threads \cup {NoThread}]
      BY DEF Init
    <3>3. key \in [Threads -> BOOLEAN] /\ allocators \in [Threads -> 0 .. 1]
      BY <3>1 DEF Init
    <3> QED BY <3>1, <3>2, <3>3 DEF Init, LogTypeOK
  <2>3. Counted
    BY <2>1 DEF Init, Counted
  <2>4. TodoTypeOK
    BY DEF Init, TodoTypeOK
  <2> QED BY <2>2, <2>3, <2>4
<1>2. ASSUME NEW t \in Threads PROVE Placed(t)
  <2> DEFINE m == "central"
             c == "call"
  <2>1. Len(Method(m)) = 5 /\ Len(Outer(c)) = 4
    BY Methods
  <2>2. IsPlace(3, m, 5, c, 4) /\ Done(3, m, 5, c, 4)
    <3>1. 3 \in 0 .. 3 /\ 5 \in 0 .. 5 /\ 4 \in 0 .. 4
      OBVIOUS
    <3>2. m \in {"create", "central"} /\ c \in {"call", "destructor"}
      OBVIOUS
    <3> HIDE DEF m, c
    <3> QED BY <2>1, <3>1, <3>2 DEF IsPlace, Done
  <2>3. Rest(3, m, 5, c, 4) = << >>
    BY <2>2, RestEffect
  <2>4. NoThread # t /\ {"stdout", "sCacheAllocateLock", "s_central_cache_lock"} \subseteq Locks
    BY ThreadsAssumption DEF Locks
  <2>5. /\ ~ InStdout(3) /\ ~ InMaker(m, 5) /\ ~ InCentral(m, 5)
        /\ ~ Making(m, 5) /\ ~ Made(m, 5) /\ ~ Leaving(c, 4)
    BY Marks
  <2> HIDE DEF m, c
  <2>6. Holds(t, 3, m, 5)
    BY <2>4, <2>5 DEF Init, Holds
  <2>7. Recorded(t, m, 5, c, 4)
    BY <2>5 DEF Init, Recorded
  <2>8. Stands(t, 3, m, 5, c, 4)
    BY <2>2, <2>3, <2>6, <2>7 DEF Init, Stands, Keeps
  <2> QED BY <2>8 DEF Placed, m, c
<1> QED BY <1>1, <1>2 DEF LogIInv, Counted

-----------------------------------------------------------------------------
(* What the place of a lock's holder says. *)
LEMMA StillAhead ==
  ASSUME NEW i, NEW m, NEW j, NEW c, NEW k, IsPlace(i, m, j, c, k)
  PROVE  LET r == Rest(i, m, j, c, k)
         IN  /\ \A p \in 1 .. 3 : i < p => \E n \in DOMAIN r : r[n] = printf[p]
             /\ \A q \in 1 .. Len(Method(m)) : j < q => \E n \in DOMAIN r : r[n] = Method(m)[q]
<1> DEFINE x == After(printf, i)
           y == After(Method(m), j)
           z == After(Outer(c), k)
           r == Rest(i, m, j, c, k)
<1>1. /\ i \in 0 .. 3 /\ j \in 0 .. Len(Method(m)) /\ k \in 0 .. Len(Outer(c))
      /\ printf \in Seq(Steps) /\ Method(m) \in Seq(Steps) /\ Outer(c) \in Seq(Steps)
      /\ Len(printf) = 3 /\ Len(Method(m)) \in Nat
  BY Pieces, Methods DEF IsPlace
<1>2. x \in Seq(Steps) /\ Len(x) = 3 - i /\ \A n \in 1 .. Len(x) : x[n] = printf[n + i]
  <2>1. x \in Seq(Steps) /\ Len(x) = Len(printf) - i /\ \A n \in 1 .. Len(x) : x[n] = printf[n + i]
    <3>1. i \in 0 .. Len(printf) /\ printf \in Seq(Steps)
      BY <1>1
    <3> QED BY <3>1, AfterRange, SMTT(20)
  <2> QED BY <1>1, <2>1
<1>3. /\ y \in Seq(Steps) /\ Len(y) = Len(Method(m)) - j
      /\ \A n \in 1 .. Len(y) : y[n] = Method(m)[n + j]
  BY <1>1, AfterRange
<1>4. z \in Seq(Steps)
  BY <1>1, AfterEffect
<1>5. r = x \o (y \o z)
  BY DEF Rest
<1> HIDE DEF x, y, z, r
<1> DEFINE w == y \o z
<1>6. /\ w \in Seq(Steps) /\ Len(w) = Len(y) + Len(z) /\ Len(y) \in Nat /\ Len(z) \in Nat
      /\ \A n \in 1 .. Len(y) : w[n] = y[n]
  BY <1>3, <1>4, JoinRange
<1> HIDE DEF w
<1>7. /\ r \in Seq(Steps) /\ Len(r) = Len(x) + Len(w) /\ Len(x) \in Nat /\ Len(w) \in Nat
      /\ \A n \in 1 .. Len(x) : r[n] = x[n]
      /\ \A n \in 1 .. Len(w) : r[Len(x) + n] = w[n]
  <2>1. r = x \o w
    BY <1>5 DEF w
  <2>2. x \in Seq(Steps) /\ w \in Seq(Steps)
    BY <1>2, <1>6
  <2>3. /\ x \o w \in Seq(Steps) /\ Len(x \o w) = Len(x) + Len(w)
        /\ Len(x) \in Nat /\ Len(w) \in Nat
        /\ \A n \in 1 .. Len(x) : (x \o w)[n] = x[n]
        /\ \A n \in 1 .. Len(w) : (x \o w)[Len(x) + n] = w[n]
    BY <2>2, JoinRange
  <2> QED BY <2>1, <2>3
<1>8. DOMAIN r = 1 .. Len(r)
  BY <1>7
<1>9. ASSUME NEW p \in 1 .. 3, i < p PROVE \E n \in DOMAIN r : r[n] = printf[p]
  <2> DEFINE n == p - i
  <2>1. n \in 1 .. Len(x) /\ n + i = p /\ n \in 1 .. Len(r)
    BY <1>1, <1>2, <1>7, <1>9
  <2> HIDE DEF n
  <2> QED BY <1>2, <1>7, <1>8, <2>1
<1>10. ASSUME NEW q \in 1 .. Len(Method(m)), j < q PROVE \E n \in DOMAIN r : r[n] = Method(m)[q]
  <2> DEFINE n == q - j
  <2>1. n \in 1 .. Len(y) /\ n + j = q
    BY <1>1, <1>3, <1>10
  <2> HIDE DEF n
  <2>2. n \in 1 .. Len(w) /\ w[n] = Method(m)[q]
    BY <1>3, <1>6, <2>1
  <2>3. Len(x) + n \in 1 .. Len(r) /\ r[Len(x) + n] = Method(m)[q]
    BY <1>7, <2>2
  <2> QED BY <1>8, <2>3
<1> QED BY <1>9, <1>10 DEF r

LEMMA HolderStands ==
  ASSUME LogIInv, NEW t \in Threads, NEW l \in Locks, holder[l] = t
  PROVE  /\ \E n \in DOMAIN todo[t] : todo[t][n] = Unlock(l)
         /\ \E i, m, j, c, k :
              /\ Stands(t, i, m, j, c, k)
              /\ l = "stdout" => i \in {1, 2}
              /\ l # "stdout" => j \in {2, 3, 4}
<1>1. PICK i, m, j, c, k : Stands(t, i, m, j, c, k)
  BY TypeParts
<1>2. IsPlace(i, m, j, c, k) /\ Holds(t, i, m, j) /\ todo[t] = Rest(i, m, j, c, k)
  BY <1>1 DEF Stands, Keeps
<1>3. /\ l = "stdout" => i \in {1, 2}
      /\ l = "sCacheAllocateLock" => m = "create" /\ j \in {2, 3, 4}
      /\ l = "s_central_cache_lock" => m = "central" /\ j \in {2, 3}
  BY <1>2 DEF Holds, InStdout, InMaker, InCentral
<1>4. l \in {"stdout", "sCacheAllocateLock", "s_central_cache_lock"}
  BY DEF Locks
<1>5. \E n \in DOMAIN todo[t] : todo[t][n] = Unlock(l)
  <2>1. CASE l = "stdout"
    <3>1. 3 \in 1 .. 3 /\ i < 3 /\ printf[3] = Unlock(l)
      BY <1>3, <2>1 DEF printf
    <3>2. \A p \in 1 .. 3 : i < p => \E n \in DOMAIN todo[t] : todo[t][n] = printf[p]
      BY <1>2, StillAhead
    <3> QED BY <3>1, <3>2
  <2>2. CASE l = "sCacheAllocateLock"
    <3>1. 5 \in 1 .. Len(Method(m)) /\ j < 5 /\ Method(m) = CreateMemAllocator
      <4>1. Len(Method(m)) = 7
        BY <1>3, <2>2, Methods
      <4>2. m = "create" /\ j < 5 /\ 5 \in 1 .. 7
        BY <1>3, <2>2
      <4>3. Method(m) = CreateMemAllocator
        BY <4>2 DEF Method
      <4> QED BY <4>1, <4>2, <4>3
    <3>2. CreateMemAllocator[5] = Unlock(l)
      BY <2>2 DEF CreateMemAllocator
    <3>3. \A q \in 1 .. Len(Method(m)) : j < q => \E n \in DOMAIN todo[t] : todo[t][n] = Method(m)[q]
      BY <1>2, StillAhead
    <3> QED BY <3>1, <3>2, <3>3
  <2>3. CASE l = "s_central_cache_lock"
    <3>0. m # "create"
      BY <1>3, <2>3
    <3>1. 4 \in 1 .. Len(Method(m)) /\ j < 4 /\ Method(m) = CentralCall
      <4>1. Len(Method(m)) = 5
        BY <3>0, Methods
      <4>2. j < 4 /\ 4 \in 1 .. 5
        BY <1>3, <2>3
      <4>3. Method(m) = CentralCall
        BY <3>0 DEF Method
      <4> QED BY <4>1, <4>2, <4>3
    <3>2. CentralCall[4] = Unlock(l)
      BY <2>3 DEF CentralCall
    <3>3. \A q \in 1 .. Len(Method(m)) : j < q => \E n \in DOMAIN todo[t] : todo[t][n] = Method(m)[q]
      BY <1>2, StillAhead
    <3> QED BY <3>1, <3>2, <3>3
  <2> QED BY <1>4, <2>1, <2>2, <2>3
<1>6. l # "stdout" => j \in {2, 3, 4}
  BY <1>3, <1>4
<1> QED BY <1>1, <1>3, <1>5, <1>6

LEMMA WaiterStands ==
  ASSUME LogIInv, NEW t, NEW l, Does(t, Lock(l)),
         NEW i, NEW m, NEW j, NEW c, NEW k, Stands(t, i, m, j, c, k)
  PROVE  \/ l = "stdout" /\ i = 0
         \/ /\ i = 3 /\ j = 1
            /\ \/ m = "create" /\ l = "sCacheAllocateLock"
               \/ m = "central" /\ l = "s_central_cache_lock"
<1>1. PICK step : step = Lock(l) /\ Does(t, step)
  OBVIOUS
<1>2. PICK a, b, e : Moves(step, i, m, j, c, k, a, b, e)
  <2>1. Does(t, step)
    BY <1>1
  <2> QED BY <2>1, StepOff
<1>3. step = Lock(l)
  BY <1>1
<1> QED BY <1>2, <1>3, WhereTaken

(* The holder of stdout runs on. *)
LEMMA PrinterGoes ==
  ASSUME LogIInv, NEW v \in Threads, holder["stdout"] = v
  PROVE  /\ ~ Waiting(v)
         /\ \E i, m, j, c, k : Stands(v, i, m, j, c, k) /\ i \in {1, 2}
<1>1. "stdout" \in Locks
  BY DEF Locks
<1>2. PICK i, m, j, c, k : Stands(v, i, m, j, c, k) /\ i \in {1, 2}
  BY <1>1, HolderStands
<1>3. ASSUME NEW l \in Locks, Does(v, Lock(l)) PROVE FALSE
  <2>1. i = 0 \/ i = 3
    <3>1. Stands(v, i, m, j, c, k)
      BY <1>2
    <3> QED BY <1>3, <3>1, WaiterStands
  <2> QED BY <1>2, <2>1
<1> QED BY <1>2, <1>3 DEF Waiting

LEMMA HoldersCalled ==
  ASSUME LogIInv, NEW t \in Threads, NEW l \in Locks, holder[l] = t
  PROVE  ~ Idle(t)
<1>1. \E n \in DOMAIN todo[t] : todo[t][n] = Unlock(l)
  BY HolderStands
<1>2. DOMAIN << >> = {}
  OBVIOUS
<1> QED BY <1>1, <1>2 DEF Idle

(* A thread waits for another one's lock; the holder of the allocator's locks
   waits for stdout only. *)
LEMMA NoCircle == ASSUME LogIInv PROVE WaitsEnd
<1> SUFFICES ASSUME NEW t \in Threads, Waiting(t)
             PROVE  \E u \in Threads \ {t} : ~ Idle(u) /\ ~ Waiting(u)
  BY DEF WaitsEnd
<1>1. PICK l \in Locks : Does(t, Lock(l)) /\ ~ MayTake(t, l)
  BY DEF Waiting
<1>2. PICK i, m, j, c, k : Stands(t, i, m, j, c, k)
  BY TypeParts
<1>3. \/ l = "stdout" /\ i = 0
      \/ i = 3 /\ j = 1 /\ l # "stdout"
  <2>1. Does(t, Lock(l))
    BY <1>1
  <2> QED BY <1>2, <2>1, WaiterStands
<1> DEFINE u == holder[l]
<1>4. u \in Threads /\ u # t
  <2>1. u \in Threads \cup {NoThread} /\ u # NoThread
    BY <1>1, TypeParts DEF LogTypeOK, MayTake
  <2>2. ASSUME u = t PROVE FALSE
    <3>1. l # "stdout"
      BY <1>1, <2>2 DEF MayTake
    <3>2. i = 3 /\ j = 1
      BY <1>3, <3>1
    <3>3. Holds(t, i, m, j) /\ l \in {"stdout", "sCacheAllocateLock", "s_central_cache_lock"}
      BY <1>2 DEF Stands, Keeps, Locks
    <3>4. ~ InMaker(m, j) /\ ~ InCentral(m, j)
      BY <3>2 DEF InMaker, InCentral
    <3> QED BY <2>2, <3>1, <3>3, <3>4 DEF Holds
  <2> QED BY <2>1, <2>2
<1> HIDE DEF u
<1>5. ~ Idle(u)
  BY <1>4, HoldersCalled DEF u
<1>6. CASE ~ Waiting(u)
  BY <1>4, <1>5, <1>6
<1>7. CASE Waiting(u)
  <2>1. PICK n \in Locks : Does(u, Lock(n)) /\ ~ MayTake(u, n)
    BY <1>7 DEF Waiting
  <2>2. PICK a, p, b, d, e : /\ Stands(u, a, p, b, d, e)
                             /\ l = "stdout" => a \in {1, 2}
                             /\ l # "stdout" => b \in {2, 3, 4}
    BY <1>4, HolderStands DEF u
  <2>3. \/ n = "stdout" /\ a = 0
        \/ a = 3 /\ b = 1
    <3>1. Does(u, Lock(n))
      BY <2>1
    <3>2. Stands(u, a, p, b, d, e)
      BY <2>2
    <3> QED BY <3>1, <3>2, WaiterStands
  <2>4. l # "stdout" /\ n = "stdout"
    <3>1. l # "stdout"
      BY <2>2, <2>3
    <3> QED BY <2>2, <2>3, <3>1
  <2> DEFINE v == holder["stdout"]
  <2>5. v \in Threads /\ "stdout" \in Locks
    BY <2>1, <2>4, TypeParts DEF LogTypeOK, MayTake
  <2>6. ~ Waiting(v) /\ ~ Idle(v)
    BY <2>5, PrinterGoes, HoldersCalled
  <2> HIDE DEF v
  <2>7. v # t
    BY <2>6
  <2> QED BY <2>5, <2>6, <2>7
<1> QED BY <1>6, <1>7

LEMMA LocksFollow == ASSUME LogIInv PROVE LocksSound
<1>1. LogTypeOK
  BY TypeParts
<1>2. ASSUME NEW t \in Threads, NEW l \in Locks, holder[l] = t
      PROVE  \E i \in Pending(t, Unlock(l)) : TRUE
  <2>1. \E n \in DOMAIN todo[t] : todo[t][n] = Unlock(l)
    BY <1>2, HolderStands
  <2> QED BY <2>1 DEF Pending
<1>3. depth > 0 <=> holder["stdout"] # NoThread
  BY TypeParts DEF Counted
<1>4. LocksMatchCalls
  BY <1>2, <1>3 DEF LocksMatchCalls
<1> QED BY <1>1, <1>4, NoCircle DEF LocksSound

(* In every run, for any number of threads, if libc does not take stdout's
   buffer from malloc: each lock is held by the thread that has yet to leave it,
   a thread has one allocator at most, and a thread that waits waits for one
   that can go on. *)
THEOREM LocksStaySound == ASSUME ~ BufferFromMalloc PROVE Spec => []LocksSound
<1>1. Init => LogIInv
  BY LogInit
<1>2. LogIInv /\ [Next]_vars => LogIInv'
  BY LogNext
<1>3. LogIInv => LocksSound
  BY LocksFollow
<1> QED BY <1>1, <1>2, <1>3, PTL DEF Spec
=============================================================================
