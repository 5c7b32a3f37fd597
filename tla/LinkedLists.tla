---------------------------- MODULE LinkedLists ----------------------------
(***************************************************************************)
(* Singly linked lists whose links are words in the nodes themselves, as    *)
(* the slab and the free lists of objects keep them, and the induction      *)
(* their proofs need.  words gives the first word of every node.            *)
(***************************************************************************)
EXTENDS Integers, FiniteSetTheorems, WellFoundedInduction, TLAPS

(* From head, n nodes are reached through their words, which are those of S,
   once each; behind the last comes a member of E. *)
Listed(head, n, S, words, E) ==
  \E q \in [0 .. n -> S \cup E] :
    /\ q[0] = head /\ q[n] \in E
    /\ \A i \in 0 .. n - 1 : q[i] \in S /\ q[i + 1] = words[q[i]]
    /\ \A i, j \in 0 .. n - 1 : q[i] = q[j] => i = j
    /\ \A x \in S : \E i \in 0 .. n - 1 : q[i] = x

-----------------------------------------------------------------------------
(* Induction over the natural numbers, for sets. *)

Less == OpToRel(<, Nat)

LEMMA LessDef == \A x, y \in Nat : << x, y >> \in Less <=> x < y
  BY DEF Less, OpToRel

LEMMA LeastElement ==
  ASSUME NEW S \in SUBSET Nat, S # {}
  PROVE  \E n \in S : \A m \in S : n <= m
<1>1. IsWellFoundedOn(Less, Nat)
  BY NatLessThanWellFounded DEF Less
<1>2. PICK n \in S : \A m \in S : ~ (<< m, n >> \in Less)
  BY <1>1, WFMin
<1>3. \A m \in S : ~ (m < n)
  BY <1>2, LessDef
<1> QED BY <1>3

(* What holds of 0 and passes from each number below N to the next holds up to N. *)
LEMMA InductionTo ==
  ASSUME NEW N \in Nat, NEW S, 0 \in S,
         \A k \in 1 .. N : k - 1 \in S => k \in S
  PROVE  \A k \in 0 .. N : k \in S
<1> DEFINE bad == {k \in 0 .. N : k \notin S}
<1>1. ASSUME bad # {} PROVE FALSE
  <2>1. bad \in SUBSET Nat
    OBVIOUS
  <2>2. PICK k \in bad : \A m \in bad : k <= m
    BY <1>1, <2>1, LeastElement
  <2>3. k \in 1 .. N /\ k - 1 \in S
    BY <2>2
  <2> QED BY <2>2, <2>3
<1> QED BY <1>1

-----------------------------------------------------------------------------
(* The operations on a list. *)

LEMMA ListedEmpty ==
  ASSUME NEW E, NEW h \in E, NEW w
  PROVE  Listed(h, 0, {}, w, E)
<1> DEFINE q == [i \in 0 .. 0 |-> h]
<1>1. q \in [0 .. 0 -> {} \cup E] /\ q[0] = h /\ 0 .. 0 - 1 = {}
  OBVIOUS
<1> QED BY <1>1 DEF Listed

LEMMA ListedNone ==
  ASSUME NEW h, NEW S, NEW w, NEW E, Listed(h, 0, S, w, E)
  PROVE  S = {} /\ h \in E
  BY DEF Listed

LEMMA ListedSome ==
  ASSUME NEW h, NEW n \in Nat, NEW S, NEW w, NEW E, Listed(h, n, S, w, E), n > 0
  PROVE  h \in S
  BY DEF Listed

(* A list has as many nodes as it says. *)
LEMMA ListedCardinality ==
  ASSUME NEW h, NEW n \in Nat, NEW S, NEW w, NEW E, Listed(h, n, S, w, E)
  PROVE  IsFiniteSet(S) /\ Cardinality(S) = n
<1>1. PICK q \in [0 .. n -> S \cup E] :
        /\ \A i \in 0 .. n - 1 : q[i] \in S
        /\ \A i, j \in 0 .. n - 1 : q[i] = q[j] => i = j
        /\ \A x \in S : \E i \in 0 .. n - 1 : q[i] = x
  BY DEF Listed
<1> DEFINE r == [i \in 0 .. n - 1 |-> q[i]]
<1>2. r \in [0 .. n - 1 -> S] /\ \A i \in 0 .. n - 1 : r[i] = q[i]
  BY <1>1
<1> HIDE DEF r
<1>3. \A i, j \in 0 .. n - 1 : r[i] = r[j] => i = j
  BY <1>1, <1>2
<1>4. \A x \in S : \E i \in 0 .. n - 1 : r[i] = x
  BY <1>1, <1>2
<1>5. ExistsBijection(0 .. n - 1, S)
  BY <1>2, <1>3, <1>4 DEF ExistsBijection, Bijection, Injection, IsInjective, Surjection
<1>6. IsFiniteSet(0 .. n - 1) /\ Cardinality(0 .. n - 1) = n
  <2> DEFINE low == 0
             high == n - 1
  <2>1. low \in Int /\ high \in Int
    OBVIOUS
  <2>2. (IF low > high THEN 0 ELSE high - low + 1) = n
    OBVIOUS
  <2> HIDE DEF low, high
  <2>3. /\ IsFiniteSet(low .. high)
        /\ Cardinality(low .. high) = IF low > high THEN 0 ELSE high - low + 1
    BY <2>1, FS_Interval
  <2> QED BY <2>2, <2>3 DEF low, high
<1> QED BY <1>5, <1>6, FS_Bijection

(* A list looks only at the words of its own nodes. *)
LEMMA ListedFrame ==
  ASSUME NEW h, NEW n \in Nat, NEW S, NEW w, NEW E, Listed(h, n, S, w, E),
         NEW v, \A x \in S : v[x] = w[x], NEW F, E \subseteq F
  PROVE  Listed(h, n, S, v, F)
<1>1. PICK q \in [0 .. n -> S \cup E] :
        /\ q[0] = h /\ q[n] \in E
        /\ \A i \in 0 .. n - 1 : q[i] \in S /\ q[i + 1] = w[q[i]]
        /\ \A i, j \in 0 .. n - 1 : q[i] = q[j] => i = j
        /\ \A x \in S : \E i \in 0 .. n - 1 : q[i] = x
  BY DEF Listed
<1>2. q \in [0 .. n -> S \cup F]
  OBVIOUS
<1>3. q[n] \in F /\ \A i \in 0 .. n - 1 : q[i + 1] = v[q[i]]
  BY <1>1
<1> QED BY ZenonT(40), <1>1, <1>2, <1>3 DEF Listed

(* What is popped is the first, and the rest is a list. *)
LEMMA ListedPop ==
  ASSUME NEW h, NEW n \in Nat \ {0}, NEW S, NEW w, NEW E, Listed(h, n, S, w, E)
  PROVE  /\ h \in S /\ w[h] \in S \cup E
         /\ Listed(w[h], n - 1, S \ {h}, w, E)
<1>1. PICK q \in [0 .. n -> S \cup E] :
        /\ q[0] = h /\ q[n] \in E
        /\ \A i \in 0 .. n - 1 : q[i] \in S /\ q[i + 1] = w[q[i]]
        /\ \A i, j \in 0 .. n - 1 : q[i] = q[j] => i = j
        /\ \A x \in S : \E i \in 0 .. n - 1 : q[i] = x
  BY DEF Listed
<1> DEFINE m == n - 1
           r == [i \in 0 .. m |-> q[i + 1]]
<1>2. m \in Nat /\ r[0] = w[h] /\ r[m] \in E /\ h \in S /\ w[h] \in S \cup E
  BY <1>1
<1>3. \A i \in 0 .. m - 1 : /\ i + 1 \in 0 .. n - 1 /\ r[i] = q[i + 1] /\ r[i + 1] = q[i + 2]
                            /\ q[i + 1] # h
  BY <1>1
<1>4. \A i \in 0 .. m - 1 : r[i] \in S \ {h} /\ r[i + 1] = w[r[i]]
  BY <1>1, <1>3
<1>t. r \in [0 .. m -> (S \ {h}) \cup E]
  <2>1. ASSUME NEW i \in 0 .. m PROVE q[i + 1] \in (S \ {h}) \cup E
    <3>1. CASE i = m
      BY <1>1, <3>1
    <3>2. CASE i # m
      BY <1>1, <1>3, <3>2
    <3> QED BY <3>1, <3>2
  <2> QED BY <2>1
<1>5. \A i, j \in 0 .. m - 1 : r[i] = r[j] => i = j
  BY <1>1, <1>3
<1>6. \A x \in S \ {h} : \E i \in 0 .. m - 1 : r[i] = x
  <2> SUFFICES ASSUME NEW x \in S, x # h PROVE \E i \in 0 .. m - 1 : r[i] = x
    OBVIOUS
  <2>1. PICK j \in 0 .. n - 1 : q[j] = x
    BY <1>1
  <2>2. j # 0 /\ j - 1 \in 0 .. m - 1 /\ (j - 1) + 1 = j
    BY <1>1, <2>1
  <2>3. r[j - 1] = x
    BY <1>3, <2>1, <2>2
  <2> QED BY <2>2, <2>3
<1> HIDE DEF m, r
<1>7. Listed(w[h], m, S \ {h}, w, E)
  BY <1>2, <1>t, <1>4, <1>5, <1>6 DEF Listed
<1> QED BY <1>2, <1>7 DEF m

(* A node that links to the list's first is the first of a longer one. *)
LEMMA ListedPush ==
  ASSUME NEW h, NEW n \in Nat, NEW S, NEW w, NEW E, Listed(h, n, S, w, E),
         NEW x, x \notin S, w[x] = h
  PROVE  Listed(x, n + 1, S \cup {x}, w, E)
<1>1. PICK q \in [0 .. n -> S \cup E] :
        /\ q[0] = h /\ q[n] \in E
        /\ \A i \in 0 .. n - 1 : q[i] \in S /\ q[i + 1] = w[q[i]]
        /\ \A i, j \in 0 .. n - 1 : q[i] = q[j] => i = j
        /\ \A y \in S : \E i \in 0 .. n - 1 : q[i] = y
  BY DEF Listed
<1> DEFINE m == n + 1
           r == [i \in 0 .. m |-> IF i = 0 THEN x ELSE q[i - 1]]
<1>2. m \in Nat /\ r \in [0 .. m -> (S \cup {x}) \cup E] /\ r[0] = x /\ r[m] \in E
  BY <1>1
<1>3. \A i \in 0 .. m : r[i] = IF i = 0 THEN x ELSE q[i - 1]
  OBVIOUS
<1> HIDE DEF r
<1>4. \A i \in 0 .. m - 1 : r[i] \in S \cup {x} /\ r[i + 1] = w[r[i]]
  <2> SUFFICES ASSUME NEW i \in 0 .. m - 1 PROVE r[i] \in S \cup {x} /\ r[i + 1] = w[r[i]]
    OBVIOUS
  <2>1. CASE i = 0
    BY <1>1, <1>3, <2>1
  <2>2. CASE i # 0
    <3>1. i - 1 \in 0 .. n - 1 /\ r[i] = q[i - 1] /\ r[i + 1] = q[i]
      BY <1>3, <2>2
    <3>2. q[(i - 1) + 1] = w[q[i - 1]] /\ q[i - 1] \in S /\ (i - 1) + 1 = i
      BY <1>1, <3>1
    <3> QED BY <3>1, <3>2
  <2> QED BY <2>1, <2>2
<1>5. \A i, j \in 0 .. m - 1 : r[i] = r[j] => i = j
  <2>1. \A i \in 0 .. m - 1 : i # 0 => i - 1 \in 0 .. n - 1 /\ r[i] = q[i - 1] /\ q[i - 1] # x
    BY <1>1, <1>3
  <2>2. r[0] = x
    BY <1>2
  <2> QED BY SMTT(30), <1>1, <2>1, <2>2
<1>6. \A y \in S \cup {x} : \E i \in 0 .. m - 1 : r[i] = y
  <2>1. ASSUME NEW y \in S PROVE \E i \in 0 .. m - 1 : r[i] = y
    <3>1. PICK j \in 0 .. n - 1 : q[j] = y
      BY <1>1
    <3>2. j + 1 \in 0 .. m - 1 /\ r[j + 1] = y
      BY <1>3, <3>1
    <3> QED BY <3>2
  <2>2. 0 \in 0 .. m - 1 /\ r[0] = x
    BY <1>2
  <2> QED BY <2>1, <2>2
<1> HIDE DEF m
<1>7. Listed(x, m, S \cup {x}, w, E)
  BY <1>2, <1>4, <1>5, <1>6 DEF Listed
<1> QED BY <1>7 DEF m

(* f goes from each node of S to the one its word names. *)
Follows(f, k, S, w) == \A i \in 2 .. k : f[i - 1] \in S => f[i] = w[f[i - 1]]

(* The nodes a walk of k meets. *)
Met(f, k) == {f[i] : i \in 1 .. k}

(* A walk of k nodes from the head meets the first k; they are a list up to
   the word behind them, and from there the others are one. *)
LEMMA ListedSplit ==
  ASSUME NEW h, NEW n \in Nat, NEW S, NEW w, NEW E, Listed(h, n, S, w, E), E \cap S = {},
         NEW k \in 1 .. n,
         NEW f, f[1] = h, Follows(f, k, S, w)
  PROVE  LET A == Met(f, k)
         IN  /\ A \subseteq S /\ f[k] \in A /\ w[f[k]] \notin A
             /\ Listed(h, k, A, w, {w[f[k]]})
             /\ Listed(w[f[k]], n - k, S \ A, w, E)
<1> DEFINE A == {f[i] : i \in 1 .. k}
<1>1. PICK q \in [0 .. n -> S \cup E] :
        /\ q[0] = h /\ q[n] \in E
        /\ \A i \in 0 .. n - 1 : q[i] \in S /\ q[i + 1] = w[q[i]]
        /\ \A i, j \in 0 .. n - 1 : q[i] = q[j] => i = j
        /\ \A x \in S : \E i \in 0 .. n - 1 : q[i] = x
  BY DEF Listed
<1>2. \A i \in 0 .. k - 1 : f[i + 1] = q[i]
  <2> DEFINE same == {i \in 0 .. k - 1 : f[i + 1] = q[i]}
  <2>1. 0 \in same
    BY <1>1
  <2>2. ASSUME NEW i \in 1 .. k - 1, i - 1 \in same PROVE i \in same
    <3>1. f[i] = q[i - 1]
      <4>1. (i - 1) + 1 = i
        OBVIOUS
      <4> QED BY <2>2, <4>1
    <3>2. i - 1 \in 0 .. n - 1 /\ (i - 1) + 1 = i /\ i + 1 \in 2 .. k /\ (i + 1) - 1 = i
      OBVIOUS
    <3>3. q[i] = w[q[i - 1]]
      BY <1>1, <3>2
    <3>4. f[i + 1] = w[f[i]]
      <4>1. f[i] \in S
        BY <1>1, <3>1, <3>2
      <4> DEFINE j == i + 1
      <4>2. j \in 2 .. k /\ j - 1 = i
        OBVIOUS
      <4> HIDE DEF j
      <4>3. f[j] = w[f[j - 1]]
        BY <4>1, <4>2 DEF Follows
      <4> QED BY <4>2, <4>3 DEF j
    <3>5. f[i + 1] = q[i] /\ i \in 0 .. k - 1
      BY <3>1, <3>3, <3>4
    <3> QED BY <3>5
  <2> HIDE DEF same
  <2>3. k - 1 \in Nat
    OBVIOUS
  <2>4. \A i \in 0 .. k - 1 : i \in same
    BY <2>1, <2>2, <2>3, InductionTo
  <2> QED BY <2>4 DEF same
<1>3. A = {q[i] : i \in 0 .. k - 1}
  <2>1. ASSUME NEW x \in A PROVE x \in {q[i] : i \in 0 .. k - 1}
    <3>1. PICK i \in 1 .. k : x = f[i]
      OBVIOUS
    <3>2. i - 1 \in 0 .. k - 1 /\ (i - 1) + 1 = i
      OBVIOUS
    <3> QED BY <1>2, <3>1, <3>2
  <2>2. ASSUME NEW i \in 0 .. k - 1 PROVE q[i] \in A
    <3>1. i + 1 \in 1 .. k
      OBVIOUS
    <3> QED BY <1>2, <3>1
  <2> QED BY <2>1, <2>2
<1>4. f[k] = q[k - 1] /\ w[f[k]] = q[k]
  <2> DEFINE j == k - 1
  <2>1. j \in 0 .. k - 1 /\ j \in 0 .. n - 1 /\ j + 1 = k
    OBVIOUS
  <2> HIDE DEF A, j
  <2>2. f[j + 1] = q[j]
    BY <1>2, <2>1
  <2>3. q[j] \in S /\ q[j + 1] = w[q[j]]
    BY <1>1, <2>1
  <2>4. f[k] = q[j] /\ w[f[k]] = q[k]
    BY <2>1, <2>2, <2>3
  <2> QED BY <2>4 DEF j
<1> HIDE DEF A
<1>5. A \subseteq S /\ f[k] \in A
  BY <1>1, <1>3, <1>4
<1>6. q[k] \notin A
  <2>1. CASE k = n
    BY <1>1, <1>5, <2>1
  <2>2. CASE k # n
    BY <1>1, <1>3, <2>2
  <2> QED BY <2>1, <2>2
<1>7. Listed(h, k, A, w, {q[k]})
  <2> DEFINE r == [i \in 0 .. k |-> q[i]]
  <2>1. r \in [0 .. k -> A \cup {q[k]}]
    BY <1>3
  <2>2. \A i \in 0 .. k : r[i] = q[i]
    OBVIOUS
  <2> HIDE DEF r
  <2>3. r[0] = h /\ r[k] \in {q[k]}
    <3>1. 0 \in 0 .. k /\ k \in 0 .. k
      OBVIOUS
    <3> QED BY <1>1, <2>2, <3>1
  <2>4. \A i \in 0 .. k - 1 : r[i] \in A /\ r[i + 1] = w[r[i]]
    BY <1>1, <1>3, <2>2
  <2>5. \A i, j \in 0 .. k - 1 : r[i] = r[j] => i = j
    BY <1>1, <2>2
  <2>6. \A x \in A : \E i \in 0 .. k - 1 : r[i] = x
    BY <1>3, <2>2
  <2> QED BY <2>1, <2>3, <2>4, <2>5, <2>6 DEF Listed
<1>8. Listed(q[k], n - k, S \ A, w, E)
  <2> DEFINE m == n - k
             r == [i \in 0 .. m |-> q[k + i]]
  <2>1. m \in Nat /\ \A i \in 0 .. m : r[i] = q[k + i]
    OBVIOUS
  <2>2. \A i \in 0 .. m - 1 : q[k + i] \in S \ A /\ k + i \in 0 .. n - 1
    <3> SUFFICES ASSUME NEW i \in 0 .. m - 1
                 PROVE  q[k + i] \in S \ A /\ k + i \in 0 .. n - 1
      OBVIOUS
    <3>1. k + i \in 0 .. n - 1 /\ \A j \in 0 .. k - 1 : j \in 0 .. n - 1 /\ j # k + i
      OBVIOUS
    <3> QED BY <1>1, <1>3, <3>1
  <2>3. r \in [0 .. m -> (S \ A) \cup E]
    <3>1. ASSUME NEW i \in 0 .. m PROVE q[k + i] \in (S \ A) \cup E
      <4>1. CASE i = m
        BY <1>1, <4>1
      <4>2. CASE i # m
        BY <2>2, <4>2
      <4> QED BY <4>1, <4>2
    <3> QED BY <3>1
  <2>4. r[0] = q[k] /\ r[m] \in E
    BY <1>1
  <2> HIDE DEF r
  <2>5. \A i \in 0 .. m - 1 : r[i] \in S \ A /\ r[i + 1] = w[r[i]]
    <3> SUFFICES ASSUME NEW i \in 0 .. m - 1 PROVE r[i] \in S \ A /\ r[i + 1] = w[r[i]]
      OBVIOUS
    <3>1. k + i \in 0 .. n - 1 /\ k + (i + 1) = (k + i) + 1 /\ i \in 0 .. m /\ i + 1 \in 0 .. m
      OBVIOUS
    <3>2. r[i] = q[k + i] /\ r[i + 1] = q[(k + i) + 1]
      BY <2>1, <3>1
    <3> QED BY <1>1, <2>2, <3>1, <3>2
  <2>6. \A i, j \in 0 .. m - 1 : r[i] = r[j] => i = j
    <3> SUFFICES ASSUME NEW i \in 0 .. m - 1, NEW j \in 0 .. m - 1, r[i] = r[j] PROVE i = j
      OBVIOUS
    <3>1. q[k + i] = q[k + j] /\ k + i \in 0 .. n - 1 /\ k + j \in 0 .. n - 1
      BY <2>1, <2>2
    <3>2. k + i = k + j
      BY <1>1, <3>1
    <3> QED BY <3>2
  <2>7. \A x \in S \ A : \E i \in 0 .. m - 1 : r[i] = x
    <3> SUFFICES ASSUME NEW x \in S \ A PROVE \E i \in 0 .. m - 1 : r[i] = x
      OBVIOUS
    <3>1. PICK j \in 0 .. n - 1 : q[j] = x
      BY <1>1
    <3>2. j \notin 0 .. k - 1
      BY <1>3, <3>1
    <3> DEFINE i == j - k
    <3>3. i \in 0 .. m - 1 /\ i \in 0 .. m /\ k + i = j
      BY <3>2
    <3> HIDE DEF i
    <3>4. r[i] = x
      BY <2>1, <3>1, <3>3
    <3> QED BY <3>3, <3>4
  <2> HIDE DEF m
  <2>8. Listed(q[k], m, S \ A, w, E)
    BY <2>3, <2>4, <2>5, <2>6, <2>7 DEF Listed
  <2> QED BY <2>8 DEF m
<1> QED BY <1>4, <1>5, <1>6, <1>7, <1>8 DEF A, Met

(* Two nodes of a list whose words lead out of it are both the last. *)
LEMMA ListedLast ==
  ASSUME NEW h, NEW n \in Nat, NEW S, NEW w, NEW E, Listed(h, n, S, w, E), E \cap S = {},
         NEW x \in S, w[x] \in E, NEW y \in S, w[y] \in E
  PROVE  x = y
<1>1. PICK q \in [0 .. n -> S \cup E] :
        /\ \A i \in 0 .. n - 1 : q[i] \in S /\ q[i + 1] = w[q[i]]
        /\ \A z \in S : \E i \in 0 .. n - 1 : q[i] = z
  BY DEF Listed
<1>2. ASSUME NEW z \in S, w[z] \in E PROVE q[n - 1] = z
  <2>1. PICK j \in 0 .. n - 1 : q[j] = z
    BY <1>1
  <2>2. q[j + 1] \in E
    BY <1>1, <1>2, <2>1
  <2>3. j + 1 \notin 0 .. n - 1
    BY <1>1, <2>2
  <2>4. j = n - 1
    BY <2>3
  <2> QED BY <2>1, <2>4
<1> QED BY <1>2

(* The one node of a list whose word leads out of it is the last; the list
   goes on with another if that word is set to its head. *)
LEMMA ListedJoin ==
  ASSUME NEW h, NEW n \in Nat, NEW S, NEW w, NEW E, Listed(h, n, S, w, E), E \cap S = {},
         NEW x \in S, w[x] \in E,
         NEW g, NEW m \in Nat, NEW T, NEW v, NEW F, Listed(g, m, T, v, F), S \cap T = {},
         v[x] = g, \A y \in S \ {x} : v[y] = w[y]
  PROVE  Listed(h, n + m, S \cup T, v, F)
<1>1. PICK q \in [0 .. n -> S \cup E] :
        /\ q[0] = h /\ q[n] \in E
        /\ \A i \in 0 .. n - 1 : q[i] \in S /\ q[i + 1] = w[q[i]]
        /\ \A i, j \in 0 .. n - 1 : q[i] = q[j] => i = j
        /\ \A y \in S : \E i \in 0 .. n - 1 : q[i] = y
  BY DEF Listed
<1>2. PICK p \in [0 .. m -> T \cup F] :
        /\ p[0] = g /\ p[m] \in F
        /\ \A i \in 0 .. m - 1 : p[i] \in T /\ p[i + 1] = v[p[i]]
        /\ \A i, j \in 0 .. m - 1 : p[i] = p[j] => i = j
        /\ \A y \in T : \E i \in 0 .. m - 1 : p[i] = y
  BY DEF Listed
<1>3. n > 0 /\ q[n - 1] = x
  <2>1. PICK j \in 0 .. n - 1 : q[j] = x
    BY <1>1
  <2>2. q[j + 1] \in E
    BY <1>1, <2>1
  <2>3. j + 1 \notin 0 .. n - 1
    BY <1>1, <2>2
  <2>4. j = n - 1
    BY <2>3
  <2> QED BY <2>1, <2>4
<1>4. \A i \in 0 .. n - 2 : q[i] # x
  BY <1>1, <1>3
<1> DEFINE l == n + m
           r == [i \in 0 .. l |-> IF i < n THEN q[i] ELSE p[i - n]]
<1>5. l \in Nat /\ \A i \in 0 .. l : r[i] = IF i < n THEN q[i] ELSE p[i - n]
  OBVIOUS
<1>6. r \in [0 .. l -> (S \cup T) \cup F]
  <2>1. ASSUME NEW i \in 0 .. l, i < n PROVE q[i] \in S
    BY <1>1, <2>1
  <2>2. ASSUME NEW i \in 0 .. l, ~ (i < n) PROVE p[i - n] \in T \cup F
    <3>1. i - n \in 0 .. m
      BY <2>2
    <3> QED BY <3>1
  <2> QED BY <2>1, <2>2
<1> HIDE DEF r
<1>7. r[0] = h /\ r[l] \in F
  <2>1. r[0] = h
    BY <1>1, <1>3, <1>5
  <2>2. ~ (l < n) /\ l - n = m /\ l \in 0 .. l
    OBVIOUS
  <2> QED BY <1>2, <1>5, <2>1, <2>2
<1>8. ASSUME NEW i \in 0 .. l - 1 PROVE r[i] \in S \cup T /\ r[i + 1] = v[r[i]]
  <2>0. i \in 0 .. l /\ i + 1 \in 0 .. l
    OBVIOUS
  <2>1. CASE i < n - 1
    <3>1. i \in 0 .. n - 1 /\ i \in 0 .. n - 2 /\ r[i] = q[i] /\ r[i + 1] = q[i + 1]
      BY <1>5, <2>0, <2>1
    <3>2. q[i] \in S \ {x} /\ q[i + 1] = w[q[i]]
      BY <1>1, <1>4, <3>1
    <3> QED BY <3>1, <3>2
  <2>2. CASE i = n - 1
    <3>1. r[i] = x
      BY <1>3, <1>5, <2>0, <2>2
    <3>2. r[i + 1] = g
      <4>1. i + 1 = n /\ ~ (i + 1 < n) /\ (i + 1) - n = 0
        BY <2>2
      <4> QED BY <1>2, <1>5, <2>0, <4>1
    <3> QED BY <3>1, <3>2
  <2>3. CASE i > n - 1
    <3>1. i - n \in 0 .. m - 1 /\ (i + 1) - n = (i - n) + 1 /\ ~ (i < n) /\ ~ (i + 1 < n)
      BY <2>3
    <3>2. r[i] = p[i - n] /\ r[i + 1] = p[(i - n) + 1]
      BY <1>5, <2>0, <3>1
    <3> QED BY <1>2, <3>1, <3>2
  <2> QED BY <2>1, <2>2, <2>3
<1>9. ASSUME NEW i \in 0 .. l - 1, NEW j \in 0 .. l - 1, r[i] = r[j] PROVE i = j
  <2>1. ASSUME NEW k \in 0 .. l - 1
        PROVE  \/ k < n /\ k \in 0 .. n - 1 /\ r[k] = q[k] /\ r[k] \in S
               \/ ~ (k < n) /\ k - n \in 0 .. m - 1 /\ r[k] = p[k - n] /\ r[k] \in T
    <3>0. k \in 0 .. l
      OBVIOUS
    <3>1. CASE k < n
      BY <1>1, <1>5, <3>0, <3>1
    <3>2. CASE ~ (k < n)
      <4>1. k - n \in 0 .. m - 1
        BY <3>2
      <4> QED BY <1>2, <1>5, <3>0, <3>2, <4>1
    <3> QED BY <3>1, <3>2
  <2>2. CASE i < n
    BY <1>1, <1>9, <2>1, <2>2
  <2>3. CASE ~ (i < n)
    <3>1. i - n \in 0 .. m - 1 /\ r[i] = p[i - n] /\ r[i] \in T
      BY <2>1, <2>3
    <3>2. j - n \in 0 .. m - 1 /\ r[j] = p[j - n]
      BY <1>9, <2>1, <3>1
    <3>3. i - n = j - n
      <4>1. p[i - n] = p[j - n]
        BY <1>9, <3>1, <3>2
      <4> QED BY <1>2, <3>1, <3>2, <4>1
    <3> QED BY <3>3
  <2> QED BY <2>2, <2>3
<1>10. ASSUME NEW y \in S \cup T PROVE \E i \in 0 .. l - 1 : r[i] = y
  <2>1. CASE y \in S
    <3>1. PICK j \in 0 .. n - 1 : q[j] = y
      BY <1>1, <2>1
    <3>2. j \in 0 .. l - 1 /\ j \in 0 .. l /\ j < n
      OBVIOUS
    <3> QED BY <1>5, <3>1, <3>2
  <2>2. CASE y \in T
    <3>1. PICK j \in 0 .. m - 1 : p[j] = y
      BY <1>2, <2>2
    <3>2. n + j \in 0 .. l - 1 /\ n + j \in 0 .. l /\ ~ (n + j < n) /\ (n + j) - n = j
      OBVIOUS
    <3> QED BY <1>5, <3>1, <3>2
  <2> QED BY <2>1, <2>2
<1> HIDE DEF l
<1>11. Listed(h, l, S \cup T, v, F)
  BY <1>6, <1>7, <1>8, <1>9, <1>10 DEF Listed
<1> QED BY <1>11 DEF l
=============================================================================
