--------------------------- MODULE AdmissionProofs ---------------------------
(***************************************************************************)
(* Theorems about Admission for every set of tasks, requests, volumes and  *)
(* policies: whatever order tasks are selected, batched, rejected and      *)
(* released in, the permits and bytes in use are exactly those of the      *)
(* tasks at work, no two of these disturb each other or overcommit a disk, *)
(* and the admission cache is exact.                                       *)
(*                                                                         *)
(* Permits and isolation (IInv) need of the selection only that what it    *)
(* takes can be acquired, and of the cache nothing.  Free space is another *)
(* matter: it is probed for the cache, so CInv says what the cache knows.  *)
(***************************************************************************)
EXTENDS Admission, FiniteSetTheorems, WellFoundedInduction, TLAPS

\* A task is in one place: once in a queue, or it holds permits.
Waits ==
  /\ queue \in [Priority -> Seq(Task)]
  /\ \A p \in Priority : \A i, j \in DOMAIN queue[p] : queue[p][i] = queue[p][j] => i = j
  /\ \A i \in DOMAIN queue["Continuation"], j \in DOMAIN queue["Bulk"] :
       queue["Continuation"][i] # queue["Bulk"][j]
  /\ \A p \in Priority : \A i \in DOMAIN queue[p] : queue[p][i] \notin held

Holds ==
  /\ held \subseteq Task /\ borrowed \subseteq held
  /\ round \in Seq(Task)
  /\ \A i \in DOMAIN round : round[i] \in held
  /\ \A i, j \in DOMAIN round : round[i] = round[j] => i = j
  /\ pass # "popping" => round = << >>

Counters ==
  /\ slots \in [Slot -> Nat]
  /\ onVolume \in [Kind -> [Volume -> Nat]]

IInv ==
  /\ Waits
  /\ Holds
  /\ Counters
  /\ PermitsExact
  /\ WorkIsolated

-----------------------------------------------------------------------------
(* Counting. *)

\* One more task counts one more where it counts.
LEMMA CountAdd ==
  ASSUME NEW S \in SUBSET Task, NEW t \in Task \ S, NEW X
  PROVE  Cardinality({u \in S \cup {t} : u \in X})
           = Cardinality({u \in S : u \in X}) + One(t \in X)
  <1> DEFINE A == {u \in S : u \in X}
             B == {u \in S \cup {t} : u \in X}
  <1>1. IsFiniteSet(A) /\ t \notin A
    <2>1. IsFiniteSet(S)
      BY RequestAssumption, FS_Subset
    <2>2. QED
      BY <2>1, FS_Subset
  <1>2. CASE t \in X
    <2>1. B = A \cup {t}
      BY <1>2
    <2>2. Cardinality(A \cup {t}) = Cardinality(A) + 1
      BY <1>1, FS_AddElement
    <2>3. QED
      BY <1>2, <2>1, <2>2 DEF One
  <1>3. CASE t \notin X
    <2>1. B = A
      BY <1>3
    <2>2. Cardinality(A) \in Nat
      BY <1>1, FS_CardinalityType
    <2>3. One(t \in X) = 0
      BY <1>3 DEF One
    <2> HIDE DEF A, B
    <2>4. Cardinality(B) = Cardinality(A) + One(t \in X)
      BY <2>1, <2>2, <2>3
    <2>5. QED
      BY <2>4 DEF A, B
  <1>4. QED
    BY <1>2, <1>3

\* Without some of them, those are counted no more, and the subtraction does not saturate.
LEMMA CountRemove ==
  ASSUME NEW S \in SUBSET Task, NEW R \in SUBSET S, NEW X
  PROVE  Cardinality({u \in S \ R : u \in X})
           = Minus(Cardinality({u \in S : u \in X}), Cardinality({u \in R : u \in X}))
  <1> DEFINE A == {u \in S : u \in X}
             B == {u \in R : u \in X}
             C == {u \in S \ R : u \in X}
  <1>1. IsFiniteSet(S) /\ IsFiniteSet(A) /\ IsFiniteSet(B) /\ IsFiniteSet(C)
    <2>1. IsFiniteSet(S)
      BY RequestAssumption, FS_Subset
    <2>2. A \subseteq S /\ B \subseteq S /\ C \subseteq S
      OBVIOUS
    <2>3. QED
      BY <2>1, <2>2, FS_Subset
  <1>2. A = B \cup C /\ B \cap C = {}
    OBVIOUS
  <1>3. Cardinality(A) = Cardinality(B) + Cardinality(C)
    <2>1. Cardinality(B \cup C) = Cardinality(B) + Cardinality(C) - Cardinality(B \cap C)
      BY <1>1, FS_Union
    <2>2. Cardinality(B \cap C) = 0
      BY <1>2, FS_EmptySet
    <2>3. Cardinality(B) \in Nat /\ Cardinality(C) \in Nat
      BY <1>1, FS_CardinalityType
    <2> HIDE DEF A, B, C
    <2>4. QED
      BY <1>2, <2>1, <2>2, <2>3
  <1>4. Cardinality(B) \in Nat /\ Cardinality(C) \in Nat
    BY <1>1, FS_CardinalityType
  <1>5. QED
    BY <1>3, <1>4 DEF Minus

-----------------------------------------------------------------------------
(* Sums. *)

\* What holds of 0, and of n + 1 if of n, holds of every number.
LEMMA Numbers ==
  ASSUME NEW P \in SUBSET Nat, 0 \in P, \A n \in P : n + 1 \in P
  PROVE  P = Nat
  <1> DEFINE R == OpToRel(<, Nat)
             T == Nat \ P
  <1>1. SUFFICES ASSUME T # {} PROVE FALSE
    OBVIOUS
  <1>2. PICK n \in T : \A m \in T : ~ (<<m, n>> \in R)
    <2>1. IsWellFoundedOn(R, Nat) /\ T \subseteq Nat
      BY NatLessThanWellFounded
    <2> HIDE DEF T, R
    <2>2. QED
      BY <1>1, <2>1, WFMin
  <1>3. n # 0 /\ n - 1 \in Nat /\ n - 1 < n
    OBVIOUS
  <1>4. n - 1 \in P
    BY <1>2, <1>3 DEF OpToRel
  <1>5. (n - 1) + 1 = n
    OBVIOUS
  <1>6. QED
    BY <1>2, <1>4, <1>5

\* What holds of the empty set, and with one more element, holds of every subset of a finite set.
LEMMA FiniteSubsets ==
  ASSUME NEW S, IsFiniteSet(S), NEW P \in SUBSET (SUBSET S), {} \in P,
         \A T \in P, e \in S : T \cup {e} \in P
  PROVE  P = SUBSET S
  <1> DEFINE Q == {n \in Nat : \A T \in SUBSET S : Cardinality(T) = n => T \in P}
  <1>1. \A T \in SUBSET S : IsFiniteSet(T) /\ Cardinality(T) \in Nat
    BY FS_Subset, FS_CardinalityType
  <1>2. 0 \in Q
    BY <1>1, FS_EmptySet
  <1>3. ASSUME NEW n \in Q PROVE n + 1 \in Q
    <2>1. ASSUME NEW T \in SUBSET S, Cardinality(T) = n + 1 PROVE T \in P
      <3>1. T # {}
        <4>1. n + 1 # 0
          OBVIOUS
        <4>2. QED
          BY <2>1, <4>1, FS_EmptySet
      <3>2. PICK e \in T : TRUE
        BY <3>1
      <3>3. Cardinality(T \ {e}) = n /\ T \ {e} \in SUBSET S
        <4>1. Cardinality(T \ {e}) = Cardinality(T) - 1
          BY <1>1, FS_RemoveElement
        <4>2. QED
          BY <2>1, <4>1
      <3>4. T \ {e} \in P
        BY <3>3
      <3>5. (T \ {e}) \cup {e} = T
        OBVIOUS
      <3>6. QED
        BY <3>4, <3>5
    <2>2. QED
      BY <2>1
  <1>4. Q = Nat
    <2>1. Q \in SUBSET Nat /\ \A n \in Q : n + 1 \in Q
      BY <1>3
    <2> HIDE DEF Q
    <2>2. QED
      BY <1>2, <2>1, Numbers
  <1>5. ASSUME NEW T \in SUBSET S PROVE T \in P
    BY <1>1, <1>4
  <1>6. QED
    BY <1>5

Chosen(s) == CHOOSE x \in s : TRUE

\* f sums w over the subsets of S in the order in which CHOOSE takes their elements.
Sums(f, w, S) ==
  /\ f \in [SUBSET S -> Nat]
  /\ f[{}] = 0
  /\ \A s \in SUBSET S : s # {} => f[s] = w[Chosen(s)] + f[s \ {Chosen(s)}]

\* There is such a function.
LEMMA SumsExist ==
  ASSUME NEW S, IsFiniteSet(S), NEW w \in [S -> Nat]
  PROVE  \E f : Sums(f, w, S)
  <1> DEFINE Small(n) == {s \in SUBSET S : Cardinality(s) <= n}
             Part(g, n) == /\ g \in [Small(n) -> Nat]
                           /\ g[{}] = 0
                           /\ \A s \in Small(n) : s # {} => g[s] = w[Chosen(s)] + g[s \ {Chosen(s)}]
             Q == {n \in Nat : \E g : Part(g, n)}
  <1>1. \A s \in SUBSET S : IsFiniteSet(s) /\ Cardinality(s) \in Nat
    BY FS_Subset, FS_CardinalityType
  <1>2. ASSUME NEW s \in SUBSET S, s # {}
        PROVE  /\ Chosen(s) \in S /\ s \ {Chosen(s)} \in SUBSET S
               /\ Cardinality(s \ {Chosen(s)}) = Cardinality(s) - 1
    <2>1. Chosen(s) \in s
      BY <1>2 DEF Chosen
    <2>2. QED
      BY <1>1, <2>1, FS_RemoveElement
  <1>3. 0 \in Q
    <2> DEFINE g == [s \in Small(0) |-> 0]
    <2>1. \A s \in Small(0) : s = {}
      <3>1. ASSUME NEW s \in Small(0) PROVE s = {}
        <4>1. Cardinality(s) = 0
          BY <1>1
        <4>2. QED
          BY <1>1, <4>1, FS_EmptySet
      <3>2. QED
        BY <3>1
    <2>2. {} \in Small(0)
      BY FS_EmptySet
    <2>3. Part(g, 0)
      BY <2>1, <2>2
    <2>4. QED
      BY <2>3
  <1>4. ASSUME NEW n \in Q PROVE n + 1 \in Q
    <2>1. PICK g : Part(g, n)
      BY <1>4
    <2> DEFINE h == [s \in Small(n + 1) |->
                       IF Cardinality(s) <= n THEN g[s] ELSE w[Chosen(s)] + g[s \ {Chosen(s)}]]
    <2>2. n \in Nat /\ {} \in Small(n) /\ {} \in Small(n + 1)
      BY FS_EmptySet
    <2>3. \A s \in Small(n + 1) : s # {} => s \ {Chosen(s)} \in Small(n) /\ s \ {Chosen(s)} \in Small(n + 1)
      BY <1>1, <1>2, <2>2
    <2>4. h \in [Small(n + 1) -> Nat]
      <3>1. ASSUME NEW s \in Small(n + 1)
            PROVE  (IF Cardinality(s) <= n THEN g[s] ELSE w[Chosen(s)] + g[s \ {Chosen(s)}]) \in Nat
        <4>1. CASE Cardinality(s) <= n
          BY <2>1, <4>1
        <4>2. CASE ~(Cardinality(s) <= n)
          <5>1. s # {}
            BY <2>2, <4>2, FS_EmptySet
          <5>2. w[Chosen(s)] \in Nat /\ g[s \ {Chosen(s)}] \in Nat
            BY <1>2, <2>1, <2>3, <5>1
          <5>3. QED
            BY <4>2, <5>2
        <4>3. QED
          BY <4>1, <4>2
      <3>2. QED
        BY <3>1
    <2>5. h[{}] = 0
      BY <2>1, <2>2
    <2>6. ASSUME NEW s \in Small(n + 1), s # {}
          PROVE  h[s] = w[Chosen(s)] + h[s \ {Chosen(s)}]
      <3>1. h[s \ {Chosen(s)}] = g[s \ {Chosen(s)}]
        BY <2>3, <2>6
      <3>2. CASE Cardinality(s) <= n
        <4>1. h[s] = g[s] /\ s \in Small(n)
          BY <3>2
        <4>2. g[s] = w[Chosen(s)] + g[s \ {Chosen(s)}]
          BY <2>1, <2>6, <4>1
        <4>3. QED
          BY <3>1, <4>1, <4>2
      <3>3. CASE ~(Cardinality(s) <= n)
        BY <3>1, <3>3
      <3>4. QED
        BY <3>2, <3>3
    <2>7. Part(h, n + 1)
      BY <2>4, <2>5, <2>6
    <2> HIDE DEF Part, h
    <2>8. \E x : Part(x, n + 1)
      BY <2>7
    <2>9. QED
      BY <2>2, <2>8
  <1>5. Q = Nat
    <2>1. Q \in SUBSET Nat /\ \A n \in Q : n + 1 \in Q
      BY <1>4
    <2> HIDE DEF Q
    <2>2. QED
      BY <1>3, <2>1, Numbers
  <1>6. PICK g : Part(g, Cardinality(S))
    BY <1>1, <1>5
  <1>7. Small(Cardinality(S)) = SUBSET S
    <2>1. \A s \in SUBSET S : Cardinality(s) <= Cardinality(S)
      BY FS_Subset
    <2>2. QED
      BY <2>1
  <1>8. Sums(g, w, S)
    BY <1>6, <1>7 DEF Sums
  <1>9. QED
    BY <1>8

\* A sum does not depend on that order.
LEMMA SumsAdd ==
  ASSUME NEW S, IsFiniteSet(S), NEW w \in [S -> Nat], NEW f, Sums(f, w, S)
  PROVE  \A s \in SUBSET S : \A e \in S \ s : f[s \cup {e}] = f[s] + w[e]
  <1> DEFINE Q == {n \in Nat : \A s \in SUBSET S : \A e \in S \ s :
                      Cardinality(s) <= n => f[s \cup {e}] = f[s] + w[e]}
  <1>1. \A s \in SUBSET S : IsFiniteSet(s) /\ Cardinality(s) \in Nat /\ f[s] \in Nat
    BY FS_Subset, FS_CardinalityType DEF Sums
  <1>2. ASSUME NEW s \in SUBSET S, NEW e \in S \ s, Chosen(s \cup {e}) = e
        PROVE  f[s \cup {e}] = f[s] + w[e]
    <2>1. (s \cup {e}) \ {e} = s /\ s \cup {e} \in SUBSET S /\ s \cup {e} # {}
      OBVIOUS
    <2>2. f[s \cup {e}] = w[e] + f[s]
      BY <1>2, <2>1 DEF Sums
    <2>3. QED
      BY <1>1, <2>2
  <1>3. 0 \in Q
    <2>1. ASSUME NEW s \in SUBSET S, NEW e \in S \ s, Cardinality(s) <= 0
          PROVE  f[s \cup {e}] = f[s] + w[e]
      <3>1. s = {}
        BY <1>1, <2>1, FS_EmptySet
      <3>2. Chosen(s \cup {e}) = e
        BY <3>1 DEF Chosen
      <3>3. QED
        BY <1>2, <3>2
    <2>2. QED
      BY <2>1
  <1>4. ASSUME NEW n \in Q PROVE n + 1 \in Q
    <2>1. ASSUME NEW s \in SUBSET S, NEW e \in S \ s, Cardinality(s) <= n + 1,
                 Chosen(s \cup {e}) # e
          PROVE  f[s \cup {e}] = f[s] + w[e]
      <3> DEFINE x == Chosen(s \cup {e})
                 r == s \ {x}
      <3>1. x \in s
        BY <2>1 DEF Chosen
      <3>2. /\ (s \cup {e}) \ {x} = r \cup {e} /\ r \cup {x} = s
            /\ r \in SUBSET S /\ e \in S \ r /\ x \in S \ r
            /\ s \cup {e} \in SUBSET S /\ s \cup {e} # {}
        BY <2>1, <3>1
      <3>3. Cardinality(r) <= n
        <4>1. Cardinality(r) = Cardinality(s) - 1
          BY <1>1, <3>1, FS_RemoveElement
        <4>2. QED
          BY <1>1, <2>1, <4>1
      <3>4. f[s \cup {e}] = w[x] + f[r \cup {e}]
        BY <3>2 DEF Sums
      <3> HIDE DEF x, r
      <3>5. f[r \cup {e}] = f[r] + w[e] /\ f[s] = f[r] + w[x]
        BY <3>2, <3>3
      <3>6. w[x] \in Nat /\ w[e] \in Nat /\ f[r] \in Nat
        BY <1>1, <3>2
      <3>7. QED
        BY <3>4, <3>5, <3>6
    <2>2. ASSUME NEW s \in SUBSET S, NEW e \in S \ s, Cardinality(s) <= n + 1
          PROVE  f[s \cup {e}] = f[s] + w[e]
      BY <1>2, <2>1, <2>2
    <2>3. QED
      BY <2>2
  <1>5. Q = Nat
    <2>1. Q \in SUBSET Nat /\ \A n \in Q : n + 1 \in Q
      BY <1>4
    <2> HIDE DEF Q
    <2>2. QED
      BY <1>3, <2>1, Numbers
  <1>6. ASSUME NEW s \in SUBSET S, NEW e \in S \ s
        PROVE  f[s \cup {e}] = f[s] + w[e]
    BY <1>1, <1>5
  <1>7. QED
    BY <1>6

\* Bytes sums what the requests store on a volume.
LEMMA BytesSum ==
  ASSUME NEW S, IsFiniteSet(S), NEW r, NEW v, \A t \in S : r[t].store[v] \in Nat
  PROVE  \E f : Sums(f, [t \in S |-> r[t].store[v]], S) /\ Bytes(r, S, v) = f[S]
  <1> DEFINE w == [t \in S |-> r[t].store[v]]
             Eq(f) == f = [s \in SUBSET S |->
                             IF s = {} THEN 0
                             ELSE r[CHOOSE x \in s : TRUE].store[v]
                                    + f[s \ {CHOOSE x \in s : TRUE}]]
             iter == CHOOSE f : Eq(f)
  <1>1. Bytes(r, S, v) = iter[S]
    BY DEF Bytes, MapThenSumSet, MapThenFoldSet
  <1>2. PICK f : Sums(f, w, S)
    <2>1. w \in [S -> Nat]
      OBVIOUS
    <2> HIDE DEF w
    <2>2. QED
      BY <2>1, SumsExist
  <1>3. Eq(f)
    <2>1. ASSUME NEW s \in SUBSET S, s # {}
          PROVE  f[s] = r[CHOOSE x \in s : TRUE].store[v] + f[s \ {CHOOSE x \in s : TRUE}]
      <3>1. Chosen(s) \in S
        BY <2>1 DEF Chosen
      <3>2. f[s] = w[Chosen(s)] + f[s \ {Chosen(s)}]
        BY <1>2, <2>1 DEF Sums
      <3>3. QED
        BY <3>1, <3>2 DEF Chosen
    <2>2. f \in [SUBSET S -> Nat] /\ f[{}] = 0
      BY <1>2 DEF Sums
    <2>3. QED
      BY <2>1, <2>2
  <1>4. Eq(iter)
    BY <1>3
  <1>5. /\ DOMAIN iter = SUBSET S /\ iter[{}] = 0
        /\ \A s \in SUBSET S : s # {} => iter[s] = w[Chosen(s)] + iter[s \ {Chosen(s)}]
    <2>1. \A s \in SUBSET S : s # {} => Chosen(s) \in S
      BY DEF Chosen
    <2> HIDE DEF iter
    <2>2. iter = [s \in SUBSET S |->
                    IF s = {} THEN 0
                    ELSE r[CHOOSE x \in s : TRUE].store[v]
                           + iter[s \ {CHOOSE x \in s : TRUE}]]
      BY <1>4
    <2>3. QED
      BY <2>1, <2>2 DEF Chosen
  <1>6. iter = f
    <2> DEFINE Q == {n \in Nat : \A s \in SUBSET S : Cardinality(s) <= n => iter[s] = f[s]}
    <2> HIDE DEF iter, w, Eq
    <2>1. \A s \in SUBSET S : IsFiniteSet(s) /\ Cardinality(s) \in Nat
      BY FS_Subset, FS_CardinalityType
    <2>2. 0 \in Q
      <3>1. ASSUME NEW s \in SUBSET S, Cardinality(s) <= 0 PROVE iter[s] = f[s]
        <4>1. s = {}
          BY <2>1, <3>1, FS_EmptySet
        <4>2. QED
          BY <1>2, <1>5, <4>1 DEF Sums
      <3>2. QED
        BY <3>1
    <2>3. ASSUME NEW n \in Q PROVE n + 1 \in Q
      <3>1. ASSUME NEW s \in SUBSET S, Cardinality(s) <= n + 1, s # {} PROVE iter[s] = f[s]
        <4>1. Chosen(s) \in s
          BY <3>1 DEF Chosen
        <4>2. Cardinality(s \ {Chosen(s)}) = Cardinality(s) - 1
          BY <2>1, <4>1, FS_RemoveElement
        <4>3. Cardinality(s \ {Chosen(s)}) <= n /\ s \ {Chosen(s)} \in SUBSET S
          BY <2>1, <3>1, <4>2
        <4>4. iter[s \ {Chosen(s)}] = f[s \ {Chosen(s)}]
          BY <4>3
        <4>5. QED
          BY <1>2, <1>5, <3>1, <4>4 DEF Sums
      <3>2. ASSUME NEW s \in SUBSET S, Cardinality(s) <= n + 1 PROVE iter[s] = f[s]
        BY <1>2, <1>5, <3>1, <3>2 DEF Sums
      <3>3. QED
        BY <3>2
    <2>4. Q = Nat
      <3>1. Q \in SUBSET Nat /\ \A n \in Q : n + 1 \in Q
        BY <2>3
      <3> HIDE DEF Q
      <3>2. QED
        BY <2>2, <3>1, Numbers
    <2>5. ASSUME NEW s \in SUBSET S PROVE iter[s] = f[s]
      BY <2>1, <2>4
    <2>6. f \in [SUBSET S -> Nat]
      BY <1>2 DEF Sums
    <2>7. iter = [s \in SUBSET S |-> iter[s]]
      <3>1. iter = [s \in SUBSET S |->
                    IF s = {} THEN 0
                    ELSE r[CHOOSE x \in s : TRUE].store[v]
                           + iter[s \ {CHOOSE x \in s : TRUE}]]
        BY <1>4 DEF Eq
      <3>2. QED
        BY <3>1
    <2>8. QED
      BY <2>5, <2>6, <2>7
  <1>7. QED
    BY <1>1, <1>2, <1>6

\* Sums of the same numbers are the same.
LEMMA SumsAgree ==
  ASSUME NEW S, IsFiniteSet(S), NEW T \in SUBSET S, NEW w, NEW u, \A t \in T : w[t] = u[t],
         NEW f, NEW g, Sums(f, w, S), Sums(g, u, T)
  PROVE  f[T] = g[T]
  <1> DEFINE Q == {n \in Nat : \A s \in SUBSET T : Cardinality(s) <= n => f[s] = g[s]}
  <1>1. IsFiniteSet(T) /\ \A s \in SUBSET T : IsFiniteSet(s) /\ Cardinality(s) \in Nat
    BY FS_Subset, FS_CardinalityType
  <1>2. 0 \in Q
    <2>1. ASSUME NEW s \in SUBSET T, Cardinality(s) <= 0 PROVE f[s] = g[s]
      <3>1. s = {}
        BY <1>1, <2>1, FS_EmptySet
      <3>2. QED
        BY <3>1 DEF Sums
    <2>2. QED
      BY <2>1
  <1>3. ASSUME NEW n \in Q PROVE n + 1 \in Q
    <2>1. ASSUME NEW s \in SUBSET T, Cardinality(s) <= n + 1, s # {} PROVE f[s] = g[s]
      <3>1. Chosen(s) \in s
        BY <2>1 DEF Chosen
      <3>2. Cardinality(s \ {Chosen(s)}) = Cardinality(s) - 1
        BY <1>1, <3>1, FS_RemoveElement
      <3>3. Cardinality(s \ {Chosen(s)}) <= n /\ s \ {Chosen(s)} \in SUBSET T
        BY <1>1, <2>1, <3>2
      <3>4. f[s \ {Chosen(s)}] = g[s \ {Chosen(s)}] /\ w[Chosen(s)] = u[Chosen(s)]
        BY <3>1, <3>3
      <3>5. /\ f[s] = w[Chosen(s)] + f[s \ {Chosen(s)}]
            /\ g[s] = u[Chosen(s)] + g[s \ {Chosen(s)}]
        BY <2>1 DEF Sums
      <3>6. QED
        BY <3>4, <3>5
    <2>2. ASSUME NEW s \in SUBSET T, Cardinality(s) <= n + 1 PROVE f[s] = g[s]
      BY <2>1, <2>2 DEF Sums
    <2>3. QED
      BY <2>2
  <1>4. Q = Nat
    <2>1. Q \in SUBSET Nat /\ \A n \in Q : n + 1 \in Q
      BY <1>3
    <2> HIDE DEF Q
    <2>2. QED
      BY <1>2, <2>1, Numbers
  <1>5. QED
    BY <1>1, <1>4

\* Only what is stored on the volume counts.
LEMMA BytesSame ==
  ASSUME NEW S, IsFiniteSet(S), NEW r, NEW q, NEW v,
         \A t \in S : r[t].store[v] \in Nat /\ r[t].store[v] = q[t].store[v]
  PROVE  Bytes(r, S, v) = Bytes(q, S, v)
  <1> DEFINE w == [t \in S |-> r[t].store[v]]
             u == [t \in S |-> q[t].store[v]]
  <1>1. PICK f : Sums(f, w, S) /\ Bytes(r, S, v) = f[S]
    BY BytesSum
  <1>2. PICK g : Sums(g, u, S) /\ Bytes(q, S, v) = g[S]
    BY BytesSum
  <1>3. \A t \in S : w[t] = u[t]
    OBVIOUS
  <1> HIDE DEF w, u
  <1>4. QED
    BY <1>1, <1>2, <1>3, SumsAgree

\* The bytes that tasks need on a volume are a measure of sets of tasks.
LEMMA Stores ==
  ASSUME NEW v \in Volume
  PROVE  /\ \A S \in SUBSET Task : Bytes(Req, S, v) \in Nat
         /\ Bytes(Req, {}, v) = 0
         /\ \A S \in SUBSET Task : \A t \in Task \ S :
              Bytes(Req, S \cup {t}, v) = Bytes(Req, S, v) + Req[t].store[v]
         /\ \A S, T \in SUBSET Task : S \cap T = {} =>
              Bytes(Req, S \cup T, v) = Bytes(Req, S, v) + Bytes(Req, T, v)
  <1> DEFINE w == [t \in Task |-> Req[t].store[v]]
             B(S) == Bytes(Req, S, v)
  <1>1. IsFiniteSet(Task) /\ \A t \in Task : Req[t].store[v] \in Nat
    BY RequestAssumption DEF Request
  <1>2. w \in [Task -> Nat]
    BY <1>1
  <1>3. PICK f : Sums(f, w, Task)
    <2> HIDE DEF w
    <2>1. QED
      BY <1>1, <1>2, SumsExist
  <1>4. ASSUME NEW S \in SUBSET Task PROVE B(S) = f[S] /\ B(S) \in Nat
    <2> DEFINE u == [t \in S |-> Req[t].store[v]]
    <2>1. IsFiniteSet(S)
      BY <1>1, FS_Subset
    <2>2. PICK g : Sums(g, u, S) /\ B(S) = g[S]
      BY <1>1, <2>1, BytesSum
    <2>3. \A t \in S : w[t] = u[t]
      OBVIOUS
    <2> HIDE DEF w, u, B
    <2>4. f[S] = g[S]
      BY <1>1, <1>3, <2>2, <2>3, SumsAgree
    <2>5. QED
      BY <1>3, <2>2, <2>4 DEF Sums
  <1>5. B({}) = 0
    BY <1>3, <1>4 DEF Sums
  <1>6. ASSUME NEW S \in SUBSET Task, NEW t \in Task \ S
        PROVE  B(S \cup {t}) = B(S) + Req[t].store[v]
    <2>1. f[S \cup {t}] = f[S] + w[t]
      <3> HIDE DEF w
      <3>1. QED
        BY <1>1, <1>2, <1>3, SumsAdd
    <2>2. B(S \cup {t}) = f[S \cup {t}] /\ B(S) = f[S]
      BY <1>4
    <2>3. w[t] = Req[t].store[v]
      OBVIOUS
    <2> HIDE DEF w, B
    <2>4. QED
      BY <2>1, <2>2, <2>3
  <1>7. ASSUME NEW S \in SUBSET Task, NEW T \in SUBSET Task, S \cap T = {}
        PROVE  B(S \cup T) = B(S) + B(T)
    <2> DEFINE P == {U \in SUBSET T : B(S \cup U) = B(S) + B(U)}
    <2>1. {} \in P
      <3>1. S \cup {} = S /\ B(S) \in Nat
        BY <1>4
      <3> HIDE DEF B
      <3>2. QED
        BY <1>5, <3>1
    <2>2. ASSUME NEW U \in P, NEW e \in T PROVE U \cup {e} \in P
      <3> HIDE DEF B
      <3>1. CASE e \in U
        <4>1. U \cup {e} = U
          BY <3>1
        <4>2. QED
          BY <4>1
      <3>2. CASE e \notin U
        <4>1. /\ U \in SUBSET Task /\ S \cup U \in SUBSET Task /\ U \cup {e} \in SUBSET T
              /\ e \in Task \ U /\ e \in Task \ (S \cup U)
              /\ S \cup (U \cup {e}) = (S \cup U) \cup {e}
              /\ B(S \cup U) = B(S) + B(U)
          BY <1>7, <3>2
        <4>2. B(U \cup {e}) = B(U) + Req[e].store[v]
          BY <1>6, <4>1
        <4>3. B(S \cup (U \cup {e})) = B(S \cup U) + Req[e].store[v]
          BY <1>6, <4>1
        <4>4. B(S) \in Nat /\ B(U) \in Nat /\ Req[e].store[v] \in Nat
          BY <1>1, <1>4, <4>1
        <4>5. B(S \cup (U \cup {e})) = B(S) + B(U \cup {e})
          BY <4>1, <4>2, <4>3, <4>4
        <4>6. QED
          BY <4>1, <4>5
      <3>3. QED
        BY <3>1, <3>2
    <2>3. P = SUBSET T
      <3>1. IsFiniteSet(T) /\ P \in SUBSET (SUBSET T)
        BY <1>1, FS_Subset
      <3> HIDE DEF P
      <3>2. QED
        BY <2>1, <2>2, <3>1, FiniteSubsets
    <2>4. QED
      BY <2>3
  <1>8. QED
    BY <1>4, <1>5, <1>6, <1>7

-----------------------------------------------------------------------------
(* Acquiring and releasing. *)

\* The request of a task is a request, and stays one for a follower.
LEMMA Requests ==
  ASSUME NEW t \in Task
  PROVE  /\ Req[t] \in Request /\ AsFollower(Req[t]) \in Request
         /\ AsFollower(Req[t]).vol = Req[t].vol
         /\ AsFollower(Req[t]).paths = Req[t].paths
         /\ Req[t].vol \in [Kind -> SUBSET Volume]
         /\ Req[t].paths \subseteq Path
  BY RequestAssumption DEF Request, AsFollower, RunClass

\* What a task that held nothing acquires is counted once more.
LEMMA AcquireExact ==
  ASSUME IInv, NEW t \in Task \ held, NEW r \in Request,
         r.vol = Req[t].vol, r.paths = Req[t].paths,
         Acquire(r), held' = held \cup {t},
         HeldRequest(t)' = r, \A u \in held : HeldRequest(u)' = HeldRequest(u)
  PROVE  Counters' /\ PermitsExact'
  <1>1. held \in SUBSET Task
    BY DEF IInv, Holds
  <1>2. ASSUME NEW s \in Slot
        PROVE  slots'[s] = Cardinality({u \in held' : Takes(HeldRequest(u)', s)})
    <2> DEFINE X == {u \in held' : Takes(HeldRequest(u)', s)}
    <2>1. slots'[s] = slots[s] + One(Takes(r, s))
      BY DEF Acquire
    <2>2. slots[s] = Cardinality({u \in held : Takes(HeldRequest(u), s)})
      BY DEF IInv, PermitsExact
    <2>3. {u \in held : Takes(HeldRequest(u), s)} = {u \in held : u \in X}
      OBVIOUS
    <2>4. X = {u \in held \cup {t} : u \in X}
      OBVIOUS
    <2>5. t \in X <=> Takes(r, s)
      OBVIOUS
    <2>6. One(t \in X) = One(Takes(r, s))
      BY <2>5 DEF One
    <2> HIDE DEF X
    <2>7. Cardinality(X) = slots'[s]
      BY <1>1, <2>1, <2>2, <2>3, <2>4, <2>6, CountAdd
    <2>8. QED
      BY <2>7 DEF X
  <1>3. ASSUME NEW k \in Kind, NEW v \in Volume
        PROVE  onVolume'[k][v] = Cardinality(Holders(k, v)')
    <2> DEFINE X == {u \in Task : v \in Req[u].vol[k]}
    <2>1. onVolume'[k][v] = onVolume[k][v] + One(t \in X)
      BY DEF Acquire, One
    <2>2. onVolume[k][v] = Cardinality({u \in held : u \in X})
      <3>1. Holders(k, v) = {u \in held : u \in X}
        BY <1>1 DEF Holders
      <3>2. QED
        BY <3>1 DEF IInv, PermitsExact
    <2>3. Holders(k, v)' = {u \in held \cup {t} : u \in X}
      BY <1>1 DEF Holders
    <2> HIDE DEF X
    <2>4. QED
      BY <1>1, <2>1, <2>2, <2>3, CountAdd
  <1>4. mutating' = UNION {Req[u].paths : u \in held'}
    BY DEF Acquire, IInv, PermitsExact
  <1>5. Counters'
    BY DEF Counters, Acquire, One, IInv
  <1>6. QED
    BY <1>2, <1>3, <1>4, <1>5 DEF PermitsExact

\* The tasks that hold a permit on a volume are finitely many.
LEMMA HoldersFinite ==
  ASSUME Holds, NEW k \in Kind, NEW v \in Volume
  PROVE  IsFiniteSet(Holders(k, v)) /\ Cardinality(Holders(k, v)) \in Nat
  <1>1. Holders(k, v) \subseteq Task
    BY DEF Holds, Holders
  <1>2. IsFiniteSet(Holders(k, v))
    BY <1>1, RequestAssumption, FS_Subset
  <1>3. QED
    BY <1>2, FS_CardinalityType

\* Fewer tasks disturb each other no more.
LEMMA FewerIsolated ==
  ASSUME Holds, WorkIsolated, held' \subseteq held
  PROVE  WorkIsolated'
  <1>1. ASSUME NEW v \in Volume, NEW k \in Kind
        PROVE  /\ Holders(k, v)' \subseteq Holders(k, v)
               /\ Cardinality(Holders(k, v)) \in Nat
               /\ Cardinality(Holders(k, v)') \in Nat
               /\ Cardinality(Holders(k, v)') <= Cardinality(Holders(k, v))
    <2>1. Holders(k, v)' \subseteq Holders(k, v)
      BY DEF Holders
    <2>2. IsFiniteSet(Holders(k, v)) /\ Cardinality(Holders(k, v)) \in Nat
      BY HoldersFinite
    <2>3. QED
      BY <2>1, <2>2, FS_Subset, FS_CardinalityType
  <1>2. \A t, u \in held' : t # u =>
          \A p \in Req[t].paths, q \in Req[u].paths : ~IsPrefix(p, q)
    BY DEF WorkIsolated
  <1>3. ASSUME NEW v \in Volume
        PROVE  LET p == Policy[v]
                   R == Holders("read", v)'
                   W == Holders("write", v)'
                   M == Holders("metadata", v)'
               IN /\ Cardinality(R) <= p.read /\ Cardinality(W) <= p.write
                  /\ Cardinality(M) <= p.metadata
                  /\ p.mode = "Mixed" => Cardinality(R) + Cardinality(W) <= p.pressure
                  /\ p.mode = "Exclusive" => /\ \A t \in R, u \in W : t = u
                                             /\ \A t \in M, u \in R \cup W : t = u
                  /\ Cardinality(Holders("save", v)') <= 1
    <2>1. {"read", "write", "metadata", "save"} \subseteq Kind
      BY DEF Kind, Streaming
    <2>2. Policy[v].read \in Nat /\ Policy[v].write \in Nat /\ Policy[v].metadata \in Nat
          /\ Policy[v].pressure \in Nat
      BY ConfigAssumption
    <2> DEFINE n(k) == Cardinality(Holders(k, v))
               m(k) == Cardinality(Holders(k, v)')
    <2>3. \A k \in {"read", "write", "metadata", "save"} :
            n(k) \in Nat /\ m(k) \in Nat /\ m(k) <= n(k)
      BY <1>1, <2>1
    <2>4. /\ n("read") <= Policy[v].read /\ n("write") <= Policy[v].write
          /\ n("metadata") <= Policy[v].metadata /\ n("save") <= 1
          /\ Policy[v].mode = "Mixed" => n("read") + n("write") <= Policy[v].pressure
      BY DEF WorkIsolated
    <2> HIDE DEF n, m
    <2>5. /\ m("read") <= Policy[v].read /\ m("write") <= Policy[v].write
          /\ m("metadata") <= Policy[v].metadata /\ m("save") <= 1
          /\ Policy[v].mode = "Mixed" => m("read") + m("write") <= Policy[v].pressure
      BY <2>2, <2>3, <2>4
    <2>6. Policy[v].mode = "Exclusive" =>
            /\ \A t \in Holders("read", v)', u \in Holders("write", v)' : t = u
            /\ \A t \in Holders("metadata", v)', u \in Holders("read", v)' \cup Holders("write", v)' : t = u
      <3>1. \A k \in {"read", "write", "metadata"} : Holders(k, v)' \subseteq Holders(k, v)
        BY <1>1, <2>1
      <3>2. Policy[v].mode = "Exclusive" =>
              /\ \A t \in Holders("read", v), u \in Holders("write", v) : t = u
              /\ \A t \in Holders("metadata", v), u \in Holders("read", v) \cup Holders("write", v) : t = u
        BY DEF WorkIsolated
      <3>3. QED
        BY <3>1, <3>2
    <2>7. QED
      BY <2>5, <2>6 DEF m
  <1>4. QED
    BY <1>2, <1>3 DEF WorkIsolated

\* No path of a task at work is one of another's.
LEMMA PathsApart ==
  ASSUME IInv, NEW t \in held, NEW u \in held, t # u
  PROVE  Req[t].paths \cap Req[u].paths = {}
  <1>1. ASSUME NEW p \in Req[t].paths, p \in Req[u].paths PROVE FALSE
    <2>1. p \in Seq(STRING)
      BY RequestAssumption, Requests DEF IInv, Holds
    <2>2. IsPrefix(p, p)
      BY <2>1 DEF IsPrefix
    <2>3. QED
      BY <1>1, <2>2 DEF IInv, WorkIsolated
  <1>2. QED
    BY <1>1

\* What tasks release is taken back exactly.
LEMMA ReleaseExact ==
  ASSUME IInv, NEW R \in SUBSET held,
         ReleaseAll([u \in R |-> HeldRequest(u)]),
         held' = held \ R, borrowed' = borrowed \ R
  PROVE  Counters' /\ PermitsExact'
  <1> DEFINE rs == [u \in R |-> HeldRequest(u)]
  <1>1. held \in SUBSET Task /\ R \in SUBSET held
    BY DEF IInv, Holds
  <1>2. DOMAIN rs = R /\ \A u \in R : rs[u] = HeldRequest(u)
    OBVIOUS
  <1>3. \A u \in held \ R : HeldRequest(u)' = HeldRequest(u)
    BY DEF HeldRequest
  <1>4. \A u \in R : rs[u].vol = Req[u].vol /\ rs[u].paths = Req[u].paths
    BY <1>1, <1>2, Requests DEF HeldRequest
  <1>5. ReleaseAll(rs)
    OBVIOUS
  <1> HIDE DEF rs
  <1>6. ASSUME NEW s \in Slot
        PROVE  slots'[s] = Cardinality({u \in held' : Takes(HeldRequest(u)', s)})
    <2> DEFINE X == {u \in held : Takes(HeldRequest(u), s)}
    <2>1. slots'[s] = Minus(slots[s], Cardinality({u \in R : u \in X}))
      <3>1. {u \in DOMAIN rs : Takes(rs[u], s)} = {u \in R : u \in X}
        BY <1>2
      <3>2. QED
        BY <1>5, <3>1, ZenonT(40) DEF ReleaseAll
    <2>2. slots[s] = Cardinality({u \in held : u \in X})
      <3>1. X = {u \in held : u \in X}
        OBVIOUS
      <3>2. slots[s] = Cardinality(X)
        BY DEF IInv, PermitsExact
      <3>3. QED
        BY <3>1, <3>2
    <2>3. {u \in held' : Takes(HeldRequest(u)', s)} = {u \in held \ R : u \in X}
      BY <1>3
    <2> HIDE DEF X
    <2>4. Cardinality({u \in held \ R : u \in X})
            = Minus(Cardinality({u \in held : u \in X}), Cardinality({u \in R : u \in X}))
      BY <1>1, CountRemove
    <2>5. QED
      BY <2>1, <2>2, <2>3, <2>4
  <1>7. ASSUME NEW k \in Kind, NEW v \in Volume
        PROVE  onVolume'[k][v] = Cardinality(Holders(k, v)')
    <2> DEFINE X == Holders(k, v)
    <2>1. onVolume'[k][v] = Minus(onVolume[k][v], Cardinality({u \in R : u \in X}))
      <3>1. {u \in DOMAIN rs : v \in rs[u].vol[k]} = {u \in R : u \in X}
        BY <1>2, <1>4 DEF Holders
      <3>2. onVolume'[k][v] = Minus(onVolume[k][v],
                                    Cardinality({u \in DOMAIN rs : v \in rs[u].vol[k]}))
        <4>1. onVolume' = [c \in Kind |-> [w \in Volume |->
                Minus(onVolume[c][w], Cardinality({u \in DOMAIN rs : w \in rs[u].vol[c]}))]]
          BY <1>5 DEF ReleaseAll
        <4>2. QED
          BY <4>1
      <3>3. QED
        BY <3>1, <3>2
    <2>2. onVolume[k][v] = Cardinality({u \in held : u \in X})
      <3>1. X = {u \in held : u \in X}
        BY DEF Holders
      <3>2. onVolume[k][v] = Cardinality(X)
        BY DEF IInv, PermitsExact
      <3>3. QED
        BY <3>1, <3>2
    <2>3. Holders(k, v)' = {u \in held \ R : u \in X}
      BY DEF Holders
    <2> HIDE DEF X
    <2>4. Cardinality({u \in held \ R : u \in X})
            = Minus(Cardinality({u \in held : u \in X}), Cardinality({u \in R : u \in X}))
      BY <1>1, CountRemove
    <2>5. QED
      BY <2>1, <2>2, <2>3, <2>4
  <1>8. mutating' = UNION {Req[u].paths : u \in held'}
    <2>1. mutating' = mutating \ UNION {Req[u].paths : u \in R}
      <3>1. {rs[u].paths : u \in DOMAIN rs} = {Req[u].paths : u \in R}
        BY <1>2, <1>4
      <3>2. QED
        BY <1>5, <3>1 DEF ReleaseAll, PathsAfter
    <2>2. mutating = UNION {Req[u].paths : u \in held}
      BY DEF IInv, PermitsExact
    <2>3. \A u \in held \ R, w \in R : Req[u].paths \cap Req[w].paths = {}
      BY PathsApart
    <2>4. QED
      BY <2>1, <2>2, <2>3
  <1>9. Counters'
    <2>1. slots' \in [Slot -> Nat]
      <3>1. ASSUME NEW s \in Slot PROVE slots'[s] \in Nat
        <4>1. IsFiniteSet({u \in held' : Takes(HeldRequest(u)', s)})
          BY <1>1, RequestAssumption, FS_Subset
        <4>2. QED
          BY <1>6, <4>1, FS_CardinalityType
      <3>2. QED
        BY <1>5, <3>1 DEF ReleaseAll
    <2>2. onVolume' \in [Kind -> [Volume -> Nat]]
      <3>1. ASSUME NEW k \in Kind, NEW v \in Volume PROVE onVolume'[k][v] \in Nat
        <4>1. IsFiniteSet(Holders(k, v)')
          BY <1>1, RequestAssumption, FS_Subset DEF Holders
        <4>2. QED
          BY <1>7, <4>1, FS_CardinalityType
      <3>2. QED
        BY <1>5, <3>1 DEF ReleaseAll
    <2>3. QED
      BY <2>1, <2>2 DEF Counters
  <1>10. QED
    BY <1>6, <1>7, <1>8, <1>9 DEF PermitsExact

\* A task whose request can be granted disturbs none of those at work.
LEMMA AcquireIsolated ==
  ASSUME IInv, NEW t \in Task \ held, NEW r \in Request, NEW a,
         r.vol = Req[t].vol, r.paths = Req[t].paths,
         CanAcquire(r, a), Acquire(r), held' = held \cup {t}, PermitsExact'
  PROVE  WorkIsolated'
  <1>1. ASSUME NEW u \in held, NEW p \in Req[u].paths, NEW q \in r.paths
        PROVE  ~IsPrefix(p, q) /\ ~IsPrefix(q, p)
    <2>1. p \in mutating
      BY DEF IInv, PermitsExact
    <2>2. QED
      BY <2>1 DEF CanAcquire, MutationConflict, Conflict
  <1>2. ASSUME NEW u \in held', NEW w \in held', u # w,
               NEW p \in Req[u].paths, NEW q \in Req[w].paths
        PROVE  ~IsPrefix(p, q)
    <2>1. CASE u \in held /\ w \in held
      BY <1>2, <2>1 DEF IInv, WorkIsolated
    <2>2. CASE u = t \/ w = t
      BY <1>1, <1>2, <2>2
    <2>3. QED
      BY <2>1, <2>2
  <1>3. ASSUME NEW v \in Volume
        PROVE  LET p == Policy[v]
                   R == Holders("read", v)'
                   W == Holders("write", v)'
                   M == Holders("metadata", v)'
               IN /\ Cardinality(R) <= p.read /\ Cardinality(W) <= p.write
                  /\ Cardinality(M) <= p.metadata
                  /\ p.mode = "Mixed" => Cardinality(R) + Cardinality(W) <= p.pressure
                  /\ p.mode = "Exclusive" => /\ \A x \in R, u \in W : x = u
                                             /\ \A x \in M, u \in R \cup W : x = u
                  /\ Cardinality(Holders("save", v)') <= 1
    <2> DEFINE n(k) == onVolume[k][v]
               m(k) == onVolume'[k][v]
               p == Policy[v]
    <2>1. \A k \in Kind : /\ n(k) = Cardinality(Holders(k, v)) /\ n(k) \in Nat
                          /\ m(k) = Cardinality(Holders(k, v)')
                          /\ m(k) = n(k) + One(v \in r.vol[k])
                          /\ n(k) = 0 => Holders(k, v) = {}
                          /\ Holders(k, v)' = IF v \in r.vol[k] THEN Holders(k, v) \cup {t}
                                              ELSE Holders(k, v)
      <3>1. ASSUME NEW k \in Kind
            PROVE  /\ n(k) = Cardinality(Holders(k, v)) /\ n(k) \in Nat
                   /\ m(k) = Cardinality(Holders(k, v)')
                   /\ m(k) = n(k) + One(v \in r.vol[k])
                   /\ n(k) = 0 => Holders(k, v) = {}
                   /\ Holders(k, v)' = IF v \in r.vol[k] THEN Holders(k, v) \cup {t}
                                       ELSE Holders(k, v)
        <4>1. n(k) = Cardinality(Holders(k, v)) /\ m(k) = Cardinality(Holders(k, v)')
          BY DEF IInv, PermitsExact
        <4>2. n(k) \in Nat
          BY DEF IInv, Counters
        <4>3. m(k) = n(k) + One(v \in r.vol[k])
          BY DEF Acquire
        <4>4. n(k) = 0 => Holders(k, v) = {}
          BY <4>1, HoldersFinite, FS_EmptySet DEF IInv
        <4>5. Holders(k, v)' = IF v \in r.vol[k] THEN Holders(k, v) \cup {t}
                              ELSE Holders(k, v)
          BY DEF Holders
        <4>6. QED
          BY <4>1, <4>2, <4>3, <4>4, <4>5
      <3>2. QED
        BY <3>1
    <2>2. {"read", "write", "metadata", "save"} \subseteq Kind
      BY DEF Kind, Streaming
    <2>3. p.read \in Nat /\ p.write \in Nat /\ p.metadata \in Nat /\ p.pressure \in Nat
          /\ p.mode \in {"Exclusive", "Mixed"}
      BY ConfigAssumption
    <2>4. /\ n("read") <= p.read /\ n("write") <= p.write
          /\ n("metadata") <= p.metadata /\ n("save") <= 1
          /\ p.mode = "Mixed" => n("read") + n("write") <= p.pressure
          /\ p.mode = "Exclusive" =>
               /\ \A x \in Holders("read", v), u \in Holders("write", v) : x = u
               /\ \A x \in Holders("metadata", v), u \in Holders("read", v) \cup Holders("write", v) : x = u
      BY <2>1, <2>2 DEF IInv, WorkIsolated
    <2> DEFINE reading == v \in r.vol["read"]
               writing == v \in r.vol["write"]
               changing == v \in r.vol["metadata"]
    <2>5. (reading \/ writing \/ changing) =>
            /\ n("read") + One(reading) <= p.read
            /\ n("write") + One(writing) <= p.write
            /\ n("metadata") + One(changing) <= p.metadata
            /\ p.mode = "Exclusive" => /\ ~(reading /\ n("write") > 0)
                                       /\ ~(writing /\ n("read") > 0)
                                       /\ ~(changing /\ (n("read") > 0 \/ n("write") > 0))
                                       /\ ~((reading \/ writing) /\ n("metadata") > 0)
            /\ p.mode = "Mixed" =>
                 n("read") + n("write") + One(reading) + One(writing) <= p.pressure
      <3>1. (reading \/ writing \/ changing) => v \in VolumesOf(r)
        BY DEF VolumesOf, Streaming
      <3>2. (reading \/ writing \/ changing) => VolumeFits(r, v, a)
        BY <3>1 DEF CanAcquire
      <3>3. \A w : Kept(r, v, a, w) \in {0, 1}
        BY DEF Kept, One
      <3>4. QED
        BY <2>1, <2>2, <2>3, <3>2, <3>3 DEF VolumeFits, One
    <2>6. v \in r.vol["save"] => n("save") = 0
      BY DEF CanAcquire
    <2>7. /\ m("read") <= p.read /\ m("write") <= p.write
          /\ m("metadata") <= p.metadata /\ m("save") <= 1
          /\ p.mode = "Mixed" => m("read") + m("write") <= p.pressure
      <3> HIDE DEF n, m, p
      <3>1. \A k \in {"read", "write", "metadata", "save"} :
              n(k) \in Nat /\ m(k) = n(k) + One(v \in r.vol[k])
        BY <2>1, <2>2
      <3>2. QED
        BY <2>3, <2>4, <2>5, <2>6, <3>1 DEF One
    <2>8. p.mode = "Exclusive" =>
            /\ \A x \in Holders("read", v)', u \in Holders("write", v)' : x = u
            /\ \A x \in Holders("metadata", v)', u \in Holders("read", v)' \cup Holders("write", v)' : x = u
      <3>1. ASSUME p.mode = "Exclusive"
            PROVE  /\ reading => Holders("write", v) = {} /\ Holders("metadata", v) = {}
                   /\ writing => Holders("read", v) = {} /\ Holders("metadata", v) = {}
                   /\ changing => Holders("read", v) = {} /\ Holders("write", v) = {}
        <4> HIDE DEF n, m, p
        <4>1. \A k \in {"read", "write", "metadata"} :
                n(k) \in Nat /\ (n(k) = 0 => Holders(k, v) = {})
          BY <2>1, <2>2
        <4>2. /\ reading => n("write") = 0 /\ n("metadata") = 0
              /\ writing => n("read") = 0 /\ n("metadata") = 0
              /\ changing => n("read") = 0 /\ n("write") = 0
          BY <2>5, <3>1, <4>1
        <4>3. QED
          BY <4>1, <4>2
      <3>2. \A k \in {"read", "write", "metadata"} :
              Holders(k, v)' = IF v \in r.vol[k] THEN Holders(k, v) \cup {t} ELSE Holders(k, v)
        BY <2>1, <2>2
      <3>3. QED
        BY <2>4, <3>1, <3>2
    <2>9. QED
      BY <2>1, <2>2, <2>7, <2>8
  <1>4. QED
    BY <1>2, <1>3 DEF WorkIsolated

-----------------------------------------------------------------------------
(* Queues. *)

Distinct(q) == \A i, j \in DOMAIN q : q[i] = q[j] => i = j

\* A queue without its i-th task.
LEMMA RemoveShape ==
  ASSUME NEW q \in Seq(Task), Distinct(q), NEW i \in DOMAIN q
  PROVE  /\ RemoveAt(q, i) \in Seq(Task)
         /\ Distinct(RemoveAt(q, i))
         /\ \A j \in DOMAIN RemoveAt(q, i) :
              /\ RemoveAt(q, i)[j] # q[i]
              /\ \E m \in DOMAIN q : RemoveAt(q, i)[j] = q[m]
         /\ ToSet(RemoveAt(q, i)) = ToSet(q) \ {q[i]}
  <1> DEFINE r == RemoveAt(q, i)
             at(j) == IF j < i THEN j ELSE j + 1
  <1>1. i \in 1 .. Len(q) /\ Len(q) \in Nat
    OBVIOUS
  <1>2. /\ r \in Seq(Task) /\ Len(r) = Len(q) - 1
        /\ \A j \in 1 .. Len(q) - 1 : r[j] = q[at(j)]
    <2> DEFINE b == SubSeq(q, 1, i - 1)
               c == SubSeq(q, i + 1, Len(q))
    <2>1. b \in Seq(Task) /\ Len(b) = i - 1 /\ \A j \in 1 .. i - 1 : b[j] = q[j]
      BY <1>1
    <2>2. c \in Seq(Task) /\ Len(c) = Len(q) - i /\ \A j \in 1 .. Len(q) - i : c[j] = q[i + j]
      BY <1>1
    <2>3. r = b \o c
      BY DEF RemoveAt
    <2> HIDE DEF b, c, r
    <2>4. r \in Seq(Task) /\ Len(r) = Len(q) - 1
      BY <1>1, <2>1, <2>2, <2>3
    <2>5. ASSUME NEW j \in 1 .. Len(q) - 1
          PROVE  r[j] = q[at(j)]
      <3>1. CASE j < i
        <4>1. r[j] = b[j] /\ j \in 1 .. i - 1
          BY <1>1, <2>1, <2>2, <2>3, <3>1
        <4>2. QED
          BY <2>1, <3>1, <4>1
      <3>2. CASE ~(j < i)
        <4>1. r[j] = c[j - (i - 1)] /\ j - (i - 1) \in 1 .. Len(q) - i
          BY <1>1, <2>1, <2>2, <2>3, <3>2, SMTT(30)
        <4>2. i + (j - (i - 1)) = j + 1
          BY <1>1
        <4>3. QED
          BY <2>2, <3>2, <4>1, <4>2
      <3>3. QED
        BY <3>1, <3>2
    <2>6. QED
      BY <2>4, <2>5
  <1>3. \A j \in DOMAIN r : j \in 1 .. Len(q) - 1 /\ at(j) \in DOMAIN q /\ at(j) # i
    BY <1>1, <1>2
  <1>4. \A j, m \in DOMAIN r : at(j) = at(m) => j = m
    BY <1>1, <1>3
  <1>a. \A m \in DOMAIN q : m # i => \E j \in DOMAIN r : at(j) = m
    <2>1. DOMAIN r = 1 .. Len(q) - 1
      BY <1>1, <1>2
    <2> HIDE DEF r
    <2>2. ASSUME NEW m \in DOMAIN q, m # i PROVE \E j \in DOMAIN r : at(j) = m
      <3>1. m \in 1 .. Len(q)
        OBVIOUS
      <3>2. CASE m < i
        <4>1. m \in DOMAIN r /\ at(m) = m
          BY <1>1, <2>1, <3>1, <3>2
        <4>2. QED
          BY <4>1
      <3>3. CASE ~(m < i)
        <4>1. m - 1 \in DOMAIN r /\ at(m - 1) = m
          BY <1>1, <2>1, <2>2, <3>1, <3>3
        <4>2. QED
          BY <4>1
      <3>4. QED
        BY <3>2, <3>3
    <2>3. QED
      BY <2>2
  <1>b. \A j \in DOMAIN r : r[j] = q[at(j)]
    BY <1>2, <1>3
  <1> HIDE DEF r, at
  <1>5. Distinct(r)
    BY <1>2, <1>3, <1>4 DEF Distinct
  <1>6. \A j \in DOMAIN r : r[j] # q[i] /\ \E m \in DOMAIN q : r[j] = q[m]
    BY <1>2, <1>3 DEF Distinct
  <1>7. ToSet(r) = ToSet(q) \ {q[i]}
    <2>1. \A m \in DOMAIN q : m # i => \E j \in DOMAIN r : r[j] = q[m]
      BY <1>a, <1>b
    <2>2. QED
      BY <1>6, <2>1 DEF ToSet
  <1>8. QED
    BY <1>2, <1>5, <1>6, <1>7 DEF r

\* A queue with another task at its end.
LEMMA AppendShape ==
  ASSUME NEW q \in Seq(Task), Distinct(q), NEW t \in Task, \A i \in DOMAIN q : q[i] # t
  PROVE  /\ Append(q, t) \in Seq(Task)
         /\ Distinct(Append(q, t))
         /\ \A j \in DOMAIN Append(q, t) :
              Append(q, t)[j] = t \/ \E m \in DOMAIN q : Append(q, t)[j] = q[m]
  BY DEF Distinct

\* A queue with other tasks put before it.
LEMMA JoinShape ==
  ASSUME NEW r \in Seq(Task), NEW q \in Seq(Task), Distinct(r), Distinct(q),
         \A i \in DOMAIN r, j \in DOMAIN q : r[i] # q[j]
  PROVE  /\ r \o q \in Seq(Task)
         /\ Distinct(r \o q)
         /\ \A j \in DOMAIN (r \o q) :
              \/ \E m \in DOMAIN r : (r \o q)[j] = r[m]
              \/ \E m \in DOMAIN q : (r \o q)[j] = q[m]
  <1> DEFINE s == r \o q
  <1>1. s \in Seq(Task) /\ Len(s) = Len(r) + Len(q) /\ Len(r) \in Nat /\ Len(q) \in Nat
    OBVIOUS
  <1>2. \A j \in DOMAIN s : \/ j \in DOMAIN r /\ s[j] = r[j]
                            \/ j \notin DOMAIN r /\ j - Len(r) \in DOMAIN q /\ s[j] = q[j - Len(r)]
    OBVIOUS
  <1>3. DOMAIN s \subseteq Int
    BY <1>1
  <1> HIDE DEF s
  <1>4. Distinct(s)
    <2>1. SUFFICES ASSUME NEW i \in DOMAIN s, NEW j \in DOMAIN s, s[i] = s[j]
                   PROVE  i = j
      BY DEF Distinct
    <2>2. CASE i \in DOMAIN r /\ j \in DOMAIN r
      BY <1>2, <2>1, <2>2 DEF Distinct
    <2>3. CASE i \notin DOMAIN r /\ j \notin DOMAIN r
      <3>1. i - Len(r) = j - Len(r)
        BY <1>2, <2>1, <2>3 DEF Distinct
      <3>2. QED
        BY <1>1, <1>3, <2>1, <3>1
    <2>4. CASE (i \in DOMAIN r) # (j \in DOMAIN r)
      BY <1>2, <2>1, <2>4
    <2>5. QED
      BY <2>2, <2>3, <2>4
  <1>5. QED
    BY <1>1, <1>2, <1>4 DEF s

\* A task that is taken from a queue held nothing, and is in no queue afterwards.
LEMMA Taken ==
  ASSUME IInv, NEW p \in Priority, NEW i \in DOMAIN queue[p],
         queue' = [queue EXCEPT ![p] = RemoveAt(@, i)],
         held' = held \cup {queue[p][i]}
  PROVE  queue[p][i] \in Task \ held /\ Waits'
  <1> DEFINE t == queue[p][i]
  <1>1. queue[p] \in Seq(Task) /\ Distinct(queue[p])
    BY DEF IInv, Waits, Distinct
  <1>2. t \in Task \ held
    BY <1>1 DEF IInv, Waits
  <1>3. /\ RemoveAt(queue[p], i) \in Seq(Task) /\ Distinct(RemoveAt(queue[p], i))
        /\ \A j \in DOMAIN RemoveAt(queue[p], i) :
             /\ RemoveAt(queue[p], i)[j] # t
             /\ \E m \in DOMAIN queue[p] : RemoveAt(queue[p], i)[j] = queue[p][m]
    BY <1>1, RemoveShape
  <1>4. /\ queue' \in [Priority -> Seq(Task)]
        /\ queue'[p] = RemoveAt(queue[p], i)
        /\ \A x \in Priority \ {p} : queue'[x] = queue[x]
    BY <1>3 DEF IInv, Waits
  <1>5. \A x \in Priority : /\ Distinct(queue'[x])
                            /\ \A j \in DOMAIN queue'[x] :
                                 \E m \in DOMAIN queue[x] : queue'[x][j] = queue[x][m]
    BY <1>3, <1>4 DEF IInv, Waits, Distinct
  <1>6. \A j \in DOMAIN queue'["Continuation"], m \in DOMAIN queue'["Bulk"] :
          queue'["Continuation"][j] # queue'["Bulk"][m]
    BY <1>5 DEF IInv, Waits, Priority
  <1>7. ASSUME NEW x \in Priority, NEW j \in DOMAIN queue'[x]
        PROVE  queue'[x][j] \notin held'
    <2>1. queue'[x][j] \notin held
      BY <1>5 DEF IInv, Waits
    <2>2. queue'[x][j] # t
      <3>1. CASE x = p
        BY <1>3, <1>4, <3>1
      <3>2. CASE x # p
        BY <1>4, <3>2 DEF IInv, Waits, Priority
      <3>3. QED
        BY <3>1, <3>2
    <2>3. QED
      BY <2>1, <2>2
  <1>8. QED
    BY <1>2, <1>4, <1>5, <1>6, <1>7 DEF Waits, Distinct

-----------------------------------------------------------------------------
(* Steps. *)

LEMMA InitHolds == Init => IInv
  <1> SUFFICES ASSUME Init PROVE IInv
    OBVIOUS
  <1>1. Waits /\ Holds /\ Counters
    <2>1. Waits
      <3>1. queue \in [Priority -> Seq(Task)] /\ \A p \in Priority : queue[p] = << >>
        BY DEF Init
      <3>2. QED
        BY <3>1 DEF Waits, Priority
    <2>2. Holds
      BY DEF Init, Holds
    <2>3. Counters
      BY DEF Init, Counters
    <2>4. QED
      BY <2>1, <2>2, <2>3
  <1>2. \A k \in Kind, v \in Volume : Holders(k, v) = {}
    BY DEF Init, Holders
  <1>3. PermitsExact
    <2>1. \A s \in Slot : {t \in held : Takes(HeldRequest(t), s)} = {}
      BY DEF Init
    <2>2. mutating = UNION {Req[t].paths : t \in held}
      BY DEF Init
    <2>3. QED
      BY <1>2, <2>1, <2>2, FS_EmptySet DEF Init, PermitsExact
  <1>4. WorkIsolated
    <2>1. {"read", "write", "metadata", "save"} \subseteq Kind
      BY DEF Kind, Streaming
    <2>2. ASSUME NEW v \in Volume
          PROVE  Policy[v].read \in Nat /\ Policy[v].write \in Nat /\ Policy[v].metadata \in Nat
                 /\ Policy[v].pressure \in Nat
      BY ConfigAssumption
    <2>3. held = {} /\ Cardinality({}) = 0
      BY FS_EmptySet DEF Init
    <2>4. \A v \in Volume : \A k \in {"read", "write", "metadata", "save"} : Holders(k, v) = {}
      BY <1>2, <2>1
    <2>5. ASSUME NEW v \in Volume
          PROVE  /\ Holders("read", v) = {} /\ Holders("write", v) = {}
                 /\ Holders("metadata", v) = {} /\ Holders("save", v) = {}
      BY <2>4
    <2>6. QED
      BY <2>2, <2>3, <2>5 DEF WorkIsolated
  <1>5. QED
    BY <1>1, <1>3, <1>4 DEF IInv

\* Permits that nobody touches.
LEMMA PermitsKept ==
  ASSUME IInv, UNCHANGED <<held, borrowed, resourceVars>>
  PROVE  Counters' /\ PermitsExact' /\ WorkIsolated'
  <1>1. Counters'
    BY DEF IInv, Counters, resourceVars
  <1>2. ASSUME NEW s \in Slot
        PROVE  {t \in held' : Takes(HeldRequest(t)', s)} = {t \in held : Takes(HeldRequest(t), s)}
    <2>1. \A t \in held : HeldRequest(t)' = HeldRequest(t)
      BY DEF HeldRequest
    <2>2. QED
      BY <2>1
  <1>3. \A k \in Kind, v \in Volume : Holders(k, v)' = Holders(k, v)
    BY DEF Holders
  <1>4. PermitsExact'
    BY <1>2, <1>3 DEF IInv, PermitsExact, resourceVars
  <1>5. WorkIsolated'
    BY FewerIsolated DEF IInv
  <1>6. QED
    BY <1>1, <1>4, <1>5

\* A round that is dispatched, and what neither queues nor permits depend on.
LEMMA Unchanged ==
  ASSUME IInv, UNCHANGED <<queue, held, borrowed, resourceVars>>,
         round' = << >> \/ UNCHANGED <<round, pass>>
  PROVE  IInv'
  <1>1. Waits'
    BY DEF IInv, Waits
  <1>2. Holds'
    <2>1. CASE UNCHANGED <<round, pass>>
      BY <2>1 DEF IInv, Holds
    <2>2. CASE round' = << >>
      BY <2>2 DEF IInv, Holds
    <2>3. QED
      BY <2>1, <2>2
  <1>3. QED
    BY <1>1, <1>2, PermitsKept DEF IInv

LEMMA PushHolds ==
  ASSUME IInv, NEW t \in Task, Push(t)
  PROVE  IInv'
  <1> DEFINE x == IF t \in Dynamic \cup done THEN "Continuation" ELSE "Bulk"
  <1>1. /\ x \in Priority /\ queue[x] \in Seq(Task) /\ Distinct(queue[x])
        /\ \A p \in Priority : \A i \in DOMAIN queue[p] : queue[p][i] # t
    BY DEF Push, IInv, Waits, Distinct, Queued, ToSet, Priority
  <1>2. /\ Append(queue[x], t) \in Seq(Task) /\ Distinct(Append(queue[x], t))
        /\ \A j \in DOMAIN Append(queue[x], t) :
             Append(queue[x], t)[j] = t \/ \E m \in DOMAIN queue[x] : Append(queue[x], t)[j] = queue[x][m]
    BY <1>1, AppendShape
  <1>3. /\ queue' = [queue EXCEPT ![x] = Append(queue[x], t)] /\ t \notin held
        /\ UNCHANGED <<held, borrowed, round, pass, resourceVars>>
    BY <1>1 DEF Push, passVars
  <1> HIDE DEF x
  <1>4. /\ queue' \in [Priority -> Seq(Task)]
        /\ queue'[x] = Append(queue[x], t)
        /\ \A p \in Priority \ {x} : queue'[p] = queue[p]
    BY <1>1, <1>2, <1>3 DEF IInv, Waits
  <1>5. Waits'
    <2>1. \A p \in Priority : Distinct(queue'[p])
      BY <1>2, <1>4 DEF IInv, Waits, Distinct
    <2>2. \A p \in Priority : \A i \in DOMAIN queue'[p] :
            \/ p = x /\ queue'[p][i] = t
            \/ \E m \in DOMAIN queue[p] : queue'[p][i] = queue[p][m]
      BY <1>2, <1>4
    <2>3. \A i \in DOMAIN queue'["Continuation"], j \in DOMAIN queue'["Bulk"] :
            queue'["Continuation"][i] # queue'["Bulk"][j]
      BY <1>1, <2>2 DEF IInv, Waits, Priority
    <2>4. \A p \in Priority : \A i \in DOMAIN queue'[p] : queue'[p][i] \notin held'
      BY <1>3, <2>2 DEF IInv, Waits
    <2>5. QED
      BY <1>4, <2>1, <2>3, <2>4 DEF Waits, Distinct
  <1>6. Holds'
    BY <1>3 DEF IInv, Holds
  <1>7. QED
    BY <1>3, <1>5, <1>6, PermitsKept DEF IInv

\* What the selection picks is in the queue and can be acquired.
LEMMA PickedRunnable ==
  ASSUME NEW p \in Priority, NEW c, NEW net, NEW a, NEW i \in Picked(p, c, net, a)
  PROVE  i \in DOMAIN queue[p] /\ CanAcquire(Req[queue[p][i]], a)
  <1>1. i \in Runnable(p, c, a)
    BY DEF Picked, Best, First
  <1>2. QED
    BY <1>1 DEF Runnable

\* A popped task holds its permits beside those it does not disturb.
LEMMA PopNextHolds ==
  ASSUME IInv, PopNext
  PROVE  IInv'
  <1>0. PICK a \in {Current} : \E k \in First(CanPop(a)) :
          \E p \in {Source(ClassAt(k), a)} : \E i \in Picked(p, ClassAt(k), Preferred(k), a) :
            Pop(a, k, p, i)
    BY DEF PopNext
  <1>1. PICK k \in First(CanPop(a)) :
          \E p \in {Source(ClassAt(k), a)} : \E i \in Picked(p, ClassAt(k), Preferred(k), a) :
            Pop(a, k, p, i)
    BY <1>0
  <1>2. PICK p \in {Source(ClassAt(k), a)} :
          \E i \in Picked(p, ClassAt(k), Preferred(k), a) : Pop(a, k, p, i)
    BY <1>1
  <1>3. PICK i \in Picked(p, ClassAt(k), Preferred(k), a) : Pop(a, k, p, i)
    BY <1>2
  <1>4. p \in Priority
    BY DEF Source, Priority
  <1>5. i \in DOMAIN queue[p] /\ CanAcquire(Req[queue[p][i]], a)
    BY <1>4, PickedRunnable
  <1>t. PICK t : t = queue[p][i]
    OBVIOUS
  <1>6. /\ queue' = [queue EXCEPT ![p] = RemoveAt(@, i)]
        /\ held' = held \cup {t} /\ round' = <<t>> /\ borrowed' = borrowed
        /\ pass' = "popping" /\ Acquire(Req[t])
    BY <1>3, <1>t DEF Pop, PopNext
  <1>7. t \in Task \ held /\ Waits'
    BY <1>4, <1>5, <1>6, <1>t, Taken
  <1>8. Holds'
    BY <1>6, <1>7 DEF IInv, Holds
  <1>9. HeldRequest(t)' = Req[t] /\ \A u \in held : HeldRequest(u)' = HeldRequest(u)
    BY <1>6, <1>7 DEF HeldRequest, IInv, Holds
  <1>10. Counters' /\ PermitsExact'
    BY <1>6, <1>7, <1>9, Requests, AcquireExact
  <1>11. WorkIsolated'
    BY <1>5, <1>6, <1>7, <1>10, <1>t, Requests, AcquireIsolated
  <1>12. QED
    BY <1>7, <1>8, <1>10, <1>11 DEF IInv

\* A follower takes its permits with the class it borrows.
LEMMA PopFollowerHolds ==
  ASSUME IInv, PopFollower
  PROVE  IInv'
  <1>1. PICK a \in {Current} : \E p \in {BatchSource(a)} : \E i \in First(BatchIndices(p, a)) :
          JoinBatch(a, p, i)
    BY DEF PopFollower
  <1>a. PICK p \in {BatchSource(a)} : \E i \in First(BatchIndices(p, a)) : JoinBatch(a, p, i)
    BY <1>1
  <1>b. PICK i \in First(BatchIndices(p, a)) : JoinBatch(a, p, i)
    BY <1>a
  <1>2. p \in Priority
    BY DEF BatchSource, Priority
  <1>3. i \in DOMAIN queue[p] /\ CanAcquire(AsFollower(Req[queue[p][i]]), a)
    BY DEF First, BatchIndices
  <1>t. PICK t : t = queue[p][i]
    OBVIOUS
  <1>4. /\ queue' = [queue EXCEPT ![p] = RemoveAt(@, i)]
        /\ held' = held \cup {t} /\ round' = Append(round, t) /\ borrowed' = borrowed \cup {t}
        /\ pass' = "popping" /\ Acquire(AsFollower(Req[t]))
    BY <1>b, <1>t DEF JoinBatch, PopFollower, WantsFollower, IInv, Holds
  <1>5. t \in Task \ held /\ Waits'
    BY <1>2, <1>3, <1>4, <1>t, Taken
  <1>6. CanAcquire(AsFollower(Req[t]), a)
    BY <1>3, <1>t
  <1>7. Holds'
    <2>1. round \in Seq(Task) /\ Distinct(round) /\ \A j \in DOMAIN round : round[j] # t
      BY <1>5 DEF IInv, Holds, Distinct
    <2>2. /\ round' \in Seq(Task) /\ Distinct(round')
          /\ \A j \in DOMAIN round' : round'[j] = t \/ \E m \in DOMAIN round : round'[j] = round[m]
      BY <1>4, <1>5, <2>1, AppendShape
    <2>3. \A j \in DOMAIN round' : round'[j] \in held'
      BY <1>4, <2>2 DEF IInv, Holds
    <2>4. QED
      BY <1>4, <1>5, <2>2, <2>3 DEF IInv, Holds, Distinct
  <1>8. HeldRequest(t)' = AsFollower(Req[t]) /\ \A u \in held : HeldRequest(u)' = HeldRequest(u)
    BY <1>4, <1>5 DEF HeldRequest
  <1>9. Counters' /\ PermitsExact'
    BY <1>4, <1>5, <1>8, Requests, AcquireExact
  <1>10. WorkIsolated'
    BY <1>4, <1>5, <1>6, <1>9, Requests, AcquireIsolated
  <1>11. QED
    BY <1>5, <1>7, <1>9, <1>10 DEF IInv

\* A rejected batch goes back to the queue it has left, and gives its permits back.
LEMMA BusyHolds ==
  ASSUME IInv, Busy
  PROVE  IInv'
  <1> DEFINE R == {round[i] : i \in DOMAIN round}
  <1>1. /\ queue' = [queue EXCEPT !["Continuation"] = round \o @]
        /\ held' = held \ R /\ borrowed' = borrowed \ R /\ round' = << >>
        /\ ReleaseAll([t \in R |-> HeldRequest(t)])
    BY DEF Busy, ToSet
  <1>2. R \in SUBSET held
    BY DEF IInv, Holds
  <1>3. /\ queue["Continuation"] \in Seq(Task) /\ Distinct(queue["Continuation"])
        /\ round \in Seq(Task) /\ Distinct(round)
        /\ \A p \in Priority : \A i \in DOMAIN round, j \in DOMAIN queue[p] : round[i] # queue[p][j]
    BY DEF IInv, Waits, Holds, Distinct, Priority
  <1> DEFINE q == round \o queue["Continuation"]
  <1>4. /\ q \in Seq(Task) /\ Distinct(q)
        /\ \A j \in DOMAIN q : \/ q[j] \in R
                              \/ \E m \in DOMAIN queue["Continuation"] : q[j] = queue["Continuation"][m]
    <2>1. \A i \in DOMAIN round, j \in DOMAIN queue["Continuation"] : round[i] # queue["Continuation"][j]
      BY <1>3 DEF Priority
    <2>2. QED
      BY <1>3, <2>1, JoinShape
  <1>5. /\ queue' \in [Priority -> Seq(Task)]
        /\ queue'["Continuation"] = q /\ queue'["Bulk"] = queue["Bulk"]
    BY <1>1, <1>4 DEF IInv, Waits, Priority
  <1>6. \A j \in DOMAIN queue["Bulk"] : queue["Bulk"][j] \notin R
    BY <1>3 DEF Priority
  <1>7. \A t \in R : t \notin held'
    BY <1>1
  <1> HIDE DEF q, R
  <1>8. Waits'
    <2>1. \A p \in Priority : Distinct(queue'[p])
      BY <1>4, <1>5 DEF IInv, Waits, Distinct, Priority
    <2>2. \A i \in DOMAIN queue'["Continuation"], j \in DOMAIN queue'["Bulk"] :
            queue'["Continuation"][i] # queue'["Bulk"][j]
      BY <1>4, <1>5, <1>6 DEF IInv, Waits
    <2>3. \A p \in Priority : \A i \in DOMAIN queue'[p] : queue'[p][i] \notin held'
      BY <1>1, <1>4, <1>5, <1>7 DEF IInv, Waits, Priority
    <2>4. QED
      BY <1>5, <2>1, <2>2, <2>3 DEF Waits, Distinct
  <1>9. Holds'
    BY <1>1 DEF IInv, Holds
  <1>10. Counters' /\ PermitsExact'
    BY <1>1, <1>2, ReleaseExact
  <1>11. WorkIsolated'
    BY <1>1, FewerIsolated DEF IInv
  <1>12. QED
    BY <1>8, <1>9, <1>10, <1>11 DEF IInv

\* A finished task gives back what it took, a follower what it borrowed.
LEMMA ReleaseHolds ==
  ASSUME IInv, NEW t \in Task, NEW kept \in BOOLEAN, Release(t, kept)
  PROVE  IInv'
  <1>1. /\ held' = held \ {t} /\ borrowed' = borrowed \ {t} /\ {t} \in SUBSET held
        /\ ReleaseAll([x \in {t} |-> HeldRequest(x)])
        /\ UNCHANGED <<queue, round, pass>> /\ round = << >>
    BY DEF Release, passVars, IInv, Holds
  <1>2. Waits'
    BY <1>1 DEF IInv, Waits
  <1>3. Holds'
    BY <1>1 DEF IInv, Holds
  <1>4. Counters' /\ PermitsExact'
    BY <1>1, ReleaseExact
  <1>5. WorkIsolated'
    BY <1>1, FewerIsolated DEF IInv
  <1>6. QED
    BY <1>2, <1>3, <1>4, <1>5 DEF IInv

LEMMA NextHolds ==
  ASSUME IInv, [Next]_vars
  PROVE  IInv'
  <1>1. CASE \E t \in Task : Push(t)
    BY <1>1, PushHolds
  <1>2. CASE PopNext
    BY <1>2, PopNextHolds
  <1>3. CASE PopFollower
    BY <1>3, PopFollowerHolds
  <1>4. CASE Busy
    BY <1>4, BusyHolds
  <1>5. CASE \E t \in Task, kept \in BOOLEAN : Release(t, kept)
    BY <1>5, ReleaseHolds
  <1>6. CASE BeginPass
    BY <1>6, Unchanged DEF BeginPass, queueVars, IInv, Holds
  <1>7. CASE Submit
    BY <1>7, Unchanged DEF Submit
  <1>8. CASE EndPass
    BY <1>8, Unchanged DEF EndPass, queueVars
  <1>9. CASE \E t \in Task : Allocate(t)
    BY <1>9, Unchanged DEF Allocate, queueVars, passVars
  <1>10. CASE Tick
    BY <1>10, Unchanged DEF Tick, passVars
  <1>11. CASE Over \/ UNCHANGED vars
    BY <1>11, Unchanged DEF Over, vars, queueVars, passVars
  <1>12. QED
    BY <1>1, <1>2, <1>3, <1>4, <1>5, <1>6, <1>7, <1>8, <1>9, <1>10, <1>11 DEF Next

-----------------------------------------------------------------------------
(* The storage reservations and the admission cache. *)

CacheRecord ==
  [counts : [Priority -> [runs : [RunClass -> Nat], nets : [Network -> Nat], depth : [Volume -> Nat]]],
   commits : Nat, waiting : SUBSET Task, writers : [Volume -> Nat], free : [Volume -> Int],
   pending : BOOLEAN]

\* The counts of the snapshot a are those of the queue.
Counted(a) ==
  /\ \A p \in Priority : a.counts[p] = QueueCounts(p)
  /\ a.commits = Cardinality({t \in Queued : Req[t].commit})

\* It knows the writers that have waited, and whether one may come to have waited.
Watched(a) ==
  /\ WaitingWriters \subseteq a.waiting /\ a.waiting \subseteq Queued
  /\ \A v \in Volume : a.writers[v] = Cardinality({t \in a.waiting : v \in Req[t].vol["write"]})
  /\ ~a.pending => \A t \in Queued : Eligible(t) => age[t] >= 1

\* It knows the free space of every volume where that decides, and what it knows has been
\* taken since by tasks at work only.
Probed(a) ==
  \A v \in Volume \ Unprobed :
    /\ a.free[v] # -1 => a.free[v] <= free[v] + Bytes(Req, allocated, v)
    /\ reserved[v] > 0 /\ (\E t \in Queued : Req[t].store[v] > 0) => a.free[v] # -1

Snapshot(a) == a \in CacheRecord /\ Counted(a) /\ Watched(a) /\ Probed(a)

Disk ==
  /\ free \in [Volume -> Nat]
  /\ allocated \subseteq held
  /\ \A i \in DOMAIN round : round[i] \notin allocated

CInv ==
  /\ age \in [Task -> 0 .. 2]
  /\ reserved \in [Volume -> Nat]
  /\ StorageExact
  /\ Disk
  /\ NoOvercommit
  /\ cache # NoCache => Snapshot(cache)

LEMMA StreamingFinite == IsFiniteSet(Streaming)
  <1>1. Streaming = ({"read"} \cup {"write"}) \cup {"metadata"}
    BY DEF Streaming
  <1>2. QED
    BY <1>1, FS_Singleton, FS_AddElement

\* Without one of some elements, those are counted once less.
LEMMA CountWithout ==
  ASSUME NEW S \in SUBSET Task, NEW t \in S, NEW X
  PROVE  Cardinality({u \in S \ {t} : u \in X})
           = Minus(Cardinality({u \in S : u \in X}), One(t \in X))
  <1>1. Cardinality({u \in {t} : u \in X}) = One(t \in X)
    <2>1. CASE t \in X
      <3>1. {u \in {t} : u \in X} = {t}
        BY <2>1
      <3>2. QED
        BY <2>1, <3>1, FS_Singleton DEF One
    <2>2. CASE t \notin X
      <3>1. {u \in {t} : u \in X} = {}
        BY <2>2
      <3>2. QED
        BY <2>2, <3>1, FS_EmptySet DEF One
    <2>3. QED
      BY <2>1, <2>2
  <1> DEFINE R == {t}
  <1>2. R \in SUBSET S
    OBVIOUS
  <1> HIDE DEF R
  <1>3. Cardinality({u \in S \ R : u \in X})
          = Minus(Cardinality({u \in S : u \in X}), Cardinality({u \in R : u \in X}))
    BY <1>2, CountRemove
  <1>4. QED
    BY <1>1, <1>3 DEF R

\* The positions of a queue count its tasks.
LEMMA CountPositions ==
  ASSUME NEW q \in Seq(Task), Distinct(q), NEW X
  PROVE  Cardinality({i \in DOMAIN q : q[i] \in X}) = Cardinality({t \in ToSet(q) : t \in X})
  <1> DEFINE I == {i \in DOMAIN q : q[i] \in X}
             T == {t \in ToSet(q) : t \in X}
             f == [i \in I |-> q[i]]
  <1>1. IsFiniteSet(I)
    <2>1. DOMAIN q = 1 .. Len(q) /\ Len(q) \in Nat
      OBVIOUS
    <2>2. IsFiniteSet(DOMAIN q)
      BY <2>1, FS_Interval
    <2>3. QED
      BY <2>2, FS_Subset
  <1>2. f \in Bijection(I, T)
    <2>1. f \in [I -> T]
      BY DEF ToSet
    <2>2. \A i, j \in I : f[i] = f[j] => i = j
      BY DEF Distinct
    <2>3. \A t \in T : \E i \in I : f[i] = t
      BY DEF ToSet
    <2> HIDE DEF f, I, T
    <2>4. QED
      BY <2>1, <2>2, <2>3 DEF Bijection, Injection, Surjection, IsInjective
  <1>3. ExistsBijection(I, T)
    BY <1>2 DEF ExistsBijection
  <1>4. QED
    BY <1>1, <1>3, FS_Bijection

\* So do the positions of what its tasks stream.
LEMMA CountStreams ==
  ASSUME NEW q \in Seq(Task), Distinct(q), NEW X
  PROVE  Cardinality({x \in (DOMAIN q) \X Streaming : <<q[x[1]], x[2]>> \in X})
           = Cardinality({y \in ToSet(q) \X Streaming : y \in X})
  <1> DEFINE I == {x \in (DOMAIN q) \X Streaming : <<q[x[1]], x[2]>> \in X}
             T == {y \in ToSet(q) \X Streaming : y \in X}
             f == [x \in I |-> <<q[x[1]], x[2]>>]
  <1>1. IsFiniteSet(I)
    <2>1. DOMAIN q = 1 .. Len(q) /\ Len(q) \in Nat
      OBVIOUS
    <2>2. IsFiniteSet(DOMAIN q) /\ IsFiniteSet(Streaming)
      BY <2>1, FS_Interval, StreamingFinite
    <2>3. IsFiniteSet((DOMAIN q) \X Streaming)
      BY <2>2, FS_Product
    <2>4. I \in SUBSET ((DOMAIN q) \X Streaming)
      OBVIOUS
    <2>5. QED
      BY <2>3, <2>4, FS_Subset
  <1>2. f \in Bijection(I, T)
    <2>1. f \in [I -> T]
      BY DEF ToSet
    <2>2. \A x, y \in I : f[x] = f[y] => x = y
      BY DEF Distinct
    <2>3. \A y \in T : \E x \in I : f[x] = y
      <3>1. ASSUME NEW y \in T PROVE \E x \in I : f[x] = y
        <4>1. y \in ToSet(q) \X Streaming /\ y \in X
          OBVIOUS
        <4>2. PICK i \in DOMAIN q : q[i] = y[1]
          BY <4>1 DEF ToSet
        <4>3. y = <<y[1], y[2]>> /\ y[2] \in Streaming
          BY <4>1
        <4>4. <<i, y[2]>> \in I
          BY <4>1, <4>2, <4>3
        <4>5. f[<<i, y[2]>>] = y
          BY <4>2, <4>3, <4>4
        <4>6. QED
          BY <4>4, <4>5
      <3>2. QED
        BY <3>1
    <2> HIDE DEF f, I, T
    <2>4. QED
      BY <2>1, <2>2, <2>3 DEF Bijection, Injection, Surjection, IsInjective
  <1>3. ExistsBijection(I, T)
    BY <1>2 DEF ExistsBijection
  <1>4. QED
    BY <1>1, <1>3, FS_Bijection

\* The counts of a queue, over its tasks.
Tally(S) ==
  [runs  |-> [c \in RunClass |-> Cardinality({t \in S : Req[t].run = c})],
   nets  |-> [n \in Network |-> Cardinality({t \in S : Req[t].network = n})],
   depth |-> [v \in Volume |-> Cardinality({y \in S \X Streaming : v \in Req[y[1]].vol[y[2]]})]]

LEMMA TallyOf ==
  ASSUME NEW q \in Seq(Task), Distinct(q)
  PROVE  Tally(ToSet(q)) =
    [runs  |-> [c \in RunClass |-> Cardinality({i \in DOMAIN q : Req[q[i]].run = c})],
     nets  |-> [n \in Network |-> Cardinality({i \in DOMAIN q : Req[q[i]].network = n})],
     depth |-> [v \in Volume |->
                  Cardinality({x \in (DOMAIN q) \X Streaming : v \in Req[q[x[1]]].vol[x[2]]})]]
  <1>1. ToSet(q) \subseteq Task /\ \A i \in DOMAIN q : q[i] \in Task
    BY DEF ToSet
  <1>2. ASSUME NEW c \in RunClass
        PROVE  Cardinality({i \in DOMAIN q : Req[q[i]].run = c})
                 = Cardinality({t \in ToSet(q) : Req[t].run = c})
    <2> DEFINE X == {t \in Task : Req[t].run = c}
    <2>1. /\ {i \in DOMAIN q : Req[q[i]].run = c} = {i \in DOMAIN q : q[i] \in X}
          /\ {t \in ToSet(q) : Req[t].run = c} = {t \in ToSet(q) : t \in X}
      BY <1>1
    <2> HIDE DEF X
    <2>2. QED
      BY <1>1, <2>1, CountPositions, ZenonT(40)
  <1>3. ASSUME NEW n \in Network
        PROVE  Cardinality({i \in DOMAIN q : Req[q[i]].network = n})
                 = Cardinality({t \in ToSet(q) : Req[t].network = n})
    <2> DEFINE X == {t \in Task : Req[t].network = n}
    <2>1. /\ {i \in DOMAIN q : Req[q[i]].network = n} = {i \in DOMAIN q : q[i] \in X}
          /\ {t \in ToSet(q) : Req[t].network = n} = {t \in ToSet(q) : t \in X}
      BY <1>1
    <2> HIDE DEF X
    <2>2. QED
      BY <1>1, <2>1, CountPositions, ZenonT(40)
  <1>4. ASSUME NEW v \in Volume
        PROVE  Cardinality({x \in (DOMAIN q) \X Streaming : v \in Req[q[x[1]]].vol[x[2]]})
                 = Cardinality({y \in ToSet(q) \X Streaming : v \in Req[y[1]].vol[y[2]]})
    <2> DEFINE X == {y \in Task \X Streaming : v \in Req[y[1]].vol[y[2]]}
    <2>1. {x \in (DOMAIN q) \X Streaming : v \in Req[q[x[1]]].vol[x[2]]}
            = {x \in (DOMAIN q) \X Streaming : <<q[x[1]], x[2]>> \in X}
      <3>1. \A x \in (DOMAIN q) \X Streaming :
              v \in Req[q[x[1]]].vol[x[2]] <=> <<q[x[1]], x[2]>> \in X
        BY <1>1
      <3> HIDE DEF X
      <3>2. QED
        BY <3>1
    <2>2. {y \in ToSet(q) \X Streaming : v \in Req[y[1]].vol[y[2]]}
            = {y \in ToSet(q) \X Streaming : y \in X}
      BY <1>1
    <2> HIDE DEF X
    <2>3. Cardinality({x \in (DOMAIN q) \X Streaming : <<q[x[1]], x[2]>> \in X})
            = Cardinality({y \in ToSet(q) \X Streaming : y \in X})
      BY CountStreams
    <2>4. QED
      BY <2>1, <2>2, <2>3
  <1>5. QED
    BY <1>2, <1>3, <1>4 DEF Tally

\* Its counts are numbers.
LEMMA TallyType ==
  ASSUME NEW S \in SUBSET Task
  PROVE  Tally(S) \in [runs : [RunClass -> Nat], nets : [Network -> Nat], depth : [Volume -> Nat]]
  <1>1. IsFiniteSet(S) /\ IsFiniteSet(S \X Streaming)
    BY RequestAssumption, FS_Subset, FS_Product, StreamingFinite
  <1>2. \A c : Cardinality({t \in S : Req[t].run = c}) \in Nat
    BY <1>1, FS_Subset, FS_CardinalityType
  <1>3. \A n : Cardinality({t \in S : Req[t].network = n}) \in Nat
    BY <1>1, FS_Subset, FS_CardinalityType
  <1>4. \A v : Cardinality({y \in S \X Streaming : v \in Req[y[1]].vol[y[2]]}) \in Nat
    BY <1>1, FS_Subset, FS_CardinalityType
  <1>5. QED
    BY <1>2, <1>3, <1>4 DEF Tally

\* QueueAdmission::remove counts what is left.
LEMMA TallyWithout ==
  ASSUME NEW S \in SUBSET Task, NEW t \in S
  PROVE  Tally(S \ {t}) = Uncounted(Tally(S), Req[t])
  <1>1. /\ Req[t].run \in RunClass
        /\ \A u \in Task : Req[u].vol \in [Kind -> SUBSET Volume]
    BY RequestAssumption DEF Request
  <1>2. ASSUME NEW c \in RunClass
        PROVE  Cardinality({u \in S \ {t} : Req[u].run = c})
                 = Minus(Cardinality({u \in S : Req[u].run = c}), One(Req[t].run = c))
    <2> DEFINE X == {u \in Task : Req[u].run = c}
    <2>1. /\ {u \in S \ {t} : Req[u].run = c} = {u \in S \ {t} : u \in X}
          /\ {u \in S : Req[u].run = c} = {u \in S : u \in X}
          /\ One(Req[t].run = c) = One(t \in X)
      BY DEF One
    <2> HIDE DEF X
    <2>2. QED
      BY <2>1, CountWithout
  <1>3. ASSUME NEW n \in Network
        PROVE  Cardinality({u \in S \ {t} : Req[u].network = n})
                 = Minus(Cardinality({u \in S : Req[u].network = n}), One(Req[t].network = n))
    <2> DEFINE X == {u \in Task : Req[u].network = n}
    <2>1. /\ {u \in S \ {t} : Req[u].network = n} = {u \in S \ {t} : u \in X}
          /\ {u \in S : Req[u].network = n} = {u \in S : u \in X}
          /\ One(Req[t].network = n) = One(t \in X)
      BY DEF One
    <2> HIDE DEF X
    <2>2. QED
      BY <2>1, CountWithout
  <1>4. ASSUME NEW v \in Volume
        PROVE  Cardinality({y \in (S \ {t}) \X Streaming : v \in Req[y[1]].vol[y[2]]})
                 = Minus(Cardinality({y \in S \X Streaming : v \in Req[y[1]].vol[y[2]]}),
                         Cardinality({k \in Streaming : v \in Req[t].vol[k]}))
    <2> DEFINE A == {y \in S \X Streaming : v \in Req[y[1]].vol[y[2]]}
               B == {y \in (S \ {t}) \X Streaming : v \in Req[y[1]].vol[y[2]]}
               K == {k \in Streaming : v \in Req[t].vol[k]}
               C == {y \in {t} \X Streaming : v \in Req[y[1]].vol[y[2]]}
               f == [k \in K |-> <<t, k>>]
    <2>1. A = B \cup C /\ B \cap C = {}
      OBVIOUS
    <2>2. IsFiniteSet(A) /\ IsFiniteSet(B) /\ IsFiniteSet(C) /\ IsFiniteSet(K)
      <3>1. IsFiniteSet(S \X Streaming) /\ IsFiniteSet(Streaming)
        BY RequestAssumption, FS_Subset, FS_Product, StreamingFinite
      <3>2. A \subseteq S \X Streaming /\ B \subseteq S \X Streaming /\ C \subseteq S \X Streaming
            /\ K \subseteq Streaming
        OBVIOUS
      <3>3. QED
        BY <3>1, <3>2, FS_Subset
    <2>3. Cardinality(C) = Cardinality(K)
      <3>1. f \in [K -> C]
        OBVIOUS
      <3>2. \A j, k \in K : f[j] = f[k] => j = k
        OBVIOUS
      <3>3. \A y \in C : \E k \in K : f[k] = y
        <4>1. ASSUME NEW y \in C PROVE \E k \in K : f[k] = y
          <5>1. y = <<t, y[2]>> /\ y[2] \in K
            OBVIOUS
          <5>2. QED
            BY <5>1
        <4>2. QED
          BY <4>1
      <3> HIDE DEF f, C, K
      <3>4. ExistsBijection(K, C)
        BY <3>1, <3>2, <3>3 DEF ExistsBijection, Bijection, Injection, Surjection, IsInjective
      <3>5. QED
        BY <2>2, <3>4, FS_Bijection
    <2> HIDE DEF A, B, C, K
    <2>4. Cardinality(A) = Cardinality(B) + Cardinality(C)
      <3>1. Cardinality(B \cup C) = Cardinality(B) + Cardinality(C) - Cardinality(B \cap C)
        BY <2>2, FS_Union
      <3>2. Cardinality(B \cap C) = 0
        BY <2>1, FS_EmptySet
      <3>3. Cardinality(B) \in Nat /\ Cardinality(C) \in Nat
        BY <2>2, FS_CardinalityType
      <3>4. QED
        BY <2>1, <3>1, <3>2, <3>3
    <2>5. Cardinality(B) \in Nat /\ Cardinality(C) \in Nat
      BY <2>2, FS_CardinalityType
    <2>6. Cardinality(B) = Minus(Cardinality(A), Cardinality(K))
      BY <2>3, <2>4, <2>5 DEF Minus
    <2>7. QED
      BY <2>6 DEF A, B, K
  <1>5. Uncounted(Tally(S), Req[t]) =
          [runs  |-> [c \in RunClass |->
                        Minus(Cardinality({u \in S : Req[u].run = c}), One(Req[t].run = c))],
           nets  |-> [n \in Network |->
                        Minus(Cardinality({u \in S : Req[u].network = n}), One(Req[t].network = n))],
           depth |-> [v \in Volume |->
                        Minus(Cardinality({y \in S \X Streaming : v \in Req[y[1]].vol[y[2]]}),
                              Cardinality({k \in Streaming : v \in Req[t].vol[k]}))]]
    <2> DEFINE m == Tally(S)
    <2>1. /\ m \in [runs : [RunClass -> Nat], nets : [Network -> Nat], depth : [Volume -> Nat]]
      BY TallyType
    <2>2. [m.runs EXCEPT ![Req[t].run] = Minus(@, 1)]
            = [c \in RunClass |-> Minus(m.runs[c], One(Req[t].run = c))]
      <3> HIDE DEF m
      <3>1. \A c \in RunClass : Req[t].run # c => Minus(m.runs[c], One(Req[t].run = c)) = m.runs[c]
        BY <2>1 DEF Minus, One
      <3>2. QED
        BY <1>1, <2>1, <3>1 DEF One
    <2>3. /\ \A c \in RunClass : m.runs[c] = Cardinality({u \in S : Req[u].run = c})
          /\ \A n \in Network : m.nets[n] = Cardinality({u \in S : Req[u].network = n})
          /\ \A v \in Volume : m.depth[v]
               = Cardinality({y \in S \X Streaming : v \in Req[y[1]].vol[y[2]]})
      BY DEF Tally
    <2> HIDE DEF m
    <2>4. QED
      BY <2>2, <2>3 DEF Uncounted, m
  <1>6. QED
    BY <1>2, <1>3, <1>4, <1>5, ZenonT(40) DEF Tally

\* The tasks of the queues.
LEMMA QueuedTasks ==
  ASSUME IInv
  PROVE  /\ \A p \in Priority : /\ queue[p] \in Seq(Task) /\ Distinct(queue[p])
                                /\ ToSet(queue[p]) \in SUBSET Task
                                /\ QueueCounts(p) = Tally(ToSet(queue[p]))
         /\ Queued \in SUBSET Task /\ Queued \cap held = {}
         /\ ToSet(queue["Continuation"]) \cap ToSet(queue["Bulk"]) = {}
  <1>1. ASSUME NEW p \in Priority
        PROVE  /\ queue[p] \in Seq(Task) /\ Distinct(queue[p])
               /\ ToSet(queue[p]) \in SUBSET Task
               /\ QueueCounts(p) = Tally(ToSet(queue[p]))
    <2>1. queue[p] \in Seq(Task) /\ Distinct(queue[p])
      BY DEF IInv, Waits, Distinct
    <2>2. QED
      BY <2>1, TallyOf DEF QueueCounts, ToSet
  <1>2. \A p \in Priority : ToSet(queue[p]) \cap held = {}
    BY DEF IInv, Waits, ToSet
  <1>3. ToSet(queue["Continuation"]) \cap ToSet(queue["Bulk"]) = {}
    BY DEF IInv, Waits, ToSet
  <1>4. QED
    BY <1>1, <1>2, <1>3 DEF Queued, Priority

\* ensure_admission_cache computes a snapshot.
LEMMA RebuiltSnapshot ==
  ASSUME IInv, CInv
  PROVE  Snapshot(Rebuilt)
  <1>1. /\ Rebuilt.counts = [p \in Priority |-> QueueCounts(p)]
        /\ Rebuilt.commits = Cardinality({t \in Queued : Req[t].commit})
        /\ Rebuilt.waiting = WaitingWriters
        /\ Rebuilt.writers = [v \in Volume |->
                                Cardinality({t \in WaitingWriters : v \in Req[t].vol["write"]})]
        /\ Rebuilt.free = [v \in Volume |-> IF reserved[v] > 0 /\ \E t \in Queued : Req[t].store[v] > 0
                                            THEN Probe(v) ELSE -1]
        /\ Rebuilt.pending = (\E t \in Queued : Eligible(t) /\ age[t] = 0)
        /\ Rebuilt = [counts |-> Rebuilt.counts, commits |-> Rebuilt.commits,
                      waiting |-> Rebuilt.waiting, writers |-> Rebuilt.writers,
                      free |-> Rebuilt.free, pending |-> Rebuilt.pending]
    BY DEF Rebuilt
  <1>2. Queued \in SUBSET Task /\ WaitingWriters \in SUBSET Queued
    BY QueuedTasks DEF WaitingWriters
  <1>3. \A S \in SUBSET Task : IsFiniteSet(S) /\ Cardinality(S) \in Nat
    BY RequestAssumption, FS_Subset, FS_CardinalityType
  <1>4. Rebuilt \in CacheRecord
    <2>1. Rebuilt.counts \in
            [Priority -> [runs : [RunClass -> Nat], nets : [Network -> Nat], depth : [Volume -> Nat]]]
      BY <1>1, QueuedTasks, TallyType
    <2>2. Rebuilt.commits \in Nat
      <3>1. {t \in Queued : Req[t].commit} \in SUBSET Task
        BY <1>2
      <3>2. QED
        BY <1>1, <1>3, <3>1
    <2>3. Rebuilt.writers \in [Volume -> Nat]
      <3>1. \A v \in Volume : {t \in WaitingWriters : v \in Req[t].vol["write"]} \in SUBSET Task
        BY <1>2
      <3>2. QED
        BY <1>1, <1>3, <3>1
    <2>4. Rebuilt.free \in [Volume -> Int]
      BY <1>1 DEF CInv, Disk, Probe
    <2>5. Rebuilt.pending \in BOOLEAN /\ Rebuilt.waiting \in SUBSET Task
      BY <1>1, <1>2
    <2>6. QED
      BY <1>1, <2>1, <2>2, <2>3, <2>4, <2>5 DEF CacheRecord
  <1>5. Counted(Rebuilt)
    BY <1>1 DEF Counted
  <1>6. Watched(Rebuilt)
    <2>1. ~Rebuilt.pending => \A t \in Queued : Eligible(t) => age[t] >= 1
      <3>1. \A t \in Queued : age[t] \in 0 .. 2
        BY <1>2 DEF CInv
      <3>2. QED
        BY <1>1, <3>1
    <2>2. QED
      BY <1>1, <1>2, <2>1 DEF Watched
  <1>7. Probed(Rebuilt)
    <2>1. ASSUME NEW v \in Volume \ Unprobed
          PROVE  /\ Rebuilt.free[v] # -1 => Rebuilt.free[v] <= free[v] + Bytes(Req, allocated, v)
                 /\ reserved[v] > 0 /\ (\E t \in Queued : Req[t].store[v] > 0)
                      => Rebuilt.free[v] # -1
      <3>1. free[v] \in Nat /\ Probe(v) = free[v]
        BY DEF CInv, Disk, Probe
      <3>2. Bytes(Req, allocated, v) \in Nat
        BY Stores DEF CInv, Disk, IInv, Holds
      <3>3. Rebuilt.free[v] = IF reserved[v] > 0 /\ \E t \in Queued : Req[t].store[v] > 0
                              THEN free[v] ELSE -1
        BY <1>1, <3>1
      <3>4. QED
        BY <3>1, <3>2, <3>3
    <2>2. QED
      BY <2>1 DEF Probed
  <1>8. QED
    BY <1>4, <1>5, <1>6, <1>7 DEF Snapshot

LEMMA CurrentSnapshot ==
  ASSUME IInv, CInv
  PROVE  Snapshot(Current)
  BY RebuiltSnapshot DEF Current, CInv

\* Permits that grow make no task eligible.
LEMMA EligibleBefore ==
  ASSUME IInv, NEW u \in Task, NEW r \in Request, Acquire(r), Eligible(u)'
  PROVE  Eligible(u)
  <1>1. \A s \in Slot : slots[s] \in Nat /\ slots'[s] \in Nat /\ slots'[s] >= slots[s]
    BY DEF Acquire, IInv, Counters, One
  <1>2. {"cpu", "blocking", "extract"} \subseteq Slot
    BY DEF Slot
  <1>3. MutationConflict(Req[u]) => MutationConflict(Req[u])'
    BY DEF MutationConflict, Acquire
  <1>4. SlotLimit["cpu"] \in Nat /\ SlotLimit["blocking"] \in Nat /\ SlotLimit["extract"] \in Nat
    BY <1>2, ConfigAssumption
  <1>5. ASSUME NEW s \in {"cpu", "blocking", "extract"}, slots[s] >= SlotLimit[s]
        PROVE  slots'[s] >= SlotLimit[s]
    <2>1. slots[s] \in Nat /\ slots'[s] \in Nat /\ slots'[s] >= slots[s] /\ SlotLimit[s] \in Nat
      BY <1>1, <1>2, <1>4
    <2>2. QED
      BY <1>5, <2>1
  <1>6. QED
    BY <1>3, <1>5 DEF Eligible

\* AdmissionCache::remove_task keeps a snapshot one, while the task takes its permits.
LEMMA WithoutSnapshot ==
  ASSUME IInv, CInv, IInv', NEW a, Snapshot(a), NEW p \in Priority, NEW i \in DOMAIN queue[p],
         NEW t \in Task, t = queue[p][i],
         queue' = [queue EXCEPT ![p] = RemoveAt(@, i)],
         NEW r \in Request, r.store = Req[t].store, Acquire(r),
         cache' = Without(a, p, t), UNCHANGED <<age, diskVars>>
  PROVE  Snapshot(cache)'
  <1>1. a \in CacheRecord
    BY DEF Snapshot
  <1>2. /\ cache'.counts = [a.counts EXCEPT ![p] = Uncounted(@, Req[t])]
        /\ cache'.commits = Minus(a.commits, One(Req[t].commit))
        /\ cache'.waiting = a.waiting \ {t}
        /\ cache'.writers = [v \in Volume |->
             Minus(a.writers[v], One(t \in a.waiting /\ v \in Req[t].vol["write"]))]
        /\ cache'.free = [v \in Volume |->
             IF Req[t].store[v] > 0 /\ a.free[v] = -1 THEN Probe(v) ELSE a.free[v]]
        /\ cache'.pending = a.pending
        /\ cache' = [counts |-> cache'.counts, commits |-> cache'.commits,
                     waiting |-> cache'.waiting, writers |-> cache'.writers,
                     free |-> cache'.free, pending |-> cache'.pending]
    BY <1>1 DEF CacheRecord, Without
  <1>3. /\ queue[p] \in Seq(Task) /\ Distinct(queue[p]) /\ ToSet(queue[p]) \in SUBSET Task
        /\ t \in ToSet(queue[p])
        /\ QueueCounts(p) = Tally(ToSet(queue[p]))
        /\ Queued \in SUBSET Task
    BY QueuedTasks DEF ToSet
  <1>4. /\ queue'[p] = RemoveAt(queue[p], i) /\ queue'[p] \in Seq(Task) /\ Distinct(queue'[p])
        /\ ToSet(queue'[p]) = ToSet(queue[p]) \ {t}
        /\ \A x \in Priority \ {p} : queue'[x] = queue[x]
    <2>1. queue \in [Priority -> Seq(Task)]
      BY DEF IInv, Waits
    <2>2. queue'[p] = RemoveAt(queue[p], i) /\ \A x \in Priority \ {p} : queue'[x] = queue[x]
      BY <2>1
    <2>3. QED
      BY <1>3, <2>2, RemoveShape
  <1>5. Queued' = Queued \ {t} /\ t \in Queued
    <2>1. \A x \in Priority \ {p} : t \notin ToSet(queue[x])
      BY <1>3, QueuedTasks DEF Priority
    <2>2. \A x \in Priority : ToSet(queue'[x]) = ToSet(queue[x]) \ {t}
      BY <1>4, <2>1
    <2>3. QED
      BY <1>3, <2>2 DEF Queued, Priority
  <1>6. Counted(cache)'
    <2>1. QueueCounts(p)' = Uncounted(QueueCounts(p), Req[t])
      <3>1. QueueCounts(p)' = Tally(ToSet(queue'[p]))
        BY <1>4, TallyOf DEF QueueCounts
      <3>2. QED
        BY <1>3, <1>4, <3>1, TallyWithout
    <2>2. \A x \in Priority \ {p} : QueueCounts(x)' = QueueCounts(x)
      BY <1>4 DEF QueueCounts
    <2>3. a.counts \in [Priority -> [runs : [RunClass -> Nat], nets : [Network -> Nat],
                                    depth : [Volume -> Nat]]]
          /\ \A x \in Priority : a.counts[x] = QueueCounts(x)
      BY <1>1 DEF CacheRecord, Snapshot, Counted
    <2>4. \A x \in Priority : cache'.counts[x] = QueueCounts(x)'
      BY <1>2, <2>1, <2>2, <2>3
    <2>5. cache'.commits = Cardinality({u \in Queued' : Req[u].commit})
      <3> DEFINE X == {u \in Task : Req[u].commit}
      <3>1. /\ {u \in Queued' : Req[u].commit} = {u \in Queued \ {t} : u \in X}
            /\ {u \in Queued : Req[u].commit} = {u \in Queued : u \in X}
            /\ One(Req[t].commit) = One(t \in X)
        BY <1>3, <1>5 DEF One
      <3>2. a.commits = Cardinality({u \in Queued : Req[u].commit})
        BY DEF Snapshot, Counted
      <3> HIDE DEF X
      <3>3. Cardinality({u \in Queued \ {t} : u \in X})
              = Minus(Cardinality({u \in Queued : u \in X}), One(t \in X))
        BY <1>3, <1>5, CountWithout
      <3>4. QED
        BY <1>2, <3>1, <3>2, <3>3
    <2>6. QED
      BY <2>4, <2>5 DEF Counted
  <1>7. Watched(cache)'
    <2>1. \A u \in Task : Eligible(u)' => Eligible(u)
      BY EligibleBefore
    <2>2. WaitingWriters' \subseteq cache'.waiting /\ cache'.waiting \subseteq Queued'
      BY <1>2, <1>3, <1>5, <2>1 DEF Snapshot, Watched, WaitingWriters
    <2>3. ASSUME NEW v \in Volume
          PROVE  cache'.writers[v] = Cardinality({u \in cache'.waiting : v \in Req[u].vol["write"]})
      <3> DEFINE X == {u \in Task : v \in Req[u].vol["write"]}
                 W == a.waiting
      <3>1. W \in SUBSET Task /\ a.writers[v] = Cardinality({u \in W : v \in Req[u].vol["write"]})
        BY <1>1 DEF CacheRecord, Snapshot, Watched
      <3>2. {u \in W : v \in Req[u].vol["write"]} = {u \in W : u \in X}
        BY <3>1
      <3>3. {u \in cache'.waiting : v \in Req[u].vol["write"]} = {u \in W \ {t} : u \in X}
        BY <1>2, <3>1
      <3>4. cache'.writers[v] = Minus(a.writers[v], One(t \in W /\ t \in X))
        <4>1. (t \in W /\ v \in Req[t].vol["write"]) <=> (t \in W /\ t \in X)
          OBVIOUS
        <4>2. One(t \in W /\ v \in Req[t].vol["write"]) = One(t \in W /\ t \in X)
          BY <4>1 DEF One
        <4>3. cache'.writers[v] = Minus(a.writers[v], One(t \in W /\ v \in Req[t].vol["write"]))
          BY <1>2
        <4>4. QED
          BY <4>2, <4>3
      <3> HIDE DEF X, W
      <3>5. CASE t \in W
        <4>1. Cardinality({u \in W \ {t} : u \in X})
                = Minus(Cardinality({u \in W : u \in X}), One(t \in X))
          BY <3>1, <3>5, CountWithout
        <4>2. One(t \in W /\ t \in X) = One(t \in X)
          BY <3>5 DEF One
        <4>3. QED
          BY <3>1, <3>2, <3>3, <3>4, <4>1, <4>2
      <3>6. CASE t \notin W
        <4>1. W \ {t} = W
          BY <3>6
        <4>2. cache'.writers[v] = Minus(a.writers[v], 0)
          BY <3>4, <3>6 DEF One
        <4>3. IsFiniteSet({u \in W : u \in X})
          BY <3>1, RequestAssumption, FS_Subset
        <4>4. Cardinality({u \in W : u \in X}) \in Nat
          BY <4>3, FS_CardinalityType
        <4>5. a.writers[v] = Cardinality({u \in W : u \in X})
          BY <3>1, <3>2
        <4>6. Minus(a.writers[v], 0) = a.writers[v]
          BY <4>4, <4>5 DEF Minus
        <4>7. QED
          BY <3>3, <4>1, <4>2, <4>5, <4>6
      <3>7. QED
        BY <3>5, <3>6
    <2>4. ~cache'.pending => \A u \in Queued' : Eligible(u)' => age'[u] >= 1
      BY <1>2, <1>3, <1>5, <2>1 DEF Snapshot, Watched
    <2>5. QED
      BY <2>2, <2>3, <2>4 DEF Watched
  <1>8. Probed(cache)'
    <2>1. ASSUME NEW v \in Volume \ Unprobed
          PROVE  /\ cache'.free[v] # -1 => cache'.free[v] <= free'[v] + Bytes(Req, allocated', v)
                 /\ reserved'[v] > 0 /\ (\E u \in Queued' : Req[u].store[v] > 0) => cache'.free[v] # -1
      <3>1. free'[v] = free[v] /\ free[v] \in Nat /\ Probe(v) = free[v] /\ allocated' = allocated
        BY DEF CInv, Disk, Probe, diskVars
      <3>2. Bytes(Req, allocated, v) \in Nat
        BY Stores DEF CInv, Disk, IInv, Holds
      <3>3. cache'.free[v] = IF Req[t].store[v] > 0 /\ a.free[v] = -1 THEN free[v] ELSE a.free[v]
        BY <1>2, <3>1
      <3>4. reserved'[v] = reserved[v] + Req[t].store[v] /\ reserved[v] \in Nat /\ Req[t].store[v] \in Nat
        BY RequestAssumption DEF Acquire, CInv, Request
      <3>5. /\ a.free[v] # -1 => a.free[v] <= free[v] + Bytes(Req, allocated, v)
            /\ reserved[v] > 0 /\ (\E u \in Queued : Req[u].store[v] > 0) => a.free[v] # -1
        BY DEF Snapshot, Probed
      <3>6. cache'.free[v] # -1 => cache'.free[v] <= free'[v] + Bytes(Req, allocated', v)
        BY <3>1, <3>2, <3>3, <3>5
      <3>7. ASSUME reserved'[v] > 0, \E u \in Queued' : Req[u].store[v] > 0, cache'.free[v] = -1
            PROVE  FALSE
        <4>1. a.free[v] = -1 /\ ~(Req[t].store[v] > 0)
          BY <3>1, <3>3, <3>7
        <4>2. reserved[v] > 0
          BY <3>4, <3>7, <4>1
        <4>3. \E u \in Queued : Req[u].store[v] > 0
          BY <1>5, <3>7
        <4>4. QED
          BY <3>5, <4>1, <4>2, <4>3
      <3>8. QED
        BY <3>6, <3>7
    <2>2. QED
      BY <2>1 DEF Probed
  <1>9. cache' \in CacheRecord
    <2>1. cache'.counts \in
            [Priority -> [runs : [RunClass -> Nat], nets : [Network -> Nat], depth : [Volume -> Nat]]]
      <3>1. cache'.counts = [x \in Priority |-> cache'.counts[x]]
        BY <1>1, <1>2 DEF CacheRecord
      <3>2. ASSUME NEW x \in Priority
            PROVE  cache'.counts[x] \in [runs : [RunClass -> Nat], nets : [Network -> Nat], depth : [Volume -> Nat]]
        <4>1. cache'.counts[x] = QueueCounts(x)'
          BY <1>6 DEF Counted
        <4>2. queue'[x] \in Seq(Task) /\ Distinct(queue'[x])
          BY DEF IInv, Waits, Distinct
        <4>3. QueueCounts(x)' = Tally(ToSet(queue'[x])) /\ ToSet(queue'[x]) \in SUBSET Task
          BY <4>2, TallyOf DEF QueueCounts, ToSet
        <4>4. QED
          BY <4>1, <4>3, TallyType
      <3>3. QED
        BY <3>1, <3>2
    <2>2. cache'.commits \in Nat
      BY <1>1, <1>2 DEF CacheRecord, Minus, One
    <2>3. cache'.writers \in [Volume -> Nat]
      <3>1. \A v \in Volume : a.writers[v] \in Nat
        BY <1>1 DEF CacheRecord
      <3>2. \A n \in Nat, x \in BOOLEAN : Minus(n, One(x)) \in Nat
        BY DEF Minus, One
      <3>3. \A v \in Volume : Minus(a.writers[v], One(t \in a.waiting /\ v \in Req[t].vol["write"])) \in Nat
        BY <3>1, <3>2
      <3>4. QED
        BY <1>2, <3>3
    <2>4. cache'.free \in [Volume -> Int]
      BY <1>1, <1>2, SMTT(30) DEF CacheRecord, CInv, Disk, Probe
    <2>5. cache'.pending \in BOOLEAN /\ cache'.waiting \in SUBSET Task
      BY <1>1, <1>2 DEF CacheRecord
    <2>6. QED
      BY <1>2, <2>1, <2>2, <2>3, <2>4, <2>5 DEF CacheRecord
  <1>10. QED
    BY <1>6, <1>7, <1>8, <1>9 DEF Snapshot

\* What a task takes is counted: with the snapshot, its bytes fit beside what is not allocated yet.
LEMMA StorageTaken ==
  ASSUME IInv, CInv, NEW a, Snapshot(a), NEW t \in Task \ held, t \in Queued,
         NEW r \in Request, r.store = Req[t].store, CanAcquire(r, a), Acquire(r),
         held' = held \cup {t}, UNCHANGED diskVars
  PROVE  reserved' \in [Volume -> Nat] /\ StorageExact' /\ NoOvercommit'
  <1>1. held \in SUBSET Task /\ allocated \in SUBSET held /\ held \ allocated \in SUBSET Task
    BY DEF IInv, Holds, CInv, Disk
  <1>2. ASSUME NEW v \in Volume
        PROVE  /\ reserved'[v] = reserved[v] + Req[t].store[v]
               /\ reserved[v] \in Nat /\ Req[t].store[v] \in Nat
               /\ reserved[v] = Bytes(Req, held, v)
    BY RequestAssumption DEF Acquire, CInv, StorageExact, Request
  <1>3. reserved' \in [Volume -> Nat]
    BY <1>2 DEF Acquire
  <1>4. StorageExact'
    <2>1. ASSUME NEW v \in Volume PROVE reserved'[v] = Bytes(Req, held', v)
      BY <1>1, <1>2, Stores
    <2>2. QED
      BY <2>1 DEF StorageExact
  <1>5. ASSUME NEW v \in Volume \ Unprobed,
               Cardinality({u \in held' : Req[u].store[v] > 0}) > 1
        PROVE  Bytes(Req, held' \ allocated', v) <= free'[v]
    <2> DEFINE N == {u \in held : Req[u].store[v] > 0}
    <2>1. free' = free /\ allocated' = allocated /\ free[v] \in Nat
      BY DEF diskVars, CInv, Disk
    <2>2. held' \ allocated' = (held \ allocated) \cup {t} /\ t \in Task \ (held \ allocated)
      BY <1>1, <2>1
    <2>3. Bytes(Req, held' \ allocated', v) = Bytes(Req, held \ allocated, v) + Req[t].store[v]
      BY <1>1, <2>2, Stores
    <2>4. CASE Req[t].store[v] = 0
      <3>1. {u \in held' : Req[u].store[v] > 0} = N
        BY <2>4
      <3>2. Bytes(Req, held \ allocated, v) <= free[v]
        BY <1>5, <3>1 DEF CInv, NoOvercommit
      <3>3. Bytes(Req, held \ allocated, v) \in Nat
        BY <1>1, Stores
      <3>4. QED
        BY <2>1, <2>3, <2>4, <3>2, <3>3
    <2>5. CASE Req[t].store[v] > 0
      <3>1. N # {}
        <4>1. SUFFICES ASSUME N = {} PROVE FALSE
          OBVIOUS
        <4>2. {u \in held' : Req[u].store[v] > 0} = {t}
          BY <2>5, <4>1
        <4>3. Cardinality({t}) = 1
          BY FS_Singleton
        <4>4. Cardinality({u \in held' : Req[u].store[v] > 0}) = 1
          BY <4>2, <4>3
        <4>5. QED
          BY <1>5, <4>4
      <3>2. PICK u \in held : Req[u].store[v] > 0
        BY <3>1
      <3>3. reserved[v] > 0
        <4>1. /\ held \ {u} \in SUBSET Task /\ u \in Task \ (held \ {u})
              /\ (held \ {u}) \cup {u} = held
          BY <1>1
        <4>2. Bytes(Req, held, v) = Bytes(Req, held \ {u}, v) + Req[u].store[v]
              /\ Bytes(Req, held \ {u}, v) \in Nat
          BY <4>1, Stores, SMTT(30)
        <4>3. Req[u].store[v] \in Nat
          BY <1>1, RequestAssumption DEF Request
        <4>4. QED
          BY <1>2, <3>2, <4>2, <4>3
      <3>4. a.free[v] # -1 /\ a.free[v] <= free[v] + Bytes(Req, allocated, v)
        BY <2>5, <3>3 DEF Snapshot, Probed
      <3>5. reserved[v] + Req[t].store[v] <= a.free[v]
        BY <2>5, <3>3, <3>4 DEF CanAcquire, StorageFits
      <3>6. Bytes(Req, held, v) = Bytes(Req, held \ allocated, v) + Bytes(Req, allocated, v)
        <4>1. allocated \in SUBSET Task /\ (held \ allocated) \cup allocated = held
              /\ (held \ allocated) \cap allocated = {}
          BY <1>1
        <4>2. QED
          BY <1>1, <4>1, Stores
      <3>7. Bytes(Req, allocated, v) \in Nat /\ Bytes(Req, held \ allocated, v) \in Nat
        BY <1>1, Stores
      <3>8. a.free[v] \in Int
        BY DEF Snapshot, CacheRecord
      <3>9. QED
        BY <1>2, <2>1, <2>3, <3>4, <3>5, <3>6, <3>7, <3>8
    <2>6. QED
      BY <1>2, <2>4, <2>5
  <1>6. QED
    BY <1>3, <1>4, <1>5 DEF NoOvercommit

\* What tasks give back is what they took.
LEMMA StorageReleased ==
  ASSUME IInv, CInv, NEW R \in SUBSET held, ReleaseAll([u \in R |-> HeldRequest(u)]),
         held' = held \ R
  PROVE  reserved' \in [Volume -> Nat] /\ StorageExact'
  <1> DEFINE rs == [u \in R |-> HeldRequest(u)]
  <1>1. held \in SUBSET Task /\ R \in SUBSET Task /\ held \ R \in SUBSET Task
    BY DEF IInv, Holds
  <1>2. ASSUME NEW v \in Volume
        PROVE  reserved'[v] = Bytes(Req, held', v) /\ reserved'[v] \in Nat
    <2>1. reserved'[v] = Minus(reserved[v], Bytes(rs, R, v))
      BY DEF ReleaseAll
    <2>2. Bytes(rs, R, v) = Bytes(Req, R, v)
      <3>1. IsFiniteSet(R)
        BY <1>1, RequestAssumption, FS_Subset
      <3>2. \A u \in R : rs[u].store[v] = Req[u].store[v] /\ Req[u].store[v] \in Nat
        BY <1>1, RequestAssumption DEF HeldRequest, AsFollower, Request
      <3> HIDE DEF rs
      <3>3. QED
        BY <3>1, <3>2, BytesSame
    <2>3. reserved[v] = Bytes(Req, held, v)
      BY DEF CInv, StorageExact
    <2>4. Bytes(Req, held, v) = Bytes(Req, held \ R, v) + Bytes(Req, R, v)
      <3>1. (held \ R) \cup R = held /\ (held \ R) \cap R = {}
        OBVIOUS
      <3>2. QED
        BY <1>1, <3>1, Stores
    <2>5. Bytes(Req, held \ R, v) \in Nat /\ Bytes(Req, R, v) \in Nat
      BY <1>1, Stores
    <2> HIDE DEF rs
    <2>6. reserved'[v] = Bytes(Req, held \ R, v)
      BY <2>1, <2>2, <2>3, <2>4, <2>5 DEF Minus
    <2>7. QED
      BY <2>5, <2>6
  <1>3. reserved' \in [Volume -> Nat]
    BY <1>2 DEF ReleaseAll
  <1>4. QED
    BY <1>2, <1>3 DEF StorageExact

\* Fewer tasks at work with less to allocate, and no less free space.
LEMMA LessToAllocate ==
  ASSUME IInv, CInv, held' \subseteq held,
         allocated' \subseteq held', free' \in [Volume -> Nat],
         held' \ allocated' \subseteq held \ allocated,
         \A v \in Volume : free'[v] >= free[v]
  PROVE  NoOvercommit'
  <1>1. ASSUME NEW v \in Volume \ Unprobed,
               Cardinality({u \in held' : Req[u].store[v] > 0}) > 1
        PROVE  Bytes(Req, held' \ allocated', v) <= free'[v]
    <2> DEFINE N == {u \in held : Req[u].store[v] > 0}
               L == {u \in held' : Req[u].store[v] > 0}
               A == held \ allocated
               B == held' \ allocated'
    <2>1. held \in SUBSET Task /\ A \in SUBSET Task /\ B \in SUBSET Task /\ A \ B \in SUBSET Task
      BY DEF IInv, Holds
    <2>2. Cardinality(N) > 1
      <3>1. IsFiniteSet(N) /\ L \in SUBSET N
        BY <2>1, RequestAssumption, FS_Subset
      <3>2. Cardinality(L) <= Cardinality(N) /\ Cardinality(N) \in Nat /\ Cardinality(L) \in Nat
        BY <3>1, FS_Subset, FS_CardinalityType
      <3>3. Cardinality(L) > 1
        BY <1>1
      <3> HIDE DEF N, L
      <3>4. QED
        BY <3>2, <3>3
    <2>3. Bytes(Req, A, v) <= free[v]
      BY <2>2 DEF CInv, NoOvercommit
    <2>4. B \cup (A \ B) = A /\ B \cap (A \ B) = {}
      OBVIOUS
    <2> HIDE DEF A, B
    <2>5. Bytes(Req, A, v) = Bytes(Req, B, v) + Bytes(Req, A \ B, v)
      BY <2>1, <2>4, Stores
    <2>6. Bytes(Req, B, v) \in Nat /\ Bytes(Req, A \ B, v) \in Nat
      BY <2>1, Stores
    <2>7. free[v] \in Nat /\ free'[v] \in Nat /\ free'[v] >= free[v]
      BY DEF CInv, Disk
    <2>8. Bytes(Req, B, v) <= free'[v]
      BY <2>3, <2>5, <2>6, <2>7
    <2>9. QED
      BY <2>8 DEF B
  <1>2. QED
    BY <1>1 DEF NoOvercommit

LEMMA CacheInit == Init => CInv
  <1> SUFFICES ASSUME Init PROVE CInv
    OBVIOUS
  <1>1. held = {} /\ allocated = {} /\ cache = NoCache
    BY DEF Init
  <1>2. age \in [Task -> 0 .. 2] /\ reserved \in [Volume -> Nat] /\ Disk
    BY ConfigAssumption DEF Init, Disk
  <1>3. StorageExact
    BY <1>1, Stores DEF Init, StorageExact
  <1>4. NoOvercommit
    <2>1. ASSUME NEW v \in Volume \ Unprobed
          PROVE  ~(Cardinality({t \in held : Req[t].store[v] > 0}) > 1)
      <3>1. {t \in held : Req[t].store[v] > 0} = {}
        BY <1>1
      <3>2. Cardinality({}) = 0
        BY FS_EmptySet
      <3>3. Cardinality({t \in held : Req[t].store[v] > 0}) = 0
        BY <3>1, <3>2
      <3>4. QED
        BY <3>3
    <2>2. QED
      BY <2>1 DEF NoOvercommit
  <1>5. QED
    BY <1>1, <1>2, <1>3, <1>4 DEF CInv

\* A snapshot of the queue stays one while the queue, the permits and the disk stay and waiting
\* tasks do not age.
LEMMA SnapshotKept ==
  ASSUME IInv, CInv, NEW a, Snapshot(a), cache' = a,
         UNCHANGED <<queue, resourceVars, diskVars>>, \A t \in Queued : age'[t] = age[t]
  PROVE  Snapshot(cache)'
  <1>1. Queued' = Queued /\ \A p \in Priority : QueueCounts(p)' = QueueCounts(p)
    BY DEF Queued, QueueCounts
  <1>2. \A t : Eligible(t)' <=> Eligible(t)
    BY DEF Eligible, MutationConflict, resourceVars
  <1>3. WaitingWriters' = WaitingWriters
    BY <1>1, <1>2 DEF WaitingWriters
  <1>4. Counted(cache)'
    BY <1>1 DEF Snapshot, Counted
  <1>5. Watched(cache)'
    BY <1>1, <1>2, <1>3 DEF Snapshot, Watched
  <1>6. Probed(cache)'
    BY <1>1 DEF Snapshot, Probed, resourceVars, diskVars
  <1>7. cache' \in CacheRecord
    BY DEF Snapshot
  <1>8. QED
    BY <1>4, <1>5, <1>6, <1>7 DEF Snapshot

\* A step that leaves permits and disk alone, and drops the cache or keeps a snapshot.
LEMMA CacheKept ==
  ASSUME IInv, CInv, UNCHANGED <<held, reserved, diskVars>>,
         age' \in [Task -> 0 .. 2], \A i \in DOMAIN round' : round'[i] \notin allocated,
         cache' # NoCache => Snapshot(cache)'
  PROVE  CInv'
  <1>1. StorageExact' /\ NoOvercommit' /\ Disk'
    BY DEF CInv, StorageExact, NoOvercommit, Disk, diskVars
  <1>2. QED
    BY <1>1 DEF CInv

LEMMA PushCached ==
  ASSUME IInv, CInv, NEW t \in Task, Push(t)
  PROVE  CInv'
  <1>1. /\ UNCHANGED <<held, reserved, diskVars, round>> /\ cache' = NoCache
        /\ age' = [age EXCEPT ![t] = 0]
    BY DEF Push, resourceVars, passVars
  <1>2. age' \in [Task -> 0 .. 2]
    BY <1>1 DEF CInv
  <1>3. QED
    BY <1>1, <1>2, CacheKept DEF CInv, Disk

LEMMA StillCached ==
  ASSUME IInv, CInv, BeginPass \/ Over \/ UNCHANGED vars
  PROVE  CInv'
  <1>1. UNCHANGED <<queue, held, resourceVars, diskVars, age, round, cache>>
    BY DEF BeginPass, Over, vars, queueVars, passVars
  <1>2. age' \in [Task -> 0 .. 2] /\ \A t \in Queued : age'[t] = age[t]
    BY <1>1 DEF CInv
  <1>3. cache' # NoCache => Snapshot(cache)'
    BY <1>1, <1>2, SnapshotKept DEF CInv
  <1>4. QED
    BY <1>1, <1>2, <1>3, CacheKept DEF CInv, Disk, resourceVars

LEMMA EndPassCached ==
  ASSUME IInv, CInv, EndPass
  PROVE  CInv'
  <1>1. /\ UNCHANGED <<queue, held, resourceVars, diskVars, age, round>>
        /\ cache' = Current
    BY DEF EndPass, queueVars
  <1>2. age' \in [Task -> 0 .. 2] /\ \A t \in Queued : age'[t] = age[t]
    BY <1>1 DEF CInv
  <1>3. Snapshot(cache)'
    BY <1>1, <1>2, SnapshotKept, CurrentSnapshot
  <1>4. QED
    BY <1>1, <1>2, <1>3, CacheKept DEF CInv, Disk, resourceVars

\* The tasks that leave with the dispatcher were in no queue.
LEMMA SubmitCached ==
  ASSUME IInv, CInv, Submit
  PROVE  CInv'
  <1>1. /\ UNCHANGED <<queue, held, resourceVars, diskVars>> /\ round' = << >>
        /\ cache' = Current \/ cache' = cache
        /\ age' = [t \in Task |-> IF t \in ToSet(round) THEN 0 ELSE age[t]]
    BY DEF Submit, Looked
  <1>2. \A t \in ToSet(round) : t \notin Queued
    BY QueuedTasks DEF IInv, Holds, ToSet
  <1>3. age' \in [Task -> 0 .. 2] /\ \A t \in Queued : age'[t] = age[t]
    BY <1>1, <1>2, QueuedTasks DEF CInv
  <1>4. cache' # NoCache => Snapshot(cache)'
    BY <1>1, <1>3, SnapshotKept, CurrentSnapshot DEF CInv
  <1>5. QED
    BY <1>1, <1>3, <1>4, CacheKept DEF CInv, Disk, resourceVars

\* Before a waiting task can have waited long enough unseen the cache expires.
LEMMA TickCached ==
  ASSUME IInv, CInv, Tick
  PROVE  CInv'
  <1>1. /\ UNCHANGED <<queue, held, resourceVars, diskVars, round>>
        /\ age' = [t \in Task |-> IF t \in Queued \cup ToSet(round) /\ age[t] < 2
                                  THEN age[t] + 1 ELSE age[t]]
        /\ cache' = IF Expired THEN NoCache ELSE cache
    BY DEF Tick, passVars
  <1>2. age' \in [Task -> 0 .. 2]
    BY <1>1 DEF CInv
  <1>3. ASSUME cache' # NoCache PROVE Snapshot(cache)'
    <2>1. cache' = cache /\ ~cache.pending /\ Snapshot(cache)
      BY <1>1, <1>3 DEF Expired, CInv
    <2>2. Queued' = Queued /\ \A p \in Priority : QueueCounts(p)' = QueueCounts(p)
      BY <1>1 DEF Queued, QueueCounts
    <2>3. \A t : Eligible(t)' <=> Eligible(t)
      BY <1>1 DEF Eligible, MutationConflict, resourceVars
    <2>4. \A t \in Queued : Eligible(t) => age[t] >= 1 /\ age'[t] >= 1
      <3>1. ASSUME NEW t \in Queued, Eligible(t) PROVE age[t] >= 1 /\ age'[t] >= 1
        <4>1. age[t] >= 1 /\ t \in Task
          BY <2>1, <3>1, QueuedTasks DEF Snapshot, Watched
        <4>2. age[t] \in 0 .. 2
          BY <4>1 DEF CInv
        <4>3. QED
          BY <1>1, <4>1, <4>2
      <3>2. QED
        BY <3>1
    <2>5. WaitingWriters' = WaitingWriters
      BY <2>2, <2>3, <2>4 DEF WaitingWriters
    <2>6. Counted(cache)'
      BY <2>1, <2>2 DEF Snapshot, Counted
    <2>7. Watched(cache)'
      BY <2>1, <2>2, <2>3, <2>4, <2>5 DEF Snapshot, Watched
    <2>8. Probed(cache)'
      BY <1>1, <2>1, <2>2 DEF Snapshot, Probed, resourceVars, diskVars
    <2>9. QED
      BY <2>1, <2>6, <2>7, <2>8 DEF Snapshot
  <1>4. QED
    BY <1>1, <1>2, <1>3, CacheKept DEF CInv, Disk, resourceVars

\* What a task allocates it no longer has to; the cache does not know of it.
LEMMA AllocateCached ==
  ASSUME IInv, CInv, NEW t \in Task, Allocate(t)
  PROVE  CInv'
  <1>1. /\ t \in held /\ t \notin ToSet(round) /\ t \notin allocated
        /\ \A v \in Volume : Req[t].store[v] <= free[v]
        /\ free' = [v \in Volume |-> free[v] - Req[t].store[v]]
        /\ allocated' = allocated \cup {t}
        /\ UNCHANGED <<queue, age, held, resourceVars, cache, round>>
    BY DEF Allocate, queueVars, passVars
  <1>2. held \in SUBSET Task /\ allocated \in SUBSET Task /\ allocated \subseteq held
    BY DEF IInv, Holds, CInv, Disk
  <1>3. ASSUME NEW v \in Volume
        PROVE  /\ free'[v] = free[v] - Req[t].store[v] /\ free'[v] \in Nat
               /\ free[v] \in Nat /\ Req[t].store[v] \in Nat
    <2>1. free[v] \in Nat /\ Req[t].store[v] \in Nat
      BY RequestAssumption DEF CInv, Disk, Request
    <2>2. QED
      BY <1>1, <2>1
  <1>4. Disk'
    <2>1. free' \in [Volume -> Nat]
      BY <1>1, <1>3
    <2>2. \A i \in DOMAIN round : round[i] # t
      BY <1>1 DEF ToSet
    <2>3. QED
      BY <1>1, <2>1, <2>2 DEF CInv, Disk
  <1>5. StorageExact'
    BY <1>1 DEF CInv, StorageExact, resourceVars
  <1>6. NoOvercommit'
    <2>1. ASSUME NEW v \in Volume \ Unprobed,
                 Cardinality({u \in held : Req[u].store[v] > 0}) > 1
          PROVE  Bytes(Req, held \ allocated', v) <= free'[v]
      <3> DEFINE A == held \ allocated'
      <3>1. A \in SUBSET Task /\ t \in Task \ A /\ A \cup {t} = held \ allocated
        BY <1>1, <1>2
      <3>2. Bytes(Req, held \ allocated, v) <= free[v]
        BY <2>1 DEF CInv, NoOvercommit
      <3> HIDE DEF A
      <3>3. Bytes(Req, held \ allocated, v) = Bytes(Req, A, v) + Req[t].store[v]
            /\ Bytes(Req, A, v) \in Nat
        BY <3>1, Stores
      <3>4. Bytes(Req, A, v) <= free'[v]
        BY <1>3, <3>2, <3>3
      <3>5. QED
        BY <3>4 DEF A
    <2>2. QED
      BY <1>1, <2>1 DEF NoOvercommit
  <1>7. ASSUME cache' # NoCache PROVE Snapshot(cache)'
    <2>1. cache' = cache /\ Snapshot(cache)
      BY <1>1, <1>7 DEF CInv
    <2>2. Queued' = Queued /\ \A p \in Priority : QueueCounts(p)' = QueueCounts(p)
      BY <1>1 DEF Queued, QueueCounts
    <2>3. \A u : Eligible(u)' <=> Eligible(u)
      BY <1>1 DEF Eligible, MutationConflict, resourceVars
    <2>4. WaitingWriters' = WaitingWriters
      BY <1>1, <2>2, <2>3 DEF WaitingWriters
    <2>5. Counted(cache)'
      BY <2>1, <2>2 DEF Snapshot, Counted
    <2>6. Watched(cache)'
      BY <1>1, <2>1, <2>2, <2>3, <2>4 DEF Snapshot, Watched
    <2>7. Probed(cache)'
      <3>1. ASSUME NEW v \in Volume \ Unprobed
            PROVE  free'[v] + Bytes(Req, allocated', v) = free[v] + Bytes(Req, allocated, v)
        <4>1. Bytes(Req, allocated', v) = Bytes(Req, allocated, v) + Req[t].store[v]
              /\ Bytes(Req, allocated, v) \in Nat
          BY <1>1, <1>2, Stores
        <4>2. QED
          BY <1>3, <4>1
      <3>2. QED
        BY <1>1, <2>1, <2>2, <3>1 DEF Snapshot, Probed, resourceVars
    <2>8. QED
      BY <2>1, <2>5, <2>6, <2>7 DEF Snapshot
  <1>8. QED
    BY <1>1, <1>4, <1>5, <1>6, <1>7 DEF CInv, resourceVars

\* A finished task that wrote less than it allocated gives the rest back to the disk.
LEMMA ReleaseCached ==
  ASSUME IInv, CInv, NEW t \in Task, NEW kept \in BOOLEAN, Release(t, kept)
  PROVE  CInv'
  <1>1. /\ t \in held /\ (t \notin allocated => kept)
        /\ ReleaseAll([u \in {t} |-> HeldRequest(u)])
        /\ held' = held \ {t} /\ allocated' = allocated \ {t}
        /\ free' = [v \in Volume |->
              IF t \in allocated /\ ~kept THEN free[v] + Req[t].store[v] ELSE free[v]]
        /\ cache' = NoCache /\ UNCHANGED <<age, round>>
    BY DEF Release, CacheAfterRelease, passVars
  <1> DEFINE R == {t}
  <1>2. R \in SUBSET held /\ ReleaseAll([u \in R |-> HeldRequest(u)]) /\ held' = held \ R
    BY <1>1
  <1> HIDE DEF R
  <1>3. reserved' \in [Volume -> Nat] /\ StorageExact'
    BY <1>2, StorageReleased
  <1>4. \A v \in Volume : free[v] \in Nat /\ Req[t].store[v] \in Nat
    BY RequestAssumption DEF CInv, Disk, Request
  <1>5. free' \in [Volume -> Nat] /\ \A v \in Volume : free'[v] >= free[v]
    BY <1>1, <1>4
  <1>6. allocated' \subseteq held' /\ held' \ allocated' \subseteq held \ allocated
    BY <1>1 DEF CInv, Disk
  <1>7. NoOvercommit'
    BY <1>1, <1>5, <1>6, LessToAllocate
  <1>8. Disk'
    BY <1>1, <1>5, <1>6 DEF CInv, Disk
  <1>9. QED
    BY <1>1, <1>3, <1>7, <1>8 DEF CInv

\* A rejected batch has allocated nothing.
LEMMA BusyCached ==
  ASSUME IInv, CInv, Busy
  PROVE  CInv'
  <1> DEFINE R == ToSet(round)
  <1>1. /\ R \in SUBSET held /\ R \cap allocated = {}
        /\ held' = held \ R /\ ReleaseAll([u \in R |-> HeldRequest(u)])
        /\ cache' = NoCache /\ round' = << >> /\ UNCHANGED <<age, free, allocated>>
    BY DEF Busy, diskVars, IInv, Holds, CInv, Disk, ToSet
  <1> HIDE DEF R
  <1>2. reserved' \in [Volume -> Nat] /\ StorageExact'
    BY <1>1, StorageReleased
  <1>3. \A v \in Volume : free[v] \in Nat
    BY DEF CInv, Disk
  <1>4. /\ free' \in [Volume -> Nat] /\ \A v \in Volume : free'[v] >= free[v]
        /\ allocated' \subseteq held' /\ held' \ allocated' \subseteq held \ allocated
        /\ held' \subseteq held
    BY <1>1, <1>3 DEF CInv, Disk
  <1>5. NoOvercommit'
    BY <1>4, LessToAllocate
  <1>6. Disk'
    BY <1>1, <1>4 DEF Disk
  <1>7. QED
    BY <1>1, <1>2, <1>5, <1>6 DEF CInv

LEMMA PopNextCached ==
  ASSUME IInv, CInv, PopNext
  PROVE  CInv'
  <1>0. PICK a \in {Current} : \E k \in First(CanPop(a)) :
          \E p \in {Source(ClassAt(k), a)} : \E i \in Picked(p, ClassAt(k), Preferred(k), a) :
            Pop(a, k, p, i)
    BY DEF PopNext
  <1>1. PICK k \in First(CanPop(a)) :
          \E p \in {Source(ClassAt(k), a)} : \E i \in Picked(p, ClassAt(k), Preferred(k), a) :
            Pop(a, k, p, i)
    BY <1>0
  <1>2. PICK p \in {Source(ClassAt(k), a)} :
          \E i \in Picked(p, ClassAt(k), Preferred(k), a) : Pop(a, k, p, i)
    BY <1>1
  <1>3. PICK i \in Picked(p, ClassAt(k), Preferred(k), a) : Pop(a, k, p, i)
    BY <1>2
  <1>4. p \in Priority /\ Snapshot(a)
    BY CurrentSnapshot DEF Source, Priority
  <1>5. i \in DOMAIN queue[p] /\ CanAcquire(Req[queue[p][i]], a)
    BY <1>4, PickedRunnable
  <1>t. PICK t : t = queue[p][i]
    OBVIOUS
  <1>6. /\ queue' = [queue EXCEPT ![p] = RemoveAt(@, i)]
        /\ held' = held \cup {t} /\ round' = <<t>>
        /\ Acquire(Req[t]) /\ cache' = Without(a, p, t) /\ UNCHANGED <<age, diskVars>>
    BY <1>3, <1>t DEF Pop
  <1>7. t \in Task \ held /\ Req[t] \in Request /\ t \in Queued
    <2>1. t \in Task \ held
      BY <1>4, <1>5, <1>6, <1>t, Taken
    <2>2. QED
      BY <1>4, <1>5, <1>t, <2>1, Requests DEF Queued, ToSet, Priority
  <1>8. IInv'
    BY PopNextHolds
  <1>9. reserved' \in [Volume -> Nat] /\ StorageExact' /\ NoOvercommit'
    BY <1>4, <1>5, <1>6, <1>7, <1>t, StorageTaken
  <1>10. Snapshot(cache)'
    BY <1>4, <1>5, <1>6, <1>7, <1>8, <1>t, WithoutSnapshot
  <1>11. Disk'
    BY <1>6, <1>7 DEF CInv, Disk, diskVars
  <1>12. QED
    BY <1>6, <1>9, <1>10, <1>11 DEF CInv

LEMMA PopFollowerCached ==
  ASSUME IInv, CInv, PopFollower
  PROVE  CInv'
  <1>1. PICK a \in {Current} : \E p \in {BatchSource(a)} : \E i \in First(BatchIndices(p, a)) :
          JoinBatch(a, p, i)
    BY DEF PopFollower
  <1>a. PICK p \in {BatchSource(a)} : \E i \in First(BatchIndices(p, a)) : JoinBatch(a, p, i)
    BY <1>1
  <1>b. PICK i \in First(BatchIndices(p, a)) : JoinBatch(a, p, i)
    BY <1>a
  <1>2. p \in Priority /\ Snapshot(a)
    BY CurrentSnapshot DEF BatchSource, Priority
  <1>t. PICK t : t = queue[p][i]
    OBVIOUS
  <1>3. i \in DOMAIN queue[p] /\ CanAcquire(AsFollower(Req[t]), a)
    BY <1>t DEF First, BatchIndices
  <1>4. /\ queue' = [queue EXCEPT ![p] = RemoveAt(@, i)]
        /\ held' = held \cup {t} /\ round' = Append(round, t)
        /\ Acquire(AsFollower(Req[t])) /\ cache' = Without(a, p, t) /\ UNCHANGED <<age, diskVars>>
    BY <1>b, <1>t DEF JoinBatch
  <1>5. t \in Task \ held /\ AsFollower(Req[t]) \in Request /\ t \in Queued
    <2>1. t \in Task \ held
      BY <1>2, <1>3, <1>4, <1>t, Taken
    <2>2. QED
      BY <1>2, <1>3, <1>t, <2>1, Requests DEF Queued, ToSet, Priority
  <1>6. IInv'
    BY PopFollowerHolds
  <1>7. AsFollower(Req[t]).store = Req[t].store
    BY <1>5, RequestAssumption DEF AsFollower, Request
  <1>8. reserved' \in [Volume -> Nat] /\ StorageExact' /\ NoOvercommit'
    BY <1>2, <1>3, <1>4, <1>5, <1>7, StorageTaken
  <1>9. Snapshot(cache)'
    BY <1>2, <1>3, <1>4, <1>5, <1>6, <1>7, <1>t, WithoutSnapshot
  <1>10. Disk'
    <2>1. round \in Seq(Task) /\ Distinct(round) /\ \A j \in DOMAIN round : round[j] # t
      BY <1>5 DEF IInv, Holds, Distinct
    <2>2. \A j \in DOMAIN round' : round'[j] = t \/ \E m \in DOMAIN round : round'[j] = round[m]
      BY <1>4, <1>5, <2>1, AppendShape
    <2>3. QED
      BY <1>4, <1>5, <2>2 DEF CInv, Disk, diskVars
  <1>11. QED
    BY <1>4, <1>8, <1>9, <1>10 DEF CInv

LEMMA NextCached ==
  ASSUME IInv, CInv, [Next]_vars
  PROVE  CInv'
  <1>1. CASE \E t \in Task : Push(t)
    BY <1>1, PushCached
  <1>2. CASE PopNext
    BY <1>2, PopNextCached
  <1>3. CASE PopFollower
    BY <1>3, PopFollowerCached
  <1>4. CASE Busy
    BY <1>4, BusyCached
  <1>5. CASE \E t \in Task, kept \in BOOLEAN : Release(t, kept)
    BY <1>5, ReleaseCached
  <1>6. CASE BeginPass \/ Over \/ UNCHANGED vars
    BY <1>6, StillCached
  <1>7. CASE Submit
    BY <1>7, SubmitCached
  <1>8. CASE EndPass
    BY <1>8, EndPassCached
  <1>9. CASE \E t \in Task : Allocate(t)
    BY <1>9, AllocateCached
  <1>10. CASE Tick
    BY <1>10, TickCached
  <1>11. QED
    BY <1>1, <1>2, <1>3, <1>4, <1>5, <1>6, <1>7, <1>8, <1>9, <1>10 DEF Next

-----------------------------------------------------------------------------
(* The cursors. *)

Cursors ==
  /\ done \subseteq Task
  /\ streak \in [RunClass -> 0 .. ContinuationBurst]
  /\ runCursor \in 0 .. 3 /\ networkCursor \in 0 .. 7
  /\ pass \in {"idle", "popping", "deadlocked"}
  /\ blockingOk \in BOOLEAN

\* The network cursor moves at most once for each entry of the schedule.
LEMMA Moves ==
  ASSUME NEW K \in SUBSET (0 .. 3)
  PROVE  NetworkMoves(K) \in Nat
  <1> DEFINE S == (({0} \cup {1}) \cup {2}) \cup {3}
             T == {k \in Tried \cap K : ClassAt(k) = "AsyncIo"}
  <1>1. IsFiniteSet(S)
    <2>1. IsFiniteSet({0})
      BY FS_Singleton
    <2>2. IsFiniteSet({0} \cup {1})
      BY <2>1, FS_AddElement
    <2>3. IsFiniteSet(({0} \cup {1}) \cup {2})
      BY <2>2, FS_AddElement
    <2>4. QED
      BY <2>3, FS_AddElement
  <1>2. T \in SUBSET S
    <2>1. \A k \in 0 .. 3 : k = 0 \/ k = 1 \/ k = 2 \/ k = 3
      OBVIOUS
    <2>2. \A k \in T : k \in 0 .. 3
      OBVIOUS
    <2>3. \A k \in T : k \in S
      BY <2>1, <2>2
    <2>4. QED
      BY <2>3
  <1> HIDE DEF S, T
  <1>3. Cardinality(T) \in Nat
    BY <1>1, <1>2, FS_Subset, FS_CardinalityType
  <1>4. QED
    BY <1>3 DEF NetworkMoves, T

LEMMA NextCursors ==
  ASSUME IInv, Cursors, [Next]_vars
  PROVE  Cursors'
  <1>0. /\ ContinuationBurst \in Nat \ {0}
        /\ runCursor \in 0 .. 3 /\ networkCursor \in 0 .. 7
        /\ streak \in [RunClass -> 0 .. ContinuationBurst]
    BY ConfigAssumption DEF Cursors
  <1>1. CASE \E t \in Task : Push(t)
    BY <1>1 DEF Push, Cursors, cursorVars, passVars
  <1>2. CASE PopNext
    <2>1. PICK a \in {Current} : \E k \in First(CanPop(a)) : \E p \in {Source(ClassAt(k), a)} :
            \E i \in Picked(p, ClassAt(k), Preferred(k), a) : Pop(a, k, p, i)
      BY <1>2 DEF PopNext
    <2>2. PICK k \in First(CanPop(a)) : \E p \in {Source(ClassAt(k), a)} :
            \E i \in Picked(p, ClassAt(k), Preferred(k), a) : Pop(a, k, p, i)
      BY <2>1
    <2>3. PICK p \in {Source(ClassAt(k), a)} :
            \E i \in Picked(p, ClassAt(k), Preferred(k), a) : Pop(a, k, p, i)
      BY <2>2
    <2>4. PICK i \in Picked(p, ClassAt(k), Preferred(k), a) : Pop(a, k, p, i)
      BY <2>3
    <2>5. k \in 0 .. 3
      BY DEF First, CanPop, Tried
    <2>6. ClassAt(k) \in RunClass
      <3>1. ((runCursor + k) % 4) + 1 \in 1 .. 4
        BY <1>0, <2>5
      <3>2. \A n \in 1 .. 4 : RunSchedule[n] \in RunClass
        BY DEF RunSchedule, RunClass
      <3>3. QED
        BY <3>1, <3>2 DEF ClassAt
    <2>7. /\ streak' = [streak EXCEPT ![ClassAt(k)] = IF p = "Bulk" THEN 0
                                       ELSE IF ForceBulk(ClassAt(k)) THEN 1 ELSE @ + 1]
          /\ runCursor' = (runCursor + k + 1) % 4
          /\ networkCursor' = (networkCursor + NetworkMoves(0 .. k)) % 8
          /\ UNCHANGED <<done, pass, blockingOk>>
      BY <2>4 DEF Pop
    <2>8. streak' \in [RunClass -> 0 .. ContinuationBurst]
      BY <1>0, <2>6, <2>7 DEF ForceBulk
    <2>9. runCursor' \in 0 .. 3
      BY <1>0, <2>5, <2>7
    <2>10. networkCursor' \in 0 .. 7
      <3>1. 0 .. k \in SUBSET (0 .. 3)
        BY <2>5
      <3>2. NetworkMoves(0 .. k) \in Nat
        BY <3>1, Moves
      <3>3. QED
        BY <1>0, <2>7, <3>2
    <2>11. QED
      BY <2>7, <2>8, <2>9, <2>10 DEF Cursors
  <1>3. CASE PopFollower
    BY <1>3 DEF PopFollower, JoinBatch, Cursors, cursorVars
  <1>4. CASE EndPass
    <2>1. NetworkMoves(0 .. 3) \in Nat
      BY Moves
    <2>2. networkCursor' \in 0 .. 7
      BY <1>0, <1>4, <2>1 DEF EndPass
    <2>3. QED
      BY <1>4, <2>2 DEF EndPass, Cursors, queueVars
  <1>5. CASE \E t \in Task, kept \in BOOLEAN : Release(t, kept)
    BY <1>5 DEF Release, Cursors, cursorVars, passVars
  <1>6. CASE BeginPass \/ Submit \/ Busy \/ Tick
    BY <1>6 DEF BeginPass, Submit, Busy, Tick, Cursors, queueVars, cursorVars, passVars
  <1>7. CASE (\E t \in Task : Allocate(t)) \/ Over \/ UNCHANGED vars
    BY <1>7 DEF Allocate, Over, vars, Cursors, queueVars, cursorVars, passVars
  <1>8. QED
    BY <1>1, <1>2, <1>3, <1>4, <1>5, <1>6, <1>7 DEF Next

-----------------------------------------------------------------------------
(* Theorems. *)

\* Through every selection, batch, rejection and release a task is in one place, and the permits
\* are those of the tasks at work.
THEOREM AdmissionInvariant == Spec => []IInv
  BY InitHolds, NextHolds, PTL DEF Spec

\* ResourceState counts what is in use, whichever class a task was routed with, borrowed or was
\* rejected with: the slots, the streams of every volume and the paths that are being changed.
THEOREM PermitsAreExact == Spec => []PermitsExact
  <1>1. IInv => PermitsExact
    BY DEF IInv
  <1>2. QED
    BY <1>1, AdmissionInvariant, PTL

\* can_acquire keeps tasks apart: paths that contain each other, and the streams a volume's policy
\* keeps apart, are never at work together.
THEOREM WorkIsIsolated == Spec => []WorkIsolated
  <1>1. IInv => WorkIsolated
    BY DEF IInv
  <1>2. QED
    BY <1>1, AdmissionInvariant, PTL

\* While tasks are removed from the queue, allocate, finish, age and are rejected, the cache in use
\* is a snapshot of the queue and of the disk, and the reservations are those of the tasks at work.
THEOREM CacheInvariant == Spec => []CInv
  <1>1. IInv /\ CInv /\ [Next]_vars => CInv'
    BY NextCached
  <1>2. QED
    BY <1>1, CacheInit, AdmissionInvariant, PTL DEF Spec

\* The selection keeps its cursors and streaks in their bounds, and nothing else loses its type.
THEOREM AdmissionTypes == Spec => []TypeOK
  <1>1. Init => Cursors
    <2>1. ContinuationBurst \in Nat
      BY ConfigAssumption
    <2>2. QED
      BY <2>1 DEF Init, Cursors
  <1>2. IInv /\ Cursors /\ [Next]_vars => Cursors'
    BY NextCursors
  <1>3. IInv /\ CInv /\ Cursors => TypeOK
    <2> SUFFICES ASSUME IInv, CInv, Cursors PROVE TypeOK
      OBVIOUS
    <2>1. mutating \subseteq Path
      <3>1. \A t \in held : Req[t].paths \subseteq Path
        BY Requests DEF IInv, Holds
      <3>2. QED
        BY <3>1 DEF IInv, PermitsExact
    <2>2. ToSet(round) \subseteq held
      BY DEF IInv, Holds, ToSet
    <2>3. QED
      BY <2>1, <2>2 DEF TypeOK, IInv, Waits, Holds, Counters, CInv, Disk, Cursors
  <1>4. QED
    BY <1>1, <1>2, <1>3, AdmissionInvariant, CacheInvariant, PTL DEF Spec

\* Permits and reserved bytes are those of the tasks at work: a follower gives back what it borrowed,
\* a rejected batch what it took, and no saturating subtraction ever saturates.
THEOREM AccountingHolds == Spec => []Accounting
  <1>1. IInv /\ CInv => Accounting
    BY DEF IInv, CInv, Accounting
  <1>2. QED
    BY <1>1, AdmissionInvariant, CacheInvariant, PTL

\* A volume's free space is probed once for many admissions while tasks allocate in between, and yet
\* what the tasks at work still have to allocate fits beside each other.
THEOREM NothingOvercommitted == Spec => []NoOvercommit
  <1>1. CInv => NoOvercommit
    BY DEF CInv
  <1>2. QED
    BY <1>1, CacheInvariant, PTL

\* The cache that AdmissionCache::remove_task keeps up to date counts the queue as it is, and misses no
\* writer that has waited long enough, though it was computed before that writer had.
THEOREM CacheIsExact == Spec => []CacheExact
  <1>1. CInv => CacheExact
    BY DEF CInv, Snapshot, Counted, Watched, CacheExact
  <1>2. QED
    BY <1>1, CacheInvariant, PTL
=============================================================================
