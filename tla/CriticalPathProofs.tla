------------------------- MODULE CriticalPathProofs -------------------------
(***************************************************************************)
(* Proofs about compute_critical_path (CriticalPath, TaskCompletion), for  *)
(* every finite acyclic graph and every status of its tasks: the path is a *)
(* longest chain or, where dependencies are no nodes, the tail of one; a   *)
(* task is critical exactly when a longest chain goes through it; the      *)
(* first unfinished task of the path is ready if every dependency is a     *)
(* node; and the project end never grows as tasks are finished.            *)
(*                                                                         *)
(* There is no inductive invariant to find: the statements are about the   *)
(* operators, and hold in every state because its graph is acyclic.  Every *)
(* induction is one on finite sets: of the counterexamples there is a      *)
(* least set, or a task none of whose predecessors (or successors) is one. *)
(***************************************************************************)
EXTENDS TaskCompletion, FiniteSetTheorems, WellFoundedInduction, TLAPS

-----------------------------------------------------------------------------
(* Finite sets *)

\* Of some subsets of a finite set, one is least.
LEMMA LeastSubset ==
  ASSUME NEW S, IsFiniteSet(S), NEW T, T \subseteq SUBSET S, T # {}
  PROVE  \E X \in T : \A Y \in T : Y \subseteq X => Y = X
  <1>1. IsWellFoundedOn(StrictSubsetOrdering(S), SUBSET S)
    BY FS_StrictSubsetOrderingWellFounded, FS_FiniteSubsetsOfFinite
  <1>2. PICK X \in T : \A Y \in T : ~(<<Y, X>> \in StrictSubsetOrdering(S))
    BY <1>1, WFMin
  <1>3. SUFFICES ASSUME NEW Y \in T, Y \subseteq X, Y # X PROVE FALSE
    BY Zenon
  <1>4. <<Y, X>> \in StrictSubsetOrdering(S)
    BY <1>3 DEF StrictSubsetOrdering
  <1> QED
    BY <1>2, <1>4, Zenon

LEMMA FiniteImage ==
  ASSUME NEW S, IsFiniteSet(S), NEW f
  PROVE  IsFiniteSet({f[x] : x \in S})
  <1> DEFINE T == {f[x] : x \in S}
             h == [x \in S |-> f[x]]
  <1>1. h \in Surjection(S, T)
    BY DEF Surjection
  <1> QED
    BY <1>1, FS_Surjection

LEMMA FiniteMax ==
  ASSUME NEW A, IsFiniteSet(A), A \subseteq Int, A # {}
  PROVE  \E x \in A : \A y \in A : y <= x
  <1> DEFINE T == {X \in SUBSET A : X # {} /\ ~(\E x \in X : \A y \in X : y <= x)}
  <1>1. SUFFICES ASSUME T # {} PROVE FALSE
    OBVIOUS
  <1>2. T \subseteq SUBSET A /\ T # {}
    BY <1>1
  <1> HIDE DEF T
  <1>3. IsFiniteSet(A)
    OBVIOUS
  <1>4. \E X \in T : \A Y \in T : Y \subseteq X => Y = X
    BY ONLY <1>2, <1>3, LeastSubset
  <1>5. PICK X \in T : \A Y \in T : Y \subseteq X => Y = X
    BY <1>4
  <1> USE DEF T
  <1>6. X \subseteq Int /\ X # {} /\ ~(\E x \in X : \A y \in X : y <= x)
    BY <1>5
  <1>7. PICK x \in X : TRUE
    BY <1>6
  <1>8. X \ {x} \notin T
    BY <1>5, <1>7
  <1>9. CASE X \ {x} = {}
    <2>1. \A y \in X : y = x
      BY <1>9
    <2> QED
      BY <1>6, <1>7, <2>1
  <1>10. CASE X \ {x} # {}
    <2>1. PICK m \in X \ {x} : \A y \in X \ {x} : y <= m
      BY <1>5, <1>8, <1>10
    <2>2. x \in Int /\ m \in Int
      BY <1>6
    <2>3. CASE x <= m
      BY <1>6, <2>1, <2>3
    <2>4. CASE m <= x
      <3>1. \A y \in X : y <= x
        BY <1>6, <2>1, <2>2, <2>4
      <3> QED
        BY <1>6, <3>1
    <2> QED
      BY <2>2, <2>3, <2>4
  <1> QED
    BY <1>9, <1>10

LEMMA FiniteMin ==
  ASSUME NEW A, IsFiniteSet(A), A \subseteq Int, A # {}
  PROVE  \E x \in A : \A y \in A : x <= y
  <1> DEFINE neg == [x \in A |-> -x]
             B   == {neg[x] : x \in A}
  <1>1. IsFiniteSet(B)
    BY FiniteImage
  <1>2. B \subseteq Int /\ B # {}
    <2>1. \A x \in A : neg[x] \in Int
      OBVIOUS
    <2>2. PICK x \in A : TRUE
      OBVIOUS
    <2> QED
      BY <2>1, <2>2
  <1>3. PICK b \in B : \A y \in B : y <= b
    BY <1>1, <1>2, FiniteMax
  <1>4. PICK x \in A : b = -x
    OBVIOUS
  <1>5. \A y \in A : -y <= -x
    BY <1>3, <1>4
  <1> QED
    BY <1>4, <1>5

LEMMA LargestIs ==
  ASSUME NEW A, IsFiniteSet(A), A \subseteq Int, A # {}
  PROVE  Largest(A) \in A /\ \A y \in A : y <= Largest(A)
  BY FiniteMax DEF Largest

LEMMA SmallestIs ==
  ASSUME NEW A, IsFiniteSet(A), A \subseteq Int, A # {}
  PROVE  Smallest(A) \in A /\ \A y \in A : Smallest(A) <= y
  BY FiniteMin DEF Smallest

-----------------------------------------------------------------------------
(* Recursion along edges *)

\* B[t]: what the value at t is made of; no set of tasks all need one another.
Founded(S, B) == \A T \in (SUBSET S) \ {{}} : \E t \in T : B[t] \cap T = {}

\* What holds of t as soon as it holds of all of B[t] holds of all.
LEMMA Induct ==
  ASSUME NEW S, NEW B, Founded(S, B), NEW P,
         \A t \in S : (B[t] \cap S) \subseteq P => t \in P
  PROVE  S \subseteq P
  <1>1. SUFFICES ASSUME S \ P # {} PROVE FALSE
    OBVIOUS
  <1>2. PICK t \in S \ P : B[t] \cap (S \ P) = {}
    BY <1>1 DEF Founded
  <1> QED
    BY <1>2

\* F[t][h], the value at t, depends on h at B[t] only.
Recurrence(S, B, V, F) ==
    /\ IsFiniteSet(S)
    /\ Founded(S, B)
    /\ V # {}
    /\ F \in [S -> [[S -> V] -> V]]
    /\ \A t \in S : \A h, k \in [S -> V] :
          (\A u \in B[t] \cap S : h[u] = k[u]) => F[t][h] = F[t][k]

\* A recursive definition over a finite founded set defines a function.
LEMMA Recursion ==
  ASSUME NEW S, NEW B, NEW V, NEW F, Recurrence(S, B, V, F)
  PROVE  \E f \in [S -> V] : \A t \in S : f[t] = F[t][f]
  <1>0. /\ IsFiniteSet(S)
        /\ Founded(S, B)
        /\ V # {}
        /\ F \in [S -> [[S -> V] -> V]]
        /\ \A t \in S : \A h, k \in [S -> V] :
              (\A u \in B[t] \cap S : h[u] = k[u]) => F[t][h] = F[t][k]
    BY DEF Recurrence
  <1> DEFINE Solves(f, X) == \A t \in S \ X : f[t] = F[t][f] /\ (B[t] \cap S) \subseteq S \ X
             T == {X \in SUBSET S : \E f \in [S -> V] : Solves(f, X)}
  <1>1. S \in T
    <2>1. PICK v \in V : TRUE
      BY <1>0
    <2>2. [t \in S |-> v] \in [S -> V]
      OBVIOUS
    <2> QED
      BY <2>2
  <1>2. T \subseteq SUBSET S /\ T # {}
    BY <1>1
  <1> HIDE DEF T
  <1>3. PICK X \in T : \A Y \in T : Y \subseteq X => Y = X
    BY <1>0, <1>2, LeastSubset
  <1>4. PICK f \in [S -> V] : Solves(f, X)
    BY DEF T
  <1>5. CASE X = {}
    BY <1>4, <1>5
  <1>6. CASE X # {}
    <2>1. PICK t \in X : B[t] \cap X = {}
      BY <1>0, <1>2, <1>6 DEF Founded
    <2>2. t \in S /\ F[t][f] \in V
      BY <1>0, <1>2, <2>1
    <2> DEFINE h == [f EXCEPT ![t] = F[t][f]]
    <2>3. h \in [S -> V] /\ h[t] = F[t][f] /\ \A u \in S \ {t} : h[u] = f[u]
      BY <2>2
    <2>4. (B[t] \cap S) \subseteq S \ X
      BY <2>1
    <2> HIDE DEF h
    <2>5. F[t][h] = F[t][f]
      <3>1. \A u \in B[t] \cap S : h[u] = f[u]
        BY <2>1, <2>3, <2>4
      <3> QED
        BY <1>0, <2>2, <2>3, <3>1, Zenon
    <2>6. ASSUME NEW u \in S \ X
          PROVE  h[u] = F[u][h] /\ (B[u] \cap S) \subseteq S \ X
      <3>1. f[u] = F[u][f] /\ (B[u] \cap S) \subseteq S \ X
        BY <1>4
      <3>2. \A v \in B[u] \cap S : h[v] = f[v]
        BY <2>1, <2>3, <3>1
      <3>3. F[u][h] = F[u][f]
        BY <1>0, <2>3, <3>2, Zenon
      <3> QED
        BY <2>1, <2>3, <3>1, <3>3
    <2>7. \A u \in S \ (X \ {t}) : u = t \/ u \in S \ X
      OBVIOUS
    <2>8. Solves(h, X \ {t})
      BY <2>2, <2>3, <2>4, <2>5, <2>6, <2>7
    <2>9. X \ {t} \in T
      BY <1>2, <2>3, <2>8 DEF T
    <2> QED
      BY <1>3, <2>1, <2>9
  <1> QED
    BY <1>5, <1>6

-----------------------------------------------------------------------------
(* Schedules: what the forward and the backward pass of compute_critical_path achieve *)

\* The tasks N with their predecessors P and successors Q, the remaining durations r, the
\* earliest finish ef, the latest start ls, and the end of the project.
Edges(N, P, Q) ==
    /\ IsFiniteSet(N)
    /\ P \in [N -> SUBSET N]
    /\ Q \in [N -> SUBSET N]
    /\ \A s, t \in N : s \in Q[t] <=> t \in P[s]
    /\ Founded(N, P)
    /\ Founded(N, Q)

Forward(N, P, r, ef) ==
    /\ r \in [N -> Nat]
    /\ ef \in [N -> Int]
    /\ \A t \in N : r[t] <= ef[t]
    /\ \A t \in N : \A p \in P[t] : ef[p] + r[t] <= ef[t]
    /\ \A t \in N : ef[t] = r[t] \/ \E p \in P[t] : ef[t] = ef[p] + r[t]

Ends(N, ef, end) ==
    /\ end \in Nat
    /\ \A t \in N : ef[t] <= end
    /\ end = 0 \/ \E t \in N : ef[t] = end

Backward(N, Q, r, ls, end) ==
    /\ ls \in [N -> Int]
    /\ \A t \in N : Q[t] = {} => ls[t] + r[t] = end
    /\ \A t \in N : \A s \in Q[t] : ls[t] + r[t] <= ls[s]
    /\ \A t \in N : Q[t] # {} => \E s \in Q[t] : ls[t] + r[t] = ls[s]

Schedule(N, P, Q, r, ef, ls, end) ==
    Edges(N, P, Q) /\ Forward(N, P, r, ef) /\ Ends(N, ef, end) /\ Backward(N, Q, r, ls, end)

\* Acyclic one way, acyclic the other way.
LEMMA FoundedBackwards ==
  ASSUME NEW N, IsFiniteSet(N), NEW P \in [N -> SUBSET N], NEW Q \in [N -> SUBSET N],
         \A s, t \in N : s \in Q[t] <=> t \in P[s],
         Founded(N, P)
  PROVE  Founded(N, Q)
  <1> DEFINE T == {X \in SUBSET N : X # {} /\ \A t \in X : Q[t] \cap X # {}}
  <1>1. SUFFICES ASSUME T # {} PROVE FALSE
    BY DEF Founded
  <1>2. T \subseteq SUBSET N /\ T # {}
    BY <1>1
  <1> HIDE DEF T
  <1>3. IsFiniteSet(N)
    OBVIOUS
  <1>4. \E X \in T : \A Y \in T : Y \subseteq X => Y = X
    BY ONLY <1>2, <1>3, LeastSubset
  <1>5. PICK X \in T : \A Y \in T : Y \subseteq X => Y = X
    BY <1>4
  <1>6. X \subseteq N /\ X # {} /\ \A t \in X : Q[t] \cap X # {}
    BY DEF T
  <1>7. PICK x \in X : P[x] \cap X = {}
    BY <1>6 DEF Founded
  <1>8. PICK s \in X : s \in Q[x]
    BY <1>6, <1>7
  <1>9. s # x
    BY <1>6, <1>7, <1>8
  <1>10. ASSUME NEW t \in X \ {x}
         PROVE  Q[t] \cap (X \ {x}) # {}
    <2>1. PICK u \in X : u \in Q[t]
      BY <1>6
    <2>2. u # x
      BY <1>6, <1>7, <2>1
    <2> QED
      BY <2>1, <2>2
  <1>11. X \ {x} \in T
    BY <1>6, <1>8, <1>9, <1>10 DEF T
  <1> QED
    BY <1>5, <1>7, <1>11

\* No task is due to start before its predecessors can have finished.
LEMMA NoNegativeSlack ==
  ASSUME NEW N, NEW P, NEW Q, NEW r, NEW ef, NEW ls, NEW end,
         Schedule(N, P, Q, r, ef, ls, end)
  PROVE  \A t \in N : ef[t] <= ls[t] + r[t] /\ ls[t] + r[t] <= end
  <1> USE DEF Schedule, Edges, Forward, Ends, Backward
  <1> DEFINE G == {t \in N : ef[t] <= ls[t] + r[t] /\ ls[t] + r[t] <= end}
  <1>1. ASSUME NEW t \in N, (Q[t] \cap N) \subseteq G
        PROVE  t \in G
    <2>1. CASE Q[t] = {}
      BY <2>1
    <2>2. CASE Q[t] # {}
      <3>1. PICK s \in Q[t] : ls[t] + r[t] = ls[s]
        BY <2>2
      <3>2. s \in N /\ s \in G /\ t \in P[s]
        BY <1>1, <3>1
      <3>3. ef[t] + r[s] <= ef[s] /\ r[s] \in Nat /\ ef[s] \in Int /\ ls[s] \in Int
        BY <3>2
      <3> QED
        BY <3>1, <3>2, <3>3
    <2> QED
      BY <2>1, <2>2
  <1>2. N \subseteq G
    <2>1. Founded(N, Q)
      OBVIOUS
    <2> HIDE DEF G
    <2> QED
      BY <1>1, <2>1, Induct
  <1> QED
    BY <1>2

\* t has no slack.
Tight(t, r, ef, ls) == ls[t] + r[t] = ef[t]

\* A critical task is followed by a critical task that starts when it ends.
LEMMA CriticalNext ==
  ASSUME NEW N, NEW P, NEW Q, NEW r, NEW ef, NEW ls, NEW end,
         Schedule(N, P, Q, r, ef, ls, end),
         NEW t \in N, Tight(t, r, ef, ls)
  PROVE  /\ Q[t] = {} => ef[t] = end
         /\ Q[t] # {} => \E s \in Q[t] : Tight(s, r, ef, ls) /\ ef[s] = ef[t] + r[s]
  <1>0. \A u \in N : ef[u] <= ls[u] + r[u]
    BY NoNegativeSlack
  <1> USE DEF Schedule, Edges, Forward, Ends, Backward, Tight
  <1>1. ASSUME Q[t] # {}
        PROVE  \E s \in Q[t] : Tight(s, r, ef, ls) /\ ef[s] = ef[t] + r[s]
    <2>1. PICK s \in Q[t] : ls[t] + r[t] = ls[s]
      BY <1>1
    <2>2. s \in N /\ t \in P[s]
      BY <2>1
    <2>3. ef[t] + r[s] <= ef[s] /\ r[s] \in Nat /\ ef[s] \in Int /\ ls[s] \in Int
      BY <2>2
    <2>4. ef[s] <= ls[s] + r[s]
      BY <1>0, <2>2
    <2>5. ls[t] + r[t] = ef[t] /\ ef[t] \in Int /\ ls[t] \in Int /\ r[t] \in Nat
      BY ONLY t \in N, Tight(t, r, ef, ls), Schedule(N, P, Q, r, ef, ls, end)
           DEF Tight, Schedule, Forward, Backward
    <2>6. ls[s] + r[s] = ef[s]
      BY ONLY <2>1, <2>3, <2>4, <2>5
    <2>7. Tight(s, r, ef, ls)
      BY <2>6
    <2> QED
      BY <2>1, <2>2, <2>3, <2>4, <2>5, <2>7
  <1> QED
    BY <1>1

\* A critical task that follows another follows a critical one at whose end it starts.
LEMMA CriticalBefore ==
  ASSUME NEW N, NEW P, NEW Q, NEW r, NEW ef, NEW ls, NEW end,
         Schedule(N, P, Q, r, ef, ls, end),
         NEW t \in N, Tight(t, r, ef, ls)
  PROVE  /\ P[t] = {} => ef[t] = r[t]
         /\ P[t] # {} => \E p \in P[t] : Tight(p, r, ef, ls) /\ ef[t] = ef[p] + r[t]
  <1>0. \A u \in N : ef[u] <= ls[u] + r[u]
    BY NoNegativeSlack
  <1> USE DEF Schedule, Edges, Forward, Ends, Backward, Tight
  <1>1. ASSUME P[t] # {}
        PROVE  \E p \in P[t] : Tight(p, r, ef, ls) /\ ef[t] = ef[p] + r[t]
    <2>1. PICK p \in P[t] : ef[t] = ef[p] + r[t]
      <3>1. CASE ef[t] = r[t]
        <4>1. PICK q \in P[t] : TRUE
          BY <1>1
        <4>2. q \in N /\ ef[q] + r[t] <= ef[t] /\ r[q] <= ef[q] /\ r[q] \in Nat /\ ef[q] \in Int
          OBVIOUS
        <4>3. ef[q] = 0
          BY <3>1, <4>2
        <4> QED
          BY <3>1, <4>3
      <3> QED
        BY <3>1
    <2>2. p \in N /\ t \in Q[p]
      BY <2>1
    <2>3. ls[p] + r[p] <= ls[t] /\ r[p] \in Nat /\ ef[p] \in Int /\ ls[p] \in Int
      BY <2>2
    <2>4. ef[p] <= ls[p] + r[p]
      BY <1>0, <2>2
    <2>5. ls[t] + r[t] = ef[t] /\ ef[t] \in Int /\ ls[t] \in Int /\ r[t] \in Nat
      BY ONLY t \in N, Tight(t, r, ef, ls), Schedule(N, P, Q, r, ef, ls, end)
           DEF Tight, Schedule, Forward, Backward
    <2>6. ls[p] + r[p] = ef[p]
      BY ONLY <2>1, <2>3, <2>4, <2>5
    <2>7. Tight(p, r, ef, ls)
      BY <2>6
    <2> QED
      BY <2>1, <2>2, <2>3, <2>4, <2>5, <2>7
  <1> QED
    BY <1>1

\* Some critical task has no predecessor.
LEMMA CriticalSource ==
  ASSUME NEW N, NEW P, NEW Q, NEW r, NEW ef, NEW ls, NEW end,
         Schedule(N, P, Q, r, ef, ls, end), N # {}
  PROVE  \E t \in N : Tight(t, r, ef, ls) /\ P[t] = {}
  <1> DEFINE C == {t \in N : Tight(t, r, ef, ls)}
  <1>1. C # {}
    <2>1. PICK t \in N : ef[t] = end
      <3>1. CASE end = 0
        <4>1. PICK t \in N : TRUE
          OBVIOUS
        <4> QED
          BY <3>1, <4>1 DEF Schedule, Forward, Ends
      <3> QED
        BY <3>1 DEF Schedule, Ends
    <2>2. ef[t] <= ls[t] + r[t] /\ ls[t] + r[t] <= end
      BY NoNegativeSlack
    <2>3. Tight(t, r, ef, ls)
      BY <2>1, <2>2 DEF Tight, Schedule, Forward, Ends, Backward
    <2> QED
      BY <2>3
  <1>2. PICK t \in C : P[t] \cap C = {}
    BY <1>1 DEF Schedule, Edges, Founded
  <1>3. P[t] = {}
    <2>1. SUFFICES ASSUME P[t] # {} PROVE FALSE
      OBVIOUS
    <2>2. PICK p \in P[t] : Tight(p, r, ef, ls)
      BY <2>1, CriticalBefore
    <2>3. p \in N
      BY <2>2 DEF Schedule, Edges
    <2> QED
      BY <1>2, <2>2, <2>3
  <1> QED
    BY <1>2, <1>3

-----------------------------------------------------------------------------
(* Chains and their lengths *)

LEMMA Upwards ==
  ASSUME NEW a \in Int, NEW b \in Int, NEW P, a \in P,
         \A i \in a..(b - 1) : i \in P => i + 1 \in P
  PROVE  \A i \in a..b : i \in P
  <1> DEFINE C == (a..b) \ P
  <1>1. SUFFICES ASSUME C # {} PROVE FALSE
    OBVIOUS
  <1>2. IsFiniteSet(C) /\ C \subseteq Int
    <2>1. IsFiniteSet(a..b)
      BY FS_Interval
    <2>2. C \in SUBSET (a..b) /\ C \subseteq Int
      OBVIOUS
    <2> HIDE DEF C
    <2>3. IsFiniteSet(C)
      BY ONLY <2>1, <2>2, FS_Subset
    <2> QED
      BY <2>2, <2>3
  <1>3. PICK m \in C : \A i \in C : m <= i
    <2> HIDE DEF C
    <2> QED
      BY <1>1, <1>2, FiniteMin
  <1>4. m \in Int /\ a <= m /\ m <= b /\ m \notin P /\ m # a
    OBVIOUS
  <1>5. m - 1 \in a..(b - 1) /\ m - 1 \notin C
    BY <1>3, <1>4
  <1>6. (m - 1) + 1 = m
    BY <1>4
  <1> QED
    BY <1>4, <1>5, <1>6

LEMMA Downwards ==
  ASSUME NEW a \in Int, NEW b \in Int, NEW P, b \in P,
         \A i \in a..(b - 1) : i + 1 \in P => i \in P
  PROVE  \A i \in a..b : i \in P
  <1> DEFINE R == {i \in Int : -i \in P}
  <1>1. -b \in R
    OBVIOUS
  <1>2. ASSUME NEW i \in (-b)..(-a - 1), i \in R
        PROVE  i + 1 \in R
    <2>1. -(i + 1) \in a..(b - 1) /\ -(i + 1) + 1 = -i /\ i + 1 \in Int
      OBVIOUS
    <2> QED
      BY <1>2, <2>1
  <1>3. \A i \in (-b)..(-a) : i \in R
    <2>1. -b \in Int /\ -a \in Int
      OBVIOUS
    <2> HIDE DEF R
    <2> QED
      BY <1>1, <1>2, <2>1, Upwards
  <1>4. ASSUME NEW i \in a..b
        PROVE  i \in P
    <2>1. -i \in (-b)..(-a) /\ -(-i) = i
      OBVIOUS
    <2> QED
      BY <1>3, <2>1
  <1> QED
    BY <1>4

\* s goes along edges.
Runs(N, P, s) ==
    /\ s \in Seq(N)
    /\ Len(s) >= 1
    /\ \A i \in 1..(Len(s) - 1) : s[i] \in P[s[i + 1]]

\* Each task of s can start as soon as the one before it is finished.
Snug(s, r, ef) == \A i \in 1..(Len(s) - 1) : ef[s[i + 1]] = ef[s[i]] + r[s[i + 1]]

\* sum[i] is the length of the first i tasks of s.
Sums(s, r, sum) ==
    /\ sum \in [0..Len(s) -> Int]
    /\ sum[0] = 0
    /\ \A i \in 1..Len(s) : sum[i] = sum[i - 1] + r[s[i]]

\* A chain meets no task twice.
LEMMA RunsIsShort ==
  ASSUME NEW N, IsFiniteSet(N), NEW P, Founded(N, P), NEW s, Runs(N, P, s)
  PROVE  Len(s) \in 1..Cardinality(N)
  <1>1. Len(s) \in Nat /\ Len(s) >= 1 /\ \A i \in 1..Len(s) : s[i] \in N
    BY DEF Runs
  <1>2. ASSUME NEW i \in 1..Len(s), NEW j \in 1..Len(s), i < j, s[i] = s[j]
        PROVE  FALSE
    <2> DEFINE T == {s[k] : k \in (i + 1)..j}
    <2>1. T \in (SUBSET N) \ {{}}
      <3>1. j \in (i + 1)..j
        BY <1>1, <1>2
      <3>2. \A k \in (i + 1)..j : k \in 1..Len(s)
        BY <1>1, <1>2
      <3> QED
        BY <1>1, <3>1, <3>2
    <2>2. PICK t \in T : P[t] \cap T = {}
      <3> HIDE DEF T
      <3> QED
        BY <2>1 DEF Founded
    <2>3. PICK k \in (i + 1)..j : t = s[k]
      OBVIOUS
    <2>4. k - 1 \in 1..(Len(s) - 1) /\ (k - 1) + 1 = k
      BY <1>1, <1>2
    <2>5. s[k - 1] \in P[s[k]]
      BY <2>4 DEF Runs
    <2>6. s[k - 1] \in T
      <3>1. CASE k = i + 1
        <4>1. k - 1 = i /\ j \in (i + 1)..j
          BY <1>1, <1>2, <3>1
        <4> QED
          BY <1>2, <4>1
      <3>2. CASE k # i + 1
        BY <1>1, <2>3, <3>2
      <3> QED
        BY <3>1, <3>2
    <2> QED
      BY <2>2, <2>3, <2>5, <2>6
  <1>3. s \in Injection(1..Len(s), N)
    <2>1. s \in [1..Len(s) -> N]
      BY DEF Runs
    <2>2. \A i, j \in 1..Len(s) : s[i] = s[j] => i = j
      BY <1>1, <1>2
    <2> QED
      BY <2>1, <2>2 DEF Injection, IsInjective
  <1>4. Cardinality(1..Len(s)) <= Cardinality(N)
    BY <1>3, FS_Injection
  <1>5. Cardinality(1..Len(s)) = Len(s) /\ Cardinality(N) \in Nat
    BY <1>1, FS_Interval, FS_CardinalityType
  <1> QED
    BY <1>1, <1>4, <1>5

\* No chain outlasts the earliest finish of its last task.
LEMMA RunsFitEarliest ==
  ASSUME NEW N, NEW P, NEW r, NEW ef, Forward(N, P, r, ef),
         NEW s, Runs(N, P, s), NEW sum, Sums(s, r, sum)
  PROVE  \A i \in 1..Len(s) : sum[i] <= ef[s[i]]
  <1> DEFINE G == {i \in 1..Len(s) : sum[i] <= ef[s[i]]}
  <1>1. Len(s) \in Nat /\ Len(s) >= 1 /\ \A i \in 1..Len(s) : s[i] \in N
    BY DEF Runs
  <1>2. 1 \in G
    <2>1. 1 \in 1..Len(s) /\ 1 - 1 = 0
      BY <1>1
    <2>2. sum[1] = 0 + r[s[1]]
      BY <2>1 DEF Sums
    <2>3. r[s[1]] \in Nat /\ r[s[1]] <= ef[s[1]]
      BY <1>1, <2>1 DEF Forward
    <2> QED
      BY <2>1, <2>2, <2>3
  <1>3. ASSUME NEW i \in 1..(Len(s) - 1), i \in G
        PROVE  i + 1 \in G
    <2>1. i + 1 \in 1..Len(s) /\ i \in 1..Len(s) /\ (i + 1) - 1 = i
      BY <1>1
    <2>2. sum[i + 1] = sum[i] + r[s[i + 1]]
      BY <2>1 DEF Sums
    <2>3. ef[s[i]] + r[s[i + 1]] <= ef[s[i + 1]]
      <3>1. s[i] \in P[s[i + 1]] /\ s[i + 1] \in N
        BY <1>1, <2>1 DEF Runs
      <3> QED
        BY <3>1 DEF Forward
    <2>4. sum[i] \in Int /\ r[s[i + 1]] \in Nat /\ ef[s[i]] \in Int /\ ef[s[i + 1]] \in Int
      <3>1. s[i] \in N /\ s[i + 1] \in N /\ i \in 0..Len(s)
        BY <1>1, <2>1
      <3>2. sum[i] \in Int
        BY <3>1 DEF Sums
      <3> QED
        BY <3>1, <3>2 DEF Forward
    <2>5. sum[i] <= ef[s[i]]
      BY <1>3
    <2> QED
      BY <2>1, <2>2, <2>3, <2>4, <2>5
  <1>4. \A i \in 1..Len(s) : i \in G
    <2>1. 1 \in Int /\ Len(s) \in Int
      BY <1>1
    <2> HIDE DEF G
    <2> QED
      BY <1>2, <1>3, <2>1, Upwards
  <1> QED
    BY <1>4

\* A snug chain from a source is as long as the earliest finish of its last task.
LEMMA SnugRunsReachEarliest ==
  ASSUME NEW N, NEW P, NEW r, NEW ef, Forward(N, P, r, ef),
         NEW s, Runs(N, P, s), Snug(s, r, ef), P[s[1]] = {},
         NEW sum, Sums(s, r, sum)
  PROVE  \A i \in 1..Len(s) : sum[i] = ef[s[i]]
  <1> DEFINE G == {i \in 1..Len(s) : sum[i] = ef[s[i]]}
  <1>1. Len(s) \in Nat /\ Len(s) >= 1 /\ \A i \in 1..Len(s) : s[i] \in N
    BY DEF Runs
  <1>2. 1 \in G
    <2>1. 1 \in 1..Len(s) /\ 1 - 1 = 0 /\ s[1] \in N
      BY <1>1
    <2>2. sum[1] = 0 + r[s[1]]
      BY <2>1 DEF Sums
    <2>3. r[s[1]] \in Nat /\ r[s[1]] = ef[s[1]]
      BY <2>1 DEF Forward
    <2> QED
      BY <2>1, <2>2, <2>3
  <1>3. ASSUME NEW i \in 1..(Len(s) - 1), i \in G
        PROVE  i + 1 \in G
    <2>1. i + 1 \in 1..Len(s) /\ i \in 1..Len(s) /\ (i + 1) - 1 = i
      BY <1>1
    <2>2. sum[i + 1] = sum[i] + r[s[i + 1]]
      BY <2>1 DEF Sums
    <2>3. ef[s[i]] + r[s[i + 1]] = ef[s[i + 1]]
      BY DEF Snug
    <2>4. sum[i] = ef[s[i]]
      BY <1>3
    <2> QED
      BY <2>1, <2>2, <2>3, <2>4
  <1>4. \A i \in 1..Len(s) : i \in G
    <2>1. 1 \in Int /\ Len(s) \in Int
      BY <1>1
    <2> HIDE DEF G
    <2> QED
      BY <1>2, <1>3, <2>1, Upwards
  <1> QED
    BY <1>4

\* Every task of a chain as long as the project is without slack.
LEMMA LongestRunsAreTight ==
  ASSUME NEW N, NEW P, NEW Q, NEW r, NEW ef, NEW ls, NEW end,
         Schedule(N, P, Q, r, ef, ls, end),
         NEW s, Runs(N, P, s), Q[s[Len(s)]] = {},
         NEW sum, Sums(s, r, sum), sum[Len(s)] = end
  PROVE  \A i \in 1..Len(s) : Tight(s[i], r, ef, ls)
  <1> DEFINE G == {i \in 1..Len(s) : ls[s[i]] + r[s[i]] <= sum[i]}
  <1>1. Len(s) \in Nat /\ Len(s) >= 1 /\ \A i \in 1..Len(s) : s[i] \in N
    BY DEF Runs
  <1>2. Len(s) \in G
    <2>1. Len(s) \in 1..Len(s) /\ s[Len(s)] \in N
      BY <1>1
    <2>2. ls[s[Len(s)]] + r[s[Len(s)]] = end
      BY <2>1 DEF Schedule, Backward
    <2> QED
      BY <2>1, <2>2 DEF Schedule, Ends
  <1>3. ASSUME NEW i \in 1..(Len(s) - 1), i + 1 \in G
        PROVE  i \in G
    <2>1. i + 1 \in 1..Len(s) /\ i \in 1..Len(s) /\ (i + 1) - 1 = i
      BY <1>1
    <2>2. sum[i + 1] = sum[i] + r[s[i + 1]]
      BY <2>1 DEF Sums
    <2>3. ls[s[i]] + r[s[i]] <= ls[s[i + 1]]
      <3>1. s[i] \in P[s[i + 1]] /\ s[i] \in N /\ s[i + 1] \in N
        BY <1>1, <2>1 DEF Runs
      <3>2. s[i + 1] \in Q[s[i]]
        BY <3>1 DEF Schedule, Edges
      <3> QED
        BY <3>1, <3>2 DEF Schedule, Backward
    <2>4. sum[i] \in Int /\ r[s[i + 1]] \in Nat /\ r[s[i]] \in Nat /\ ls[s[i]] \in Int
            /\ ls[s[i + 1]] \in Int
      <3>1. s[i] \in N /\ s[i + 1] \in N /\ i \in 0..Len(s)
        BY <1>1, <2>1
      <3>2. sum[i] \in Int
        BY <3>1 DEF Sums
      <3> QED
        BY <3>1, <3>2 DEF Schedule, Forward, Backward
    <2>5. ls[s[i + 1]] + r[s[i + 1]] <= sum[i + 1]
      BY <1>3
    <2> QED
      BY <2>1, <2>2, <2>3, <2>4, <2>5
  <1>4. \A i \in 1..Len(s) : i \in G
    <2>1. 1 \in Int /\ Len(s) \in Int
      BY <1>1
    <2> HIDE DEF G
    <2> QED
      BY <1>2, <1>3, <2>1, Downwards
  <1>5. \A i \in 1..Len(s) : sum[i] <= ef[s[i]]
    BY RunsFitEarliest DEF Schedule
  <1>6. \A t \in N : ef[t] <= ls[t] + r[t]
    BY NoNegativeSlack
  <1>7. ASSUME NEW i \in 1..Len(s)
        PROVE  Tight(s[i], r, ef, ls)
    <2>1. ls[s[i]] + r[s[i]] <= sum[i] /\ sum[i] <= ef[s[i]] /\ ef[s[i]] <= ls[s[i]] + r[s[i]]
      BY <1>1, <1>4, <1>5, <1>6
    <2>2. sum[i] \in Int /\ r[s[i]] \in Nat /\ ls[s[i]] \in Int /\ ef[s[i]] \in Int
      BY <1>1 DEF Sums, Schedule, Forward, Backward
    <2> QED
      BY <2>1, <2>2 DEF Tight
  <1> QED
    BY <1>7

\* One more task in front.
LEMMA Longer ==
  ASSUME NEW N, NEW P, NEW r, NEW ef, NEW s, Runs(N, P, s), Snug(s, r, ef),
         NEW p \in N, p \in P[s[1]], ef[s[1]] = ef[p] + r[s[1]]
  PROVE  LET c == <<p>> \o s
         IN  /\ Runs(N, P, c) /\ Snug(c, r, ef)
             /\ c[1] = p /\ c[Len(c)] = s[Len(s)]
             /\ \A i \in 1..Len(s) : c[i + 1] = s[i]
  <1> DEFINE c == <<p>> \o s
  <1>1. s \in Seq(N) /\ Len(s) \in Nat /\ Len(s) >= 1
    BY DEF Runs
  <1>2. c \in Seq(N) /\ Len(c) = Len(s) + 1 /\ c[1] = p
    BY <1>1
  <1>3. \A i \in 1..Len(s) : c[i + 1] = s[i]
    BY <1>1
  <1>4. c[Len(c)] = s[Len(s)]
    BY <1>1, <1>2, <1>3
  <1>5. ASSUME NEW i \in 1..(Len(c) - 1)
        PROVE  c[i] \in P[c[i + 1]] /\ ef[c[i + 1]] = ef[c[i]] + r[c[i + 1]]
    <2>1. CASE i = 1
      <3>1. c[i] = p /\ c[i + 1] = s[1]
        BY <1>1, <1>2, <1>3, <2>1
      <3> QED
        BY <3>1
    <2>2. CASE i # 1
      <3>1. i - 1 \in 1..(Len(s) - 1) /\ i - 1 \in 1..Len(s) /\ i \in 1..Len(s)
              /\ (i - 1) + 1 = i
        BY <1>1, <1>2, <2>2
      <3>2. c[i] = s[i - 1] /\ c[i + 1] = s[i]
        BY <1>3, <3>1
      <3>3. s[i - 1] \in P[s[i]] /\ ef[s[i]] = ef[s[i - 1]] + r[s[i]]
        BY <3>1 DEF Runs, Snug
      <3> QED
        BY <3>2, <3>3
    <2> QED
      BY <2>1, <2>2
  <1> QED
    BY <1>1, <1>2, <1>3, <1>4, <1>5 DEF Runs, Snug

-----------------------------------------------------------------------------
(* The schedule compute_critical_path computes *)

\* A graph the loader accepts: acyclic, and its durations positive.
Dag(gr) ==
    /\ gr.nodes \subseteq Tasks
    /\ gr.deps \in [Tasks -> SUBSET Tasks]
    /\ gr.dur \in [Tasks -> Nat \ {0}]
    /\ HasTopoOrder(gr)

Statuses == [Tasks -> TaskStatus]

Preds(gr)  == [t \in gr.nodes |-> predecessors(gr, t) \cap gr.nodes]
Succs(gr)  == [t \in gr.nodes |-> successors(gr, t)]
Rem(gr, sts) == [t \in gr.nodes |-> Remaining(gr, sts, t)]

LEMMA DagEdges ==
  ASSUME NEW gr, Dag(gr)
  PROVE  Edges(gr.nodes, Preds(gr), Succs(gr))
  <1> DEFINE N == gr.nodes
  <1>1. IsFiniteSet(N)
    BY CompletionAssumption, FS_Subset DEF Dag
  <1>2. Preds(gr) \in [N -> SUBSET N]
    BY DEF Preds
  <1>3. Succs(gr) \in [N -> SUBSET N]
    BY DEF Succs, successors
  <1>4. \A s, t \in N : s \in Succs(gr)[t] <=> t \in Preds(gr)[s]
    BY DEF Preds, Succs, predecessors, successors
  <1>5. Founded(N, Preds(gr))
    <2>1. ASSUME NEW T \in (SUBSET N) \ {{}}
          PROVE  \E t \in T : Preds(gr)[t] \cap T = {}
      <3>1. PICK t \in T : predecessors(gr, t) \cap T = {}
        BY DEF Dag, HasTopoOrder
      <3> QED
        BY <3>1 DEF Preds
    <2> QED
      BY <2>1 DEF Founded
  <1>6. Founded(N, Succs(gr))
    BY <1>1, <1>2, <1>3, <1>4, <1>5, FoundedBackwards
  <1> QED
    BY <1>1, <1>2, <1>3, <1>4, <1>5, <1>6 DEF Edges

LEMMA RemainingIs ==
  ASSUME NEW gr, Dag(gr), NEW sts \in Statuses
  PROVE  /\ Rem(gr, sts) \in [gr.nodes -> Nat]
         /\ \A t \in gr.nodes : /\ Rem(gr, sts)[t] = Remaining(gr, sts, t)
                                /\ Rem(gr, sts)[t] = 0 <=> sts[t] = "Done"
  BY DEF Dag, Statuses, Rem, Remaining

\* The values of h over A.
Values(h, A) == {h[p] : p \in A}

\* The largest value over a finite set, or 0.
LEMMA LargestOver ==
  ASSUME NEW A, IsFiniteSet(A), NEW h, \A p \in A : h[p] \in Nat,
         NEW L, L = Largest({0} \cup Values(h, A))
  PROVE  /\ L \in Nat
         /\ \A p \in A : h[p] <= L
         /\ L = 0 \/ \E p \in A : L = h[p]
  <1> DEFINE I == {h[p] : p \in A}
             Z == I \cup {0}
  <1>1. IsFiniteSet(I)
    BY FiniteImage
  <1>2. IsFiniteSet(Z)
    <2> HIDE DEF I
    <2> QED
      BY <1>1, FS_AddElement
  <1>3. Z \subseteq Nat /\ 0 \in Z /\ L = Largest(Z)
    <2>1. Z = {0} \cup Values(h, A)
      BY DEF Values
    <2> QED
      BY <2>1
  <1>4. Z \subseteq Int /\ Z # {}
    BY <1>3
  <1>5. L \in Z /\ \A y \in Z : y <= L
    <2> HIDE DEF Z
    <2> QED
      BY ONLY <1>2, <1>3, <1>4, LargestIs
  <1> QED
    BY <1>3, <1>5

LEMMA SmallestOver ==
  ASSUME NEW A, IsFiniteSet(A), A # {}, NEW h, \A p \in A : h[p] \in Int,
         NEW L, L = Smallest(Values(h, A))
  PROVE  /\ L \in Int
         /\ \A p \in A : L <= h[p]
         /\ \E p \in A : L = h[p]
  <1> DEFINE I == {h[p] : p \in A}
  <1>1. IsFiniteSet(I) /\ I \subseteq Int /\ I # {} /\ L = Smallest(I)
    BY FiniteImage DEF Values
  <1>2. L \in I /\ \A y \in I : L <= y
    <2> HIDE DEF I
    <2> QED
      BY ONLY <1>1, SmallestIs
  <1> QED
    BY <1>2

\* The forward pass: EarliestFinish solves its recursion, in natural numbers.
LEMMA EarliestFinishIs ==
  ASSUME NEW gr, Dag(gr), NEW sts \in Statuses
  PROVE  /\ EarliestFinish(gr, sts) \in [gr.nodes -> Nat]
         /\ \A t \in gr.nodes :
               EarliestFinish(gr, sts)[t] =
                  Rem(gr, sts)[t] + Largest({0} \cup {EarliestFinish(gr, sts)[p] : p \in Preds(gr)[t]})
  <1> DEFINE N == gr.nodes
             P == Preds(gr)
             r == Rem(gr, sts)
             ef == EarliestFinish(gr, sts)
             V == Nat
             F == [t \in N |-> [h \in [N -> V] |-> r[t] + Largest({0} \cup {h[p] : p \in P[t]})]]
             E(f) == [t \in N |-> Remaining(gr, sts, t)
                          + Largest({0} \cup {f[p] : p \in predecessors(gr, t) \cap N})]
  <1>1. Edges(N, P, Succs(gr))
    BY DagEdges
  <1>2. r \in [N -> Nat] /\ \A t \in N : r[t] = Remaining(gr, sts, t)
    BY RemainingIs
  <1>3. \A t \in N : P[t] = predecessors(gr, t) \cap N
    BY DEF Preds
  <1>4. ASSUME NEW t \in N
        PROVE  IsFiniteSet(P[t]) /\ P[t] \in SUBSET N
    BY <1>1, FS_Subset DEF Edges
  <1>5. ASSUME NEW t \in N, NEW h \in [N -> V]
        PROVE  F[t][h] \in V /\ F[t][h] = r[t] + Largest({0} \cup {h[p] : p \in P[t]})
    <2> DEFINE L == Largest({0} \cup {h[p] : p \in P[t]})
    <2>1. \A p \in P[t] : h[p] \in Nat
      BY <1>4
    <2>2. L \in Nat
      <3> HIDE DEF L
      <3>1. L = Largest({0} \cup Values(h, P[t]))
        BY DEF L, Values
      <3> HIDE DEF P
      <3> QED
        BY <1>4, <2>1, <3>1, LargestOver
    <2>3. F[t][h] = r[t] + L
      OBVIOUS
    <2> QED
      BY <1>2, <2>2, <2>3
  <1>6. F \in [N -> [[N -> V] -> V]]
    <2>1. \A t \in N : F[t] = [h \in [N -> V] |-> F[t][h]]
      OBVIOUS
    <2>2. F = [t \in N |-> F[t]]
      OBVIOUS
    <2> HIDE DEF F, N, V
    <2>3. \A t \in N : F[t] \in [[N -> V] -> V]
      BY <1>5, <2>1
    <2> QED
      BY <2>2, <2>3
  <1>7. ASSUME NEW t \in N, NEW h \in [N -> V], NEW k \in [N -> V],
               \A u \in P[t] \cap N : h[u] = k[u]
        PROVE  F[t][h] = F[t][k]
    <2>1. {h[p] : p \in P[t]} = {k[p] : p \in P[t]}
      BY <1>4, <1>7
    <2> HIDE DEF F, P, r
    <2> QED
      BY <1>5, <2>1
  <1>8. PICK f \in [N -> V] : \A t \in N : f[t] = F[t][f]
    <2>1. IsFiniteSet(N) /\ Founded(N, P)
      BY <1>1 DEF Edges
    <2>2. V # {}
      OBVIOUS
    <2> HIDE DEF F, N, V, P, r
    <2>3. \A t \in N : \A h, k \in [N -> V] :
             (\A u \in P[t] \cap N : h[u] = k[u]) => F[t][h] = F[t][k]
      BY <1>7
    <2>4. Recurrence(N, P, V, F)
      BY <1>6, <2>1, <2>2, <2>3 DEF Recurrence
    <2> QED
      BY <2>4, Recursion
  <1>9. f = E(f)
    <2>1. \A t \in N : f[t] = E(f)[t]
      <3>1. ASSUME NEW t \in N
            PROVE  f[t] = E(f)[t]
        <4>1. f[t] = r[t] + Largest({0} \cup {f[p] : p \in P[t]})
          BY <1>5, <1>8
        <4> QED
          BY <1>2, <1>3, <4>1
      <3> QED
        BY <3>1
    <2>2. f = [t \in N |-> f[t]]
      OBVIOUS
    <2> QED
      BY <2>1, <2>2
  <1>10. ef = E(ef)
    BY <1>9 DEF EarliestFinish
  <1>11. \A t \in N : ef[t] = r[t] + Largest({0} \cup {ef[p] : p \in P[t]})
    BY <1>2, <1>3, <1>10
  <1>12. DOMAIN ef = N
    BY <1>10
  <1> DEFINE G == {t \in N : ef[t] \in Nat}
  <1>13. ASSUME NEW t \in N, (P[t] \cap N) \subseteq G
         PROVE  t \in G
    <2> DEFINE L == Largest({0} \cup {ef[p] : p \in P[t]})
    <2>1. \A p \in P[t] : ef[p] \in Nat
      BY <1>4, <1>13
    <2>2. L \in Nat
      <3> HIDE DEF L
      <3>1. L = Largest({0} \cup Values(ef, P[t]))
        BY DEF L, Values
      <3> HIDE DEF P, ef
      <3> QED
        BY <1>4, <2>1, <3>1, LargestOver
    <2> QED
      BY <1>2, <1>11, <2>2
  <1>14. N \subseteq G
    <2>1. Founded(N, P)
      BY <1>1 DEF Edges
    <2> HIDE DEF G, P, N
    <2> QED
      BY <1>13, <2>1, Induct
  <1>15. ef = [t \in N |-> ef[t]]
    BY <1>10, <1>12
  <1>16. ef \in [N -> Nat]
    BY <1>14, <1>15
  <1> QED
    BY <1>11, <1>16

LEMMA ForwardHolds ==
  ASSUME NEW gr, Dag(gr), NEW sts \in Statuses
  PROVE  Forward(gr.nodes, Preds(gr), Rem(gr, sts), EarliestFinish(gr, sts))
  <1> DEFINE N == gr.nodes
             P == Preds(gr)
             r == Rem(gr, sts)
             ef == EarliestFinish(gr, sts)
  <1>1. r \in [N -> Nat]
    BY RemainingIs
  <1>2. ef \in [N -> Nat]
    BY EarliestFinishIs
  <1>3. ASSUME NEW t \in N
        PROVE  /\ r[t] <= ef[t]
               /\ \A p \in P[t] : ef[p] + r[t] <= ef[t]
               /\ ef[t] = r[t] \/ \E p \in P[t] : ef[t] = ef[p] + r[t]
    <2> DEFINE L == Largest({0} \cup {ef[p] : p \in P[t]})
    <2>1. IsFiniteSet(P[t]) /\ P[t] \subseteq N
      BY DagEdges, FS_Subset DEF Edges
    <2>2. ef[t] = r[t] + L
      BY EarliestFinishIs
    <2>3. \A p \in P[t] : ef[p] \in Nat
      BY <1>2, <2>1
    <2>4. L = Largest({0} \cup Values(ef, P[t]))
      BY DEF Values
    <2> HIDE DEF L, P, ef, r
    <2>5. /\ L \in Nat
          /\ \A p \in P[t] : ef[p] <= L
          /\ L = 0 \/ \E p \in P[t] : L = ef[p]
      BY <2>1, <2>3, <2>4, LargestOver
    <2>6. r[t] \in Nat
      BY <1>1
    <2> QED
      BY ONLY <2>2, <2>3, <2>5, <2>6
  <1> QED
    BY <1>1, <1>2, <1>3 DEF Forward

LEMMA EndsHolds ==
  ASSUME NEW gr, Dag(gr), NEW sts \in Statuses
  PROVE  Ends(gr.nodes, EarliestFinish(gr, sts), ProjectEnd(gr, sts))
  <1> DEFINE N == gr.nodes
             ef == EarliestFinish(gr, sts)
             L == ProjectEnd(gr, sts)
  <1>1. IsFiniteSet(N) /\ \A t \in N : ef[t] \in Nat
    BY DagEdges, EarliestFinishIs DEF Edges
  <1>2. L = Largest({0} \cup Values(ef, N))
    BY DEF ProjectEnd, Values
  <1> HIDE DEF N, ef, L
  <1>3. /\ L \in Nat
        /\ \A p \in N : ef[p] <= L
        /\ L = 0 \/ \E p \in N : L = ef[p]
    BY ONLY <1>1, <1>2, LargestOver
  <1>4. Ends(N, ef, L)
    BY <1>3 DEF Ends
  <1> QED
    BY <1>4 DEF N, ef, L

\* The backward pass: LatestStart solves its recursion, in integers.
LEMMA LatestStartIs ==
  ASSUME NEW gr, Dag(gr), NEW sts \in Statuses
  PROVE  /\ LatestStart(gr, sts) \in [gr.nodes -> Int]
         /\ \A t \in gr.nodes :
               LatestStart(gr, sts)[t] =
                  (IF Succs(gr)[t] = {} THEN ProjectEnd(gr, sts)
                   ELSE Smallest({LatestStart(gr, sts)[s] : s \in Succs(gr)[t]}))
                  - Rem(gr, sts)[t]
  <1> DEFINE N == gr.nodes
             Q == Succs(gr)
             r == Rem(gr, sts)
             end == ProjectEnd(gr, sts)
             ls == LatestStart(gr, sts)
             V == Int
             Due(h, t) == IF Q[t] = {} THEN end ELSE Smallest({h[s] : s \in Q[t]})
             F == [t \in N |-> [h \in [N -> V] |-> Due(h, t) - r[t]]]
             E(f) == [t \in N |->
                        (IF successors(gr, t) = {} THEN end
                         ELSE Smallest({f[s] : s \in successors(gr, t)}))
                        - Remaining(gr, sts, t)]
  <1>1. Edges(N, Preds(gr), Q)
    BY DagEdges
  <1>2. r \in [N -> Nat] /\ \A t \in N : r[t] = Remaining(gr, sts, t)
    BY RemainingIs
  <1>3. \A t \in N : Q[t] = successors(gr, t)
    BY DEF Succs
  <1>4. ASSUME NEW t \in N
        PROVE  IsFiniteSet(Q[t]) /\ Q[t] \in SUBSET N
    BY <1>1, FS_Subset DEF Edges
  <1>5. end \in Nat
    BY EndsHolds DEF Ends
  <1>6. ASSUME NEW t \in N, NEW h, \A s \in Q[t] : h[s] \in Int
        PROVE  Due(h, t) \in Int
    <2>1. CASE Q[t] = {}
      BY <1>5, <2>1
    <2>2. CASE Q[t] # {}
      <3> DEFINE L == Smallest({h[s] : s \in Q[t]})
      <3>1. L \in Int
        <4> HIDE DEF L
        <4>1. L = Smallest(Values(h, Q[t]))
          BY DEF L, Values
        <4> HIDE DEF Q
        <4> QED
          BY <1>4, <1>6, <2>2, <4>1, SmallestOver
      <3> QED
        BY <2>2, <3>1
    <2> QED
      BY <2>1, <2>2
  <1>7. ASSUME NEW t \in N, NEW h \in [N -> V]
        PROVE  F[t][h] \in V /\ F[t][h] = Due(h, t) - r[t]
    <2>1. \A s \in Q[t] : h[s] \in Int
      BY <1>4
    <2>2. Due(h, t) \in Int
      BY <1>6, <2>1
    <2>3. F[t][h] = Due(h, t) - r[t]
      OBVIOUS
    <2> HIDE DEF Due
    <2> QED
      BY <1>2, <2>2, <2>3
  <1>8. F \in [N -> [[N -> V] -> V]]
    <2>1. \A t \in N : F[t] = [h \in [N -> V] |-> F[t][h]]
      OBVIOUS
    <2>2. F = [t \in N |-> F[t]]
      OBVIOUS
    <2> HIDE DEF F, N, V
    <2>3. \A t \in N : F[t] \in [[N -> V] -> V]
      BY <1>7, <2>1
    <2> QED
      BY <2>2, <2>3
  <1>9. ASSUME NEW t \in N, NEW h \in [N -> V], NEW k \in [N -> V],
               \A u \in Q[t] \cap N : h[u] = k[u]
        PROVE  F[t][h] = F[t][k]
    <2>1. {h[s] : s \in Q[t]} = {k[s] : s \in Q[t]}
      BY <1>4, <1>9
    <2>2. Due(h, t) = Due(k, t)
      BY <2>1
    <2> HIDE DEF F, Due, r
    <2> QED
      BY <1>7, <2>2
  <1>10. PICK f \in [N -> V] : \A t \in N : f[t] = F[t][f]
    <2>1. IsFiniteSet(N) /\ Founded(N, Q)
      BY <1>1 DEF Edges
    <2>2. V # {}
      OBVIOUS
    <2> HIDE DEF F, N, V, Q, r
    <2>3. \A t \in N : \A h, k \in [N -> V] :
             (\A u \in Q[t] \cap N : h[u] = k[u]) => F[t][h] = F[t][k]
      BY <1>9
    <2>4. Recurrence(N, Q, V, F)
      BY <1>8, <2>1, <2>2, <2>3 DEF Recurrence
    <2> QED
      BY <2>4, Recursion
  <1>11. f = E(f)
    <2>1. ASSUME NEW t \in N
          PROVE  f[t] = E(f)[t]
      <3>1. f[t] = Due(f, t) - r[t]
        BY <1>7, <1>10
      <3> QED
        BY <1>2, <1>3, <3>1
    <2>2. f = [t \in N |-> f[t]]
      OBVIOUS
    <2> QED
      BY <2>1, <2>2
  <1>12. ls = E(ls)
    BY <1>11 DEF LatestStart
  <1>13. \A t \in N : ls[t] = Due(ls, t) - r[t]
    BY <1>2, <1>3, <1>12
  <1>14. DOMAIN ls = N
    BY <1>12
  <1> DEFINE G == {t \in N : ls[t] \in Int}
  <1>15. ASSUME NEW t \in N, (Q[t] \cap N) \subseteq G
         PROVE  t \in G
    <2>1. \A s \in Q[t] : ls[s] \in Int
      BY <1>4, <1>15
    <2>2. Due(ls, t) \in Int
      BY <1>6, <2>1
    <2>3. ls[t] = Due(ls, t) - r[t]
      BY <1>13
    <2> HIDE DEF Due, ls
    <2> QED
      BY <1>2, <2>2, <2>3
  <1>16. N \subseteq G
    <2>1. Founded(N, Q)
      BY <1>1 DEF Edges
    <2> HIDE DEF G, Q, N
    <2> QED
      BY <1>15, <2>1, Induct
  <1>17. ls = [t \in N |-> ls[t]]
    BY <1>12, <1>14
  <1>18. ls \in [N -> Int]
    BY <1>16, <1>17
  <1> QED
    BY <1>13, <1>18

LEMMA BackwardHolds ==
  ASSUME NEW gr, Dag(gr), NEW sts \in Statuses
  PROVE  Backward(gr.nodes, Succs(gr), Rem(gr, sts), LatestStart(gr, sts), ProjectEnd(gr, sts))
  <1> DEFINE N == gr.nodes
             Q == Succs(gr)
             r == Rem(gr, sts)
             ls == LatestStart(gr, sts)
             end == ProjectEnd(gr, sts)
  <1>1. r \in [N -> Nat]
    BY RemainingIs
  <1>2. ls \in [N -> Int]
    BY LatestStartIs
  <1>3. end \in Nat
    BY EndsHolds DEF Ends
  <1>4. ASSUME NEW t \in N
        PROVE  /\ Q[t] = {} => ls[t] + r[t] = end
               /\ \A s \in Q[t] : ls[t] + r[t] <= ls[s]
               /\ Q[t] # {} => \E s \in Q[t] : ls[t] + r[t] = ls[s]
    <2> DEFINE L == Smallest({ls[s] : s \in Q[t]})
    <2>1. IsFiniteSet(Q[t]) /\ Q[t] \subseteq N
      BY DagEdges, FS_Subset DEF Edges
    <2>2. ls[t] = (IF Q[t] = {} THEN end ELSE L) - r[t]
      BY LatestStartIs
    <2>3. \A s \in Q[t] : ls[s] \in Int
      BY <1>2, <2>1
    <2>4. L = Smallest(Values(ls, Q[t]))
      BY DEF Values
    <2> HIDE DEF L, Q, ls, r, end
    <2>5. r[t] \in Nat
      BY <1>1
    <2>6. CASE Q[t] = {}
      BY ONLY <1>3, <2>2, <2>5, <2>6
    <2>7. CASE Q[t] # {}
      <3>1. /\ L \in Int
            /\ \A s \in Q[t] : L <= ls[s]
            /\ \E s \in Q[t] : L = ls[s]
        BY <2>1, <2>3, <2>4, <2>7, SmallestOver
      <3>2. ls[t] + r[t] = L
        BY ONLY <2>2, <2>5, <2>7, <3>1
      <3> QED
        BY ONLY <2>7, <3>1, <3>2
    <2> QED
      BY <2>6, <2>7
  <1> QED
    BY <1>2, <1>4 DEF Backward

LEMMA ScheduleHolds ==
  ASSUME NEW gr, Dag(gr), NEW sts \in Statuses
  PROVE  Schedule(gr.nodes, Preds(gr), Succs(gr), Rem(gr, sts), EarliestFinish(gr, sts),
                  LatestStart(gr, sts), ProjectEnd(gr, sts))
  BY DagEdges, ForwardHolds, EndsHolds, BackwardHolds DEF Schedule

\* The tasks of CriticalTasks are those without slack.
LEMMA CriticalTasksIs ==
  ASSUME NEW gr, Dag(gr), NEW sts \in Statuses
  PROVE  CriticalTasks(gr, sts) =
            {t \in gr.nodes : Tight(t, Rem(gr, sts), EarliestFinish(gr, sts), LatestStart(gr, sts))}
  <1>1. ASSUME NEW t \in gr.nodes
        PROVE  LatestStart(gr, sts)[t] = EarliestStart(gr, sts)[t]
                 <=> Tight(t, Rem(gr, sts), EarliestFinish(gr, sts), LatestStart(gr, sts))
    <2>1. EarliestStart(gr, sts)[t] = EarliestFinish(gr, sts)[t] - Rem(gr, sts)[t]
      BY RemainingIs DEF EarliestStart
    <2>2. /\ EarliestFinish(gr, sts)[t] \in Nat
          /\ LatestStart(gr, sts)[t] \in Int
          /\ Rem(gr, sts)[t] \in Nat
      BY EarliestFinishIs, LatestStartIs, RemainingIs
    <2> QED
      BY <2>1, <2>2 DEF Tight
  <1> QED
    BY <1>1 DEF CriticalTasks

-----------------------------------------------------------------------------
(* The walk of reconstruct_path *)

LEMMA IdsAreNumbers ==
  ASSUME NEW S, S \subseteq Tasks
  PROVE  S \subseteq Int
  BY TasksAssumption

LEMMA OneIsSeq ==
  ASSUME NEW S, NEW t \in S
  PROVE  <<t>> \in Seq(S)
  OBVIOUS

LEMMA LastToFinishIs ==
  ASSUME NEW S, IsFiniteSet(S), S \subseteq Int, S # {}, NEW ef, \A t \in S : ef[t] \in Int
  PROVE  LastToFinish(ef, S) \in S
  <1> DEFINE I == {ef[t] : t \in S}
  <1>1. IsFiniteSet(I) /\ I \subseteq Int /\ I # {}
    BY FiniteImage
  <1>2. PICK m \in I : \A y \in I : y <= m
    <2> HIDE DEF I
    <2> QED
      BY <1>1, FiniteMax
  <1> DEFINE A == {t \in S : ef[t] = m}
  <1>3. IsFiniteSet(A) /\ A \subseteq Int /\ A # {}
    BY FS_Subset
  <1>4. PICK a \in A : \A y \in A : y <= a
    <2> HIDE DEF A
    <2> QED
      BY <1>3, FiniteMax
  <1>5. ASSUME NEW u \in S
        PROVE  ef[u] < ef[a] \/ (ef[u] = ef[a] /\ u <= a)
    <2>1. ef[a] = m /\ ef[u] <= m /\ ef[u] \in Int /\ m \in Int
      BY <1>1, <1>2
    <2>2. CASE ef[u] = m
      BY <1>4, <2>1, <2>2
    <2>3. CASE ef[u] # m
      BY <2>1, <2>3
    <2> QED
      BY <2>2, <2>3
  <1>6. \E t \in S : \A u \in S : ef[u] < ef[t] \/ (ef[u] = ef[t] /\ u <= t)
    BY <1>5
  <1> QED
    BY <1>6 DEF LastToFinish

\* Of some tasks one is preferred to all; it starts at end if any of them does.
LEMMA MostPreferredIs ==
  ASSUME NEW S, IsFiniteSet(S), S \subseteq Int, S # {}, NEW es, NEW ef, NEW end,
         \A t \in S : ef[t] \in Int
  PROVE  LET c == MostPreferred(es, ef, end, S)
         IN  c \in S /\ ((\E b \in S : es[b] = end) => es[c] = end)
  <1> DEFINE c == MostPreferred(es, ef, end, S)
  <1> DEFINE T == {t \in S : es[t] = end}
  <1>1. PICK A \in SUBSET S : /\ A # {}
                              /\ T # {} => A = T
                              /\ T = {} => A = S
    <2>1. CASE T = {}
      BY <2>1
    <2>2. CASE T # {}
      <3>1. T \in SUBSET S
        OBVIOUS
      <3> QED
        BY <2>2, <3>1
    <2> QED
      BY <2>1, <2>2
  <1> DEFINE I == {ef[t] : t \in A}
  <1>2. IsFiniteSet(I) /\ I \subseteq Int /\ I # {}
    <2>1. IsFiniteSet(A)
      BY FS_Subset
    <2>2. IsFiniteSet(I)
      BY ONLY <2>1, FiniteImage
    <2>3. I \subseteq Int /\ I # {}
      BY <1>1
    <2> QED
      BY <2>2, <2>3
  <1>3. PICK m \in I : \A y \in I : y <= m
    <2> HIDE DEF I
    <2> QED
      BY <1>2, FiniteMax
  <1> DEFINE B == {t \in A : ef[t] = m}
  <1>4. IsFiniteSet(B) /\ B \subseteq Int /\ B # {}
    <2>1. B \in SUBSET S
      OBVIOUS
    <2>2. IsFiniteSet(B)
      <3> HIDE DEF B
      <3> QED
        BY <2>1, FS_Subset
    <2> QED
      BY <2>1, <2>2
  <1>5. PICK a \in B : \A y \in B : a <= y
    <2> HIDE DEF B
    <2> QED
      BY <1>4, FiniteMin
  <1>6. a \in S /\ a \in A
    OBVIOUS
  <1>7. ASSUME NEW b \in S
        PROVE  Preferred(es, ef, end, a, b)
    <2>1. CASE b \notin A
      <3>1. es[a] = end /\ es[b] # end
        BY <1>1, <1>6, <2>1
      <3> QED
        BY <3>1 DEF Preferred
    <2>2. CASE b \in A
      <3>1. (es[a] = end) = (es[b] = end)
        BY <1>1, <1>6, <2>2
      <3>2. ef[a] = m /\ ef[b] <= m /\ ef[b] \in Int /\ m \in Int
        BY <1>2, <1>3, <2>2
      <3>3. CASE ef[b] = m
        <4>1. a <= b
          BY <1>5, <2>2, <3>3
        <4>2. ef[b] = ef[a]
          BY <3>2, <3>3
        <4> QED
          BY <3>1, <4>1, <4>2 DEF Preferred
      <3>4. CASE ef[b] # m
        <4>1. ef[b] < ef[a]
          BY <3>2, <3>4
        <4> QED
          BY <3>1, <4>1 DEF Preferred
      <3> QED
        BY <3>3, <3>4
    <2> QED
      BY <2>1, <2>2
  <1>8. c \in S /\ \A b \in S : Preferred(es, ef, end, c, b)
    <2>1. \E x \in S : \A b \in S : Preferred(es, ef, end, x, b)
      BY <1>6, <1>7
    <2> QED
      BY <2>1 DEF MostPreferred
  <1>9. ASSUME NEW b \in S, es[b] = end
        PROVE  es[c] = end
    <2>1. Preferred(es, ef, end, c, b)
      BY <1>8
    <2> QED
      BY <1>9, <2>1 DEF Preferred
  <1> QED
    BY <1>8, <1>9

\* The task the walk goes to from t.
Onward(gr, sts, t) ==
    MostPreferred(EarliestStart(gr, sts), EarliestFinish(gr, sts), EarliestFinish(gr, sts)[t],
                  successors(gr, t) \cap CriticalTasks(gr, sts))

LEMMA OnwardIs ==
  ASSUME NEW gr, Dag(gr), NEW sts \in Statuses, NEW t \in gr.nodes,
         successors(gr, t) \cap CriticalTasks(gr, sts) # {}
  PROVE  /\ Onward(gr, sts, t) \in successors(gr, t) \cap CriticalTasks(gr, sts)
         /\ (\E b \in successors(gr, t) \cap CriticalTasks(gr, sts) :
                EarliestStart(gr, sts)[b] = EarliestFinish(gr, sts)[t])
              => EarliestStart(gr, sts)[Onward(gr, sts, t)] = EarliestFinish(gr, sts)[t]
  <1> DEFINE S == successors(gr, t) \cap CriticalTasks(gr, sts)
  <1>1. S \in SUBSET gr.nodes
    BY DEF successors
  <1>2. gr.nodes \subseteq Int
    BY IdsAreNumbers DEF Dag
  <1>3. \A u \in gr.nodes : EarliestFinish(gr, sts)[u] \in Int
    BY EarliestFinishIs
  <1>4. IsFiniteSet(gr.nodes)
    BY DagEdges DEF Edges
  <1>5. Onward(gr, sts, t) = MostPreferred(EarliestStart(gr, sts), EarliestFinish(gr, sts),
                                           EarliestFinish(gr, sts)[t], S)
    BY DEF Onward
  <1>6. S # {}
    OBVIOUS
  <1> HIDE DEF S
  <1>7. IsFiniteSet(S) /\ S \subseteq Int /\ \A u \in S : EarliestFinish(gr, sts)[u] \in Int
    BY <1>1, <1>2, <1>3, <1>4, FS_Subset
  <1> DEFINE es  == EarliestStart(gr, sts)
             ef  == EarliestFinish(gr, sts)
             end == ef[t]
             c   == Onward(gr, sts, t)
  <1>8. c = MostPreferred(es, ef, end, S) /\ \A u \in S : ef[u] \in Int
    BY <1>5, <1>7
  <1> HIDE DEF es, ef, end, c
  <1>9. c \in S /\ ((\E b \in S : es[b] = end) => es[c] = end)
    BY ONLY <1>6, <1>7, <1>8, MostPreferredIs
  <1> QED
    BY <1>9 DEF S, es, ef, end, c

LEMMA CriticalWalkIs ==
  ASSUME NEW gr, Dag(gr), NEW sts \in Statuses
  PROVE  \A t \in gr.nodes :
            critical_walk(gr, sts)[t] =
               IF successors(gr, t) \cap CriticalTasks(gr, sts) = {} THEN <<t>>
               ELSE <<t>> \o critical_walk(gr, sts)[Onward(gr, sts, t)]
  <1> DEFINE N == gr.nodes
             Q == Succs(gr)
             C(t) == successors(gr, t) \cap CriticalTasks(gr, sts)
             w == critical_walk(gr, sts)
             V == Seq(N)
             Step(h, t) == IF C(t) = {} THEN <<t>> ELSE <<t>> \o h[Onward(gr, sts, t)]
             F == [t \in N |-> [h \in [N -> V] |-> Step(h, t)]]
             E(f) == [t \in N |->
                        IF C(t) = {} THEN <<t>>
                        ELSE <<t>> \o f[MostPreferred(EarliestStart(gr, sts),
                                                      EarliestFinish(gr, sts),
                                                      EarliestFinish(gr, sts)[t], C(t))]]
  <1>1. IsFiniteSet(N) /\ Founded(N, Q)
    BY DagEdges DEF Edges
  <1>2. ASSUME NEW t \in N, C(t) # {}
        PROVE  Onward(gr, sts, t) \in Q[t] /\ Onward(gr, sts, t) \in N
    <2>1. Onward(gr, sts, t) \in successors(gr, t)
      BY <1>2, OnwardIs
    <2> QED
      BY <2>1 DEF Succs, successors
  <1>3. ASSUME NEW t \in N, NEW h \in [N -> V]
        PROVE  F[t][h] \in V /\ F[t][h] = Step(h, t)
    <2>1. F[t][h] = Step(h, t)
      OBVIOUS
    <2>2. <<t>> \in Seq(N)
      BY OneIsSeq
    <2>3. Step(h, t) \in Seq(N)
      <3>1. CASE C(t) = {}
        BY <2>2, <3>1
      <3>2. CASE C(t) # {}
        <4>1. h[Onward(gr, sts, t)] \in Seq(N)
          BY <1>2, <3>2
        <4>2. Step(h, t) = <<t>> \o h[Onward(gr, sts, t)]
          BY <3>2
        <4> HIDE DEF Step, N
        <4> QED
          BY <2>2, <4>1, <4>2
      <3> QED
        BY <3>1, <3>2
    <2> HIDE DEF F, Step
    <2> QED
      BY <2>1, <2>3
  <1>4. F \in [N -> [[N -> V] -> V]]
    <2>1. \A t \in N : F[t] = [h \in [N -> V] |-> F[t][h]]
      OBVIOUS
    <2>2. F = [t \in N |-> F[t]]
      OBVIOUS
    <2> HIDE DEF F, N, V
    <2>3. \A t \in N : F[t] \in [[N -> V] -> V]
      BY <1>3, <2>1
    <2> QED
      BY <2>2, <2>3
  <1>5. ASSUME NEW t \in N, NEW h \in [N -> V], NEW k \in [N -> V],
               \A u \in Q[t] \cap N : h[u] = k[u]
        PROVE  F[t][h] = F[t][k]
    <2>1. Step(h, t) = Step(k, t)
      BY <1>2, <1>5
    <2> HIDE DEF F, Step
    <2> QED
      BY <1>3, <2>1
  <1>6. PICK f \in [N -> V] : \A t \in N : f[t] = F[t][f]
    <2>1. V # {}
      <3>1. << >> \in V
        OBVIOUS
      <3> QED
        BY <3>1
    <2> HIDE DEF F, N, V, Q
    <2>2. \A t \in N : \A h, k \in [N -> V] :
             (\A u \in Q[t] \cap N : h[u] = k[u]) => F[t][h] = F[t][k]
      BY <1>5
    <2>3. Recurrence(N, Q, V, F)
      BY <1>1, <1>4, <2>1, <2>2 DEF Recurrence
    <2> QED
      BY <2>3, Recursion
  <1>7. f = E(f)
    <2>1. ASSUME NEW t \in N
          PROVE  f[t] = E(f)[t]
      <3>1. f[t] = Step(f, t)
        BY <1>3, <1>6
      <3> QED
        BY <3>1 DEF Onward
    <2>2. f = [t \in N |-> f[t]]
      OBVIOUS
    <2>3. E(f) = [t \in N |-> E(f)[t]]
      OBVIOUS
    <2> HIDE DEF E
    <2> QED
      BY <2>1, <2>2, <2>3
  <1>8. w = E(w)
    BY <1>7 DEF critical_walk
  <1>9. ASSUME NEW t \in N
        PROVE  w[t] = Step(w, t)
    BY <1>8 DEF Onward
  <1> QED
    BY <1>9

\* What the path of the code is: from a task nothing precedes to one nothing follows, each
\* task starting as soon as the one before it is finished.
Whole(gr, sts, s) ==
    /\ Runs(gr.nodes, Preds(gr), s)
    /\ Snug(s, Rem(gr, sts), EarliestFinish(gr, sts))
    /\ Succs(gr)[s[Len(s)]] = {}
    /\ EarliestFinish(gr, sts)[s[Len(s)]] = ProjectEnd(gr, sts)

LEMMA CriticalWalkIsWhole ==
  ASSUME NEW gr, Dag(gr), NEW sts \in Statuses
  PROVE  \A t \in CriticalTasks(gr, sts) :
            /\ Whole(gr, sts, critical_walk(gr, sts)[t])
            /\ critical_walk(gr, sts)[t][1] = t
  <1> DEFINE N == gr.nodes
             P == Preds(gr)
             Q == Succs(gr)
             r == Rem(gr, sts)
             ef == EarliestFinish(gr, sts)
             ls == LatestStart(gr, sts)
             end == ProjectEnd(gr, sts)
             w == critical_walk(gr, sts)
             crit == CriticalTasks(gr, sts)
             G == {t \in N : t \in crit => Whole(gr, sts, w[t]) /\ w[t][1] = t}
  <1>1. Schedule(N, P, Q, r, ef, ls, end)
    BY ScheduleHolds
  <1>2. crit = {t \in N : Tight(t, r, ef, ls)}
    BY CriticalTasksIs
  <1>3. \A t \in N : Q[t] = successors(gr, t)
    BY DEF Succs
  <1>4. \A t \in N : EarliestStart(gr, sts)[t] = ef[t] - r[t] /\ ef[t] \in Nat /\ r[t] \in Nat
    BY EarliestFinishIs, RemainingIs DEF EarliestStart
  <1>5. ASSUME NEW t \in N, (Q[t] \cap N) \subseteq G
        PROVE  t \in G
    <2>1. SUFFICES ASSUME t \in crit PROVE Whole(gr, sts, w[t]) /\ w[t][1] = t
      OBVIOUS
    <2>2. Tight(t, r, ef, ls)
      BY <1>2, <2>1
    <2> HIDE DEF P, r, ef, ls, end, w, crit, N
    <2>3. /\ Q[t] = {} => ef[t] = end
          /\ Q[t] # {} => \E s \in Q[t] : Tight(s, r, ef, ls) /\ ef[s] = ef[t] + r[s]
      <3> HIDE DEF Q, N
      <3> QED
        BY <1>1, <2>2, CriticalNext
    <2>4. \A s \in Q[t] : s \in N /\ t \in P[s]
      BY <1>1 DEF Schedule, Edges
    <2>5. CASE Q[t] \cap crit = {}
      <3>1. Q[t] = {}
        BY <1>2, <2>3, <2>4, <2>5
      <3>2. w[t] = <<t>>
        BY <1>3, <2>5, CriticalWalkIs DEF w, crit, N
      <3>3. Runs(N, P, w[t]) /\ Snug(w[t], r, ef) /\ Len(w[t]) = 1 /\ w[t][1] = t
        BY <3>2 DEF Runs, Snug
      <3>4. ef[w[t][Len(w[t])]] = end
        BY <2>3, <3>1, <3>3
      <3> QED
        BY <3>1, <3>3, <3>4 DEF Whole, P, r, ef, end, N
    <2>6. CASE Q[t] \cap crit # {}
      <3> DEFINE a == Onward(gr, sts, t)
      <3>1. w[t] = <<t>> \o w[a]
        BY <1>3, <2>6, CriticalWalkIs DEF w, crit, N
      <3>2. PICK s \in Q[t] \cap crit : ef[s] = ef[t] + r[s]
        BY <1>2, <2>3, <2>4, <2>6
      <3>3. EarliestStart(gr, sts)[s] = ef[t]
        BY <1>4, <2>4, <3>2 DEF r, ef, N
      <3>4. a \in Q[t] \cap crit /\ EarliestStart(gr, sts)[a] = ef[t]
        BY <1>3, <2>6, <3>2, <3>3, OnwardIs DEF crit, ef, N
      <3>5. a \in N /\ t \in P[a]
        BY <2>4, <3>4
      <3>6. ef[a] = ef[t] + r[a]
        BY <1>4, <3>4, <3>5 DEF r, ef, N
      <3>7. Whole(gr, sts, w[a]) /\ w[a][1] = a
        BY <1>5, <3>4, <3>5
      <3>8. Runs(N, P, w[a]) /\ Snug(w[a], r, ef) /\ Q[w[a][Len(w[a])]] = {}
              /\ ef[w[a][Len(w[a])]] = end
        BY <3>7 DEF Whole, P, r, ef, end, N
      <3> HIDE DEF a
      <3>9. t \in P[w[a][1]] /\ ef[w[a][1]] = ef[t] + r[w[a][1]]
        BY <3>5, <3>6, <3>7
      <3>10. /\ Runs(N, P, w[t]) /\ Snug(w[t], r, ef)
            /\ w[t][1] = t /\ w[t][Len(w[t])] = w[a][Len(w[a])]
        <4> DEFINE s1 == w[a]
                   c1 == w[t]
        <4>1. /\ Runs(N, P, s1) /\ Snug(s1, r, ef)
              /\ t \in P[s1[1]] /\ ef[s1[1]] = ef[t] + r[s1[1]]
              /\ c1 = <<t>> \o s1
          BY <3>1, <3>8, <3>9
        <4> HIDE DEF s1, c1
        <4>2. /\ Runs(N, P, c1) /\ Snug(c1, r, ef)
              /\ c1[1] = t /\ c1[Len(c1)] = s1[Len(s1)]
          BY ONLY t \in N, <4>1, Longer
        <4> QED
          BY <4>2 DEF s1, c1
      <3> QED
        BY <3>8, <3>10 DEF Whole, P, r, ef, end, N
    <2> QED
      BY <2>5, <2>6
  <1>6. N \subseteq G
    <2>1. Founded(N, Q)
      BY <1>1 DEF Schedule, Edges
    <2> HIDE DEF G, Q, N
    <2> QED
      BY <1>5, <2>1, Induct
  <1>7. \A t \in crit : t \in N
    BY <1>2
  <1> QED
    BY <1>6, <1>7

\* The path of the code is the walk from a critical task, from one that depends on nothing if
\* there is one.
LEMMA PathStarts ==
  ASSUME NEW gr, Dag(gr), gr.nodes # {}, NEW sts \in Statuses
  PROVE  \E t \in CriticalTasks(gr, sts) :
            /\ reconstruct_path(gr, sts) = critical_walk(gr, sts)[t]
            /\ (\E u \in CriticalTasks(gr, sts) : predecessors(gr, u) = {})
                  => predecessors(gr, t) = {}
  <1> DEFINE crit == CriticalTasks(gr, sts)
             ef == EarliestFinish(gr, sts)
             sources == {t \in crit : predecessors(gr, t) = {}}
  <1>1. crit = {t \in gr.nodes : Tight(t, Rem(gr, sts), ef, LatestStart(gr, sts))}
    BY CriticalTasksIs
  <1>2. crit # {}
    BY <1>1, ScheduleHolds, CriticalSource
  <1>3. ASSUME NEW S \in SUBSET crit, S # {}
        PROVE  LastToFinish(ef, S) \in S
    <2>1. IsFiniteSet(gr.nodes) /\ S \in SUBSET gr.nodes
      BY <1>1, DagEdges DEF Edges
    <2>2. gr.nodes \subseteq Int
      BY IdsAreNumbers DEF Dag
    <2>3. \A t \in gr.nodes : ef[t] \in Int
      BY EarliestFinishIs
    <2> HIDE DEF crit, ef
    <2>4. IsFiniteSet(S) /\ S \subseteq Int /\ \A t \in S : ef[t] \in Int
      BY <2>1, <2>2, <2>3, FS_Subset
    <2> QED
      BY <1>3, <2>4, LastToFinishIs
  <1>4. CASE sources # {}
    <2> DEFINE start == LastToFinish(ef, sources)
    <2>1. sources \in SUBSET crit
      OBVIOUS
    <2>2. start \in sources
      BY <1>3, <1>4, <2>1
    <2>3. reconstruct_path(gr, sts) = critical_walk(gr, sts)[start]
      BY <1>4 DEF reconstruct_path
    <2> HIDE DEF start
    <2> QED
      BY <2>2, <2>3
  <1>5. CASE sources = {}
    <2> DEFINE start == LastToFinish(ef, crit)
    <2>1. start \in crit
      BY <1>2, <1>3
    <2>2. reconstruct_path(gr, sts) = critical_walk(gr, sts)[start]
      BY <1>2, <1>5 DEF reconstruct_path
    <2>3. ~\E u \in crit : predecessors(gr, u) = {}
      BY <1>5
    <2> HIDE DEF start
    <2> QED
      BY <2>1, <2>2, <2>3
  <1> QED
    BY <1>4, <1>5

LEMMA PathIsWhole ==
  ASSUME NEW gr, Dag(gr), Closed(gr), gr.nodes # {}, NEW sts \in Statuses
  PROVE  /\ Whole(gr, sts, reconstruct_path(gr, sts))
         /\ Preds(gr)[reconstruct_path(gr, sts)[1]] = {}
  <1>1. \A t \in gr.nodes : Preds(gr)[t] = predecessors(gr, t)
    BY DEF Preds, Closed, predecessors
  <1>2. \A t : t \in CriticalTasks(gr, sts) <=>
                 t \in gr.nodes /\ Tight(t, Rem(gr, sts), EarliestFinish(gr, sts),
                                          LatestStart(gr, sts))
    BY CriticalTasksIs
  <1>3. \E u \in CriticalTasks(gr, sts) : predecessors(gr, u) = {}
    BY <1>1, <1>2, ScheduleHolds, CriticalSource
  <1>4. PICK t \in CriticalTasks(gr, sts) :
               /\ reconstruct_path(gr, sts) = critical_walk(gr, sts)[t]
               /\ predecessors(gr, t) = {}
    BY <1>3, PathStarts
  <1> QED
    BY <1>1, <1>2, <1>4, CriticalWalkIsWhole

-----------------------------------------------------------------------------
(* Chains, as the properties define them *)

LEMMA ChainsAre ==
  ASSUME NEW gr, Dag(gr), NEW s
  PROVE  s \in Chains(gr) <=> /\ Runs(gr.nodes, Preds(gr), s)
                              /\ Preds(gr)[s[1]] = {}
                              /\ Succs(gr)[s[Len(s)]] = {}
  <1> DEFINE N == gr.nodes
             P == Preds(gr)
             Q == Succs(gr)
             k == Cardinality(N)
  <1>1. IsFiniteSet(N) /\ Founded(N, P)
    BY DagEdges DEF Edges
  <1>2. \A t \in N : P[t] = predecessors(gr, t) \cap N /\ Q[t] = successors(gr, t)
    BY DEF Preds, Succs
  <1>3. k \in Nat
    BY <1>1, FS_CardinalityType
  <1>4. ASSUME s \in Chains(gr)
        PROVE  Runs(N, P, s) /\ P[s[1]] = {} /\ Q[s[Len(s)]] = {}
    <2> HIDE DEF N, P, Q, k
    <2>1. IsChain(gr, s) /\ \E n \in 1..k : s \in [1..n -> N]
      BY <1>4 DEF Chains, N, k
    <2>2. PICK n \in 1..k : s \in [1..n -> N]
      BY <2>1
    <2>3. s \in Seq(N) /\ Len(s) = n /\ n \in Nat /\ n >= 1
      BY <1>3, <2>2
    <2>4. \A i \in 1..n : s[i] \in N
      BY <2>2
    <2>5. ASSUME NEW i \in 1..(n - 1)
          PROVE  s[i] \in P[s[i + 1]]
      <3>1. i \in 1..n /\ i + 1 \in 1..n
        BY <2>3
      <3>2. s[i] \in predecessors(gr, s[i + 1])
        BY <2>1, <2>3 DEF IsChain
      <3> QED
        BY <1>2, <2>4, <3>1, <3>2
    <2>6. P[s[1]] = {} /\ Q[s[Len(s)]] = {}
      <3>1. s[1] \in N /\ s[Len(s)] \in N
        BY <2>3, <2>4
      <3>2. predecessors(gr, s[1]) \cap N = {} /\ successors(gr, s[Len(s)]) = {}
        BY <2>1 DEF IsChain, N
      <3> QED
        BY <1>2, <3>1, <3>2
    <2> QED
      BY <2>3, <2>5, <2>6 DEF Runs
  <1>5. ASSUME Runs(N, P, s), P[s[1]] = {}, Q[s[Len(s)]] = {}
        PROVE  s \in Chains(gr)
    <2> HIDE DEF N, P, Q, k
    <2>1. Len(s) \in 1..k
      BY <1>1, <1>5, RunsIsShort DEF k
    <2>2. /\ s \in Seq(N) /\ Len(s) \in Nat /\ Len(s) >= 1
          /\ s \in [1..Len(s) -> N]
          /\ \A i \in 1..(Len(s) - 1) : s[i] \in P[s[i + 1]]
      <3>1. /\ s \in Seq(N) /\ Len(s) >= 1
            /\ \A i \in 1..(Len(s) - 1) : s[i] \in P[s[i + 1]]
        BY <1>5 DEF Runs, N, P
      <3>2. s \in [1..Len(s) -> N] /\ Len(s) \in Nat
        BY ONLY <3>1
      <3> QED
        BY <3>1, <3>2
    <2>3. ASSUME NEW i \in 1..(Len(s) - 1)
          PROVE  s[i] \in predecessors(gr, s[i + 1])
      <3>1. s[i + 1] \in N
        BY <2>2
      <3> QED
        BY <1>2, <2>2, <3>1
    <2>4. predecessors(gr, s[1]) \cap N = {} /\ successors(gr, s[Len(s)]) = {}
      <3>1. s[1] \in N /\ s[Len(s)] \in N
        BY <2>2
      <3> QED
        BY <1>2, <1>5, <3>1
    <2>5. IsChain(gr, s)
      BY <2>3, <2>4 DEF IsChain, N
    <2>6. s \in UNION {[1..n -> N] : n \in 1..k}
      BY <2>1, <2>2
    <2> QED
      BY <2>5, <2>6 DEF Chains, N, k
  <1> QED
    BY <1>4, <1>5

\* Length adds up the remaining durations.
LEMMA LengthIs ==
  ASSUME NEW gr, Dag(gr), NEW sts \in Statuses, NEW s \in Seq(gr.nodes)
  PROVE  \E sum : Sums(s, Rem(gr, sts), sum) /\ Length(gr, sts, s) = sum[Len(s)]
  <1> DEFINE N == gr.nodes
             r == Rem(gr, sts)
             n == Len(s)
             S == 0..n
             B == [i \in S |-> {i - 1}]
             V == Int
             F == [i \in S |-> [h \in [S -> V] |-> IF i = 0 THEN 0 ELSE h[i - 1] + r[s[i]]]]
             E(f) == [i \in S |-> IF i = 0 THEN 0 ELSE f[i - 1] + Remaining(gr, sts, s[i])]
             sum == CHOOSE f : f = E(f)
  <1>1. n \in Nat /\ \A i \in 1..n : s[i] \in N
    <2> HIDE DEF N
    <2>1. s \in Seq(N)
      BY DEF N
    <2> QED
      BY <2>1
  <1>2. \A t \in N : r[t] \in Nat /\ r[t] = Remaining(gr, sts, t)
    BY RemainingIs
  <1>3. ASSUME NEW i \in S, i # 0
        PROVE  i - 1 \in S /\ i \in 1..n
    BY <1>1, <1>3
  <1>4. IsFiniteSet(S)
    BY <1>1, FS_Interval
  <1>5. Founded(S, B)
    <2>1. ASSUME NEW T \in (SUBSET S) \ {{}}
          PROVE  \E t \in T : B[t] \cap T = {}
      <3>1. IsFiniteSet(T) /\ T \subseteq Int /\ T # {}
        <4>1. S \subseteq Int
          BY <1>1
        <4> HIDE DEF S
        <4> QED
          BY <1>4, <4>1, FS_Subset
      <3>2. PICK t \in T : \A y \in T : t <= y
        BY <3>1, FiniteMin
      <3>3. t \in Int /\ B[t] = {t - 1}
        BY <3>1
      <3>4. t - 1 \notin T
        BY <3>2, <3>3
      <3> QED
        BY <3>3, <3>4
    <2> QED
      BY <2>1 DEF Founded
  <1>6. ASSUME NEW i \in S, NEW h \in [S -> V]
        PROVE  /\ F[i][h] \in V
               /\ F[i][h] = IF i = 0 THEN 0 ELSE h[i - 1] + r[s[i]]
    <2>1. F[i][h] = IF i = 0 THEN 0 ELSE h[i - 1] + r[s[i]]
      OBVIOUS
    <2> HIDE DEF F
    <2>2. CASE i = 0
      BY <2>1, <2>2
    <2>3. CASE i # 0
      <3>1. h[i - 1] \in Int /\ r[s[i]] \in Nat
        BY <1>1, <1>2, <1>3, <2>3
      <3> QED
        BY <2>1, <2>3, <3>1
    <2> QED
      BY <2>2, <2>3
  <1>7. F \in [S -> [[S -> V] -> V]]
    <2>1. \A i \in S : F[i] = [h \in [S -> V] |-> F[i][h]]
      OBVIOUS
    <2>2. F = [i \in S |-> F[i]]
      OBVIOUS
    <2> HIDE DEF F, S, V
    <2>3. \A i \in S : F[i] \in [[S -> V] -> V]
      BY <1>6, <2>1
    <2> QED
      BY <2>2, <2>3
  <1>8. ASSUME NEW i \in S, NEW h \in [S -> V], NEW k \in [S -> V],
               \A u \in B[i] \cap S : h[u] = k[u]
        PROVE  F[i][h] = F[i][k]
    <2>1. CASE i = 0
      BY <1>6, <2>1
    <2>2. CASE i # 0
      <3>1. h[i - 1] = k[i - 1]
        BY <1>3, <1>8, <2>2
      <3> HIDE DEF F, S
      <3> QED
        BY <1>6, <2>2, <3>1
    <2> QED
      BY <2>1, <2>2
  <1>9. PICK f \in [S -> V] : \A i \in S : f[i] = F[i][f]
    <2>1. V # {}
      OBVIOUS
    <2> HIDE DEF F, S, V, B, r
    <2>2. \A i \in S : \A h, k \in [S -> V] :
             (\A u \in B[i] \cap S : h[u] = k[u]) => F[i][h] = F[i][k]
      BY <1>8
    <2>3. Recurrence(S, B, V, F)
      BY <1>4, <1>5, <1>7, <2>1, <2>2 DEF Recurrence
    <2> QED
      BY <2>3, Recursion
  <1>10. f = E(f)
    <2>1. ASSUME NEW i \in S
          PROVE  f[i] = E(f)[i]
      <3>1. f[i] = IF i = 0 THEN 0 ELSE f[i - 1] + r[s[i]]
        BY <1>6, <1>9
      <3>2. CASE i = 0
        BY <3>1, <3>2
      <3>3. CASE i # 0
        <4>1. r[s[i]] = Remaining(gr, sts, s[i])
          BY <1>1, <1>2, <1>3, <3>3
        <4> QED
          BY <3>1, <3>3, <4>1
      <3> QED
        BY <3>2, <3>3
    <2>2. f = [i \in S |-> f[i]]
      OBVIOUS
    <2> QED
      BY <2>1, <2>2
  <1>11. sum = E(sum)
    <2> HIDE DEF E
    <2> QED
      BY <1>10
  <1>12. Length(gr, sts, s) = sum[n]
    BY DEF Length
  <1> HIDE DEF sum
  <1>13. \A i \in S : sum[i] = IF i = 0 THEN 0 ELSE sum[i - 1] + r[s[i]]
    <2>1. ASSUME NEW i \in S, i # 0
          PROVE  Remaining(gr, sts, s[i]) = r[s[i]]
      BY <1>1, <1>2, <1>3, <2>1
    <2>2. \A i \in S : sum[i] = IF i = 0 THEN 0 ELSE sum[i - 1] + Remaining(gr, sts, s[i])
      BY <1>11
    <2> QED
      BY <2>1, <2>2
  <1> DEFINE G == {i \in S : sum[i] \in Int}
  <1>14. \A i \in 0..n : i \in G
    <2>1. 0 \in G
      BY <1>1, <1>13
    <2>2. ASSUME NEW i \in 0..(n - 1), i \in G
          PROVE  i + 1 \in G
      <3>1. i + 1 \in S /\ i + 1 # 0 /\ (i + 1) - 1 = i /\ i + 1 \in 1..n
        BY <1>1
      <3>2. sum[i + 1] = sum[i] + r[s[i + 1]]
        BY <1>13, <3>1
      <3>3. r[s[i + 1]] \in Nat /\ sum[i] \in Int
        BY <1>1, <1>2, <2>2, <3>1
      <3> QED
        BY <3>1, <3>2, <3>3
    <2>3. 0 \in Int /\ n \in Int
      BY <1>1
    <2> HIDE DEF G
    <2> QED
      BY <2>1, <2>2, <2>3, Upwards
  <1>15. sum \in [0..n -> Int]
    <2>1. sum = [i \in S |-> sum[i]]
      BY <1>11
    <2> QED
      BY <1>14, <2>1
  <1>16. sum[0] = 0
    BY <1>1, <1>13
  <1>17. \A i \in 1..n : sum[i] = sum[i - 1] + r[s[i]]
    BY <1>1, <1>13
  <1>18. Sums(s, r, sum)
    BY <1>15, <1>16, <1>17 DEF Sums
  <1> QED
    BY <1>12, <1>18

-----------------------------------------------------------------------------
(* The longest chains *)

LEMMA WholeIsLongest ==
  ASSUME NEW gr, Dag(gr), NEW sts \in Statuses,
         NEW s, Whole(gr, sts, s), Preds(gr)[s[1]] = {}
  PROVE  s \in Chains(gr) /\ Length(gr, sts, s) = ProjectEnd(gr, sts)
  <1> DEFINE N == gr.nodes
             P == Preds(gr)
             r == Rem(gr, sts)
             ef == EarliestFinish(gr, sts)
             end == ProjectEnd(gr, sts)
  <1>1. /\ Runs(N, P, s) /\ Snug(s, r, ef)
        /\ Succs(gr)[s[Len(s)]] = {} /\ ef[s[Len(s)]] = end
    BY DEF Whole
  <1>2. s \in Chains(gr)
    BY <1>1, ChainsAre
  <1>3. s \in Seq(N) /\ Len(s) \in Nat /\ Len(s) >= 1
    <2> HIDE DEF N, P
    <2> QED
      BY <1>1 DEF Runs
  <1>4. PICK sum : Sums(s, r, sum) /\ Length(gr, sts, s) = sum[Len(s)]
    BY <1>3, LengthIs
  <1>5. Forward(N, P, r, ef)
    BY ForwardHolds
  <1> HIDE DEF N, r, ef, end
  <1>6. \A i \in 1..Len(s) : sum[i] = ef[s[i]]
    BY <1>1, <1>4, <1>5, SnugRunsReachEarliest
  <1>7. sum[Len(s)] = end
    BY <1>1, <1>3, <1>6
  <1> QED
    BY <1>2, <1>4, <1>7 DEF end

LEMMA ChainsFit ==
  ASSUME NEW gr, Dag(gr), NEW sts \in Statuses, NEW s \in Chains(gr)
  PROVE  Length(gr, sts, s) <= ProjectEnd(gr, sts)
  <1> DEFINE N == gr.nodes
             P == Preds(gr)
             r == Rem(gr, sts)
             ef == EarliestFinish(gr, sts)
             end == ProjectEnd(gr, sts)
  <1>1. Runs(N, P, s)
    BY ChainsAre
  <1>2. s \in Seq(N) /\ Len(s) \in Nat /\ Len(s) >= 1
    <2> HIDE DEF N, P
    <2> QED
      BY <1>1 DEF Runs
  <1>3. PICK sum : Sums(s, r, sum) /\ Length(gr, sts, s) = sum[Len(s)]
    BY <1>2, LengthIs
  <1>4. Forward(N, P, r, ef) /\ Ends(N, ef, end)
    BY ForwardHolds, EndsHolds
  <1> HIDE DEF N, P, r, ef, end
  <1>5. sum[Len(s)] <= ef[s[Len(s)]]
    BY <1>1, <1>2, <1>3, <1>4, RunsFitEarliest
  <1>6. s[Len(s)] \in N
    BY <1>2
  <1>7. ef[s[Len(s)]] <= end /\ ef[s[Len(s)]] \in Int /\ end \in Int
    BY <1>4, <1>6 DEF Forward, Ends
  <1>8. sum[Len(s)] \in Int
    BY <1>2, <1>3 DEF Sums
  <1>9. sum[Len(s)] <= end
    BY <1>5, <1>7, <1>8
  <1> QED
    BY <1>3, <1>9 DEF end

\* The walk from a critical task is the tail of a whole path from a source.
LEMMA ThroughCritical ==
  ASSUME NEW gr, Dag(gr), NEW sts \in Statuses, NEW t \in CriticalTasks(gr, sts)
  PROVE  \E s : Whole(gr, sts, s) /\ Preds(gr)[s[1]] = {} /\ IsTail(critical_walk(gr, sts)[t], s)
  <1> DEFINE N == gr.nodes
             P == Preds(gr)
             Q == Succs(gr)
             r == Rem(gr, sts)
             ef == EarliestFinish(gr, sts)
             ls == LatestStart(gr, sts)
             end == ProjectEnd(gr, sts)
             crit == CriticalTasks(gr, sts)
             w == critical_walk(gr, sts)[t]
             Passes(s) == Whole(gr, sts, s) /\ IsTail(w, s)
             G == {u \in N : u \in crit =>
                     \A s \in Seq(N) : Passes(s) /\ s[1] = u =>
                        \E c : Passes(c) /\ P[c[1]] = {}}
  <1>1. Schedule(N, P, Q, r, ef, ls, end)
    BY ScheduleHolds
  <1>2. crit = {u \in N : Tight(u, r, ef, ls)}
    BY CriticalTasksIs
  <1>3. ASSUME NEW u \in N, (P[u] \cap N) \subseteq G
        PROVE  u \in G
    <2>1. SUFFICES ASSUME u \in crit, NEW s \in Seq(N), Passes(s), s[1] = u
                   PROVE  \E c : Passes(c) /\ P[c[1]] = {}
      OBVIOUS
    <2>2. CASE P[u] = {}
      BY <2>1, <2>2
    <2>3. CASE P[u] # {}
      <3>1. Tight(u, r, ef, ls)
        BY <1>2, <2>1
      <3>2. PICK p \in P[u] : Tight(p, r, ef, ls) /\ ef[u] = ef[p] + r[u]
        <4> HIDE DEF N, P, Q, r, ef, ls, end
        <4> QED
          BY <1>1, <2>3, <3>1, CriticalBefore
      <3>3. p \in N /\ p \in crit
        <4>1. p \in N
          BY <1>1, <3>2 DEF Schedule, Edges
        <4> QED
          BY <1>2, <3>2, <4>1
      <3> DEFINE c == <<p>> \o s
      <3>4. /\ Runs(N, P, s) /\ Snug(s, r, ef)
            /\ Q[s[Len(s)]] = {} /\ ef[s[Len(s)]] = end
        BY <2>1 DEF Whole
      <3>5. /\ Runs(N, P, c) /\ Snug(c, r, ef)
            /\ c[1] = p /\ c[Len(c)] = s[Len(s)]
            /\ \A i \in 1..Len(s) : c[i + 1] = s[i]
        <4>1. p \in P[s[1]] /\ ef[s[1]] = ef[p] + r[s[1]]
          BY <2>1, <3>2
        <4> HIDE DEF N, P, r, ef
        <4> QED
          BY <3>3, <3>4, <4>1, Longer
      <3>6. c \in Seq(N) /\ Len(s) \in Nat /\ Len(c) = Len(s) + 1
        <4> HIDE DEF N
        <4>1. s \in Seq(N) /\ <<p>> \in Seq(N)
          BY <2>1, <3>3, OneIsSeq
        <4> QED
          BY <4>1
      <3>7. IsTail(w, c)
        <4>1. PICK k \in 0..(Len(s) - 1) : w = [i \in 1..(Len(s) - k) |-> s[k + i]]
          BY <2>1 DEF IsTail
        <4>2. k + 1 \in 0..(Len(c) - 1) /\ Len(c) - (k + 1) = Len(s) - k
          BY <3>6, <4>1
        <4>3. \A i \in 1..(Len(s) - k) : c[(k + 1) + i] = s[k + i]
          <5>1. \A i \in 1..(Len(s) - k) : k + i \in 1..Len(s) /\ (k + 1) + i = (k + i) + 1
            BY <3>6, <4>1
          <5> HIDE DEF c
          <5> QED
            BY <3>5, <5>1
        <4>4. w = [i \in 1..(Len(c) - (k + 1)) |-> c[(k + 1) + i]]
          <5> HIDE DEF c, w
          <5> QED
            BY <4>1, <4>2, <4>3
        <4> HIDE DEF c, w
        <4> QED
          BY <4>2, <4>4 DEF IsTail
      <3> HIDE DEF c
      <3>8. Passes(c)
        BY <3>4, <3>5, <3>7 DEF Whole
      <3>9. p \in G
        BY <1>3, <3>2, <3>3
      <3> QED
        BY <3>3, <3>5, <3>6, <3>8, <3>9
    <2> QED
      BY <2>2, <2>3
  <1>4. N \subseteq G
    <2>1. Founded(N, P)
      BY <1>1 DEF Schedule, Edges
    <2> HIDE DEF G, P, N
    <2> QED
      BY <1>3, <2>1, Induct
  <1>5. Whole(gr, sts, w) /\ w[1] = t
    BY CriticalWalkIsWhole
  <1> HIDE DEF w
  <1>6. w \in Seq(N) /\ Len(w) \in Nat /\ Len(w) >= 1
    <2>1. Runs(N, P, w)
      BY <1>5 DEF Whole
    <2> HIDE DEF N, P
    <2>2. w \in Seq(N) /\ Len(w) >= 1
      BY <2>1 DEF Runs
    <2> QED
      BY <2>2
  <1>7. IsTail(w, w)
    <2>1. 0 \in 0..(Len(w) - 1) /\ w = [i \in 1..(Len(w) - 0) |-> w[0 + i]]
      <3> HIDE DEF N
      <3> QED
        BY <1>6
    <2> QED
      BY <2>1 DEF IsTail
  <1>8. t \in N /\ t \in crit
    BY <1>2
  <1>9. \E s : Passes(s) /\ P[s[1]] = {}
    BY <1>4, <1>5, <1>6, <1>7, <1>8
  <1> QED
    BY <1>9 DEF w

\* A longest chain has a critical task wherever it has a task.
LEMMA LongestAreCritical ==
  ASSUME NEW gr, Dag(gr), NEW sts \in Statuses, NEW s \in Longest(gr, sts)
  PROVE  /\ Len(s) \in Nat /\ Len(s) >= 1 /\ DOMAIN s = 1..Len(s)
         /\ \A i \in 1..Len(s) : s[i] \in CriticalTasks(gr, sts)
  <1> DEFINE N == gr.nodes
             P == Preds(gr)
             Q == Succs(gr)
             r == Rem(gr, sts)
             ef == EarliestFinish(gr, sts)
             ls == LatestStart(gr, sts)
             end == ProjectEnd(gr, sts)
  <1>1. Runs(N, P, s) /\ Q[s[Len(s)]] = {}
    BY ChainsAre DEF Longest
  <1>2. Schedule(N, P, Q, r, ef, ls, end)
    BY ScheduleHolds
  <1>3. s \in Seq(N) /\ DOMAIN s = 1..Len(s) /\ Len(s) \in Nat /\ Len(s) >= 1
    <2> HIDE DEF N, P
    <2>1. s \in Seq(N) /\ Len(s) >= 1
      BY <1>1 DEF Runs
    <2> QED
      BY <2>1
  <1>4. PICK sum : Sums(s, r, sum) /\ Length(gr, sts, s) = sum[Len(s)]
    BY <1>3, LengthIs
  <1>5. sum[Len(s)] = end
    BY <1>4 DEF Longest
  <1>6. CriticalTasks(gr, sts) = {t \in N : Tight(t, r, ef, ls)}
    BY CriticalTasksIs
  <1> HIDE DEF N, P, Q, r, ef, ls, end
  <1>7. \A i \in 1..Len(s) : Tight(s[i], r, ef, ls)
    BY <1>1, <1>2, <1>4, <1>5, LongestRunsAreTight
  <1>8. \A i \in 1..Len(s) : s[i] \in N
    BY <1>3
  <1> QED
    BY <1>3, <1>6, <1>7, <1>8

\* The path of the code is the tail of a longest chain, or a whole one, and no chain is longer
\* than the project.
LEMMA PathOfDag ==
  ASSUME NEW gr, Dag(gr), NEW sts \in Statuses
  PROVE  /\ \A s \in Chains(gr) : Length(gr, sts, s) <= ProjectEnd(gr, sts)
         /\ gr.nodes # {} =>
               \E s \in Longest(gr, sts) : IsTail(reconstruct_path(gr, sts), s)
         /\ (\E s \in Longest(gr, sts) : predecessors(gr, s[1]) = {})
               => reconstruct_path(gr, sts) \in Longest(gr, sts)
  <1> DEFINE crit == CriticalTasks(gr, sts)
             path == reconstruct_path(gr, sts)
  <1>1. ASSUME gr.nodes # {}
        PROVE  \E s \in Longest(gr, sts) : IsTail(path, s)
    <2>1. PICK t \in crit : path = critical_walk(gr, sts)[t]
      BY <1>1, PathStarts
    <2>2. PICK s : Whole(gr, sts, s) /\ Preds(gr)[s[1]] = {} /\ IsTail(path, s)
      BY <2>1, ThroughCritical
    <2>3. s \in Longest(gr, sts)
      BY <2>2, WholeIsLongest DEF Longest
    <2> QED
      BY <2>2, <2>3
  <1>2. ASSUME NEW s \in Longest(gr, sts), predecessors(gr, s[1]) = {}
        PROVE  path \in Longest(gr, sts)
    <2>1. s[1] \in crit
      BY LongestAreCritical
    <2>2. crit \subseteq gr.nodes
      BY CriticalTasksIs
    <2>3. PICK t \in crit : path = critical_walk(gr, sts)[t] /\ predecessors(gr, t) = {}
      BY <1>2, <2>1, <2>2, PathStarts
    <2>4. Whole(gr, sts, path) /\ path[1] = t
      BY <2>3, CriticalWalkIsWhole
    <2>5. Preds(gr)[path[1]] = {}
      BY <2>2, <2>3, <2>4 DEF Preds
    <2> QED
      BY <2>4, <2>5, WholeIsLongest DEF Longest
  <1> QED
    BY <1>1, <1>2, ChainsFit

\* A task is critical exactly when a longest chain goes through it.
LEMMA CriticalOfDag ==
  ASSUME NEW gr, Dag(gr), NEW sts \in Statuses
  PROVE  CriticalTasks(gr, sts) =
            {t \in gr.nodes : \E s \in Longest(gr, sts) : OnPath(s, t)}
  <1> DEFINE crit == CriticalTasks(gr, sts)
  <1>1. crit \subseteq gr.nodes
    BY CriticalTasksIs
  <1>2. ASSUME NEW t \in crit
        PROVE  \E s \in Longest(gr, sts) : OnPath(s, t)
    <2> DEFINE w == critical_walk(gr, sts)[t]
    <2>1. PICK s : Whole(gr, sts, s) /\ Preds(gr)[s[1]] = {} /\ IsTail(w, s)
      BY ThroughCritical
    <2>2. s \in Longest(gr, sts)
      BY <2>1, WholeIsLongest DEF Longest
    <2>3. w[1] = t
      BY CriticalWalkIsWhole
    <2> HIDE DEF w
    <2>4. PICK k \in 0..(Len(s) - 1) : w = [i \in 1..(Len(s) - k) |-> s[k + i]]
      BY <2>1 DEF IsTail
    <2>5. Len(s) \in Nat /\ DOMAIN s = 1..Len(s)
      BY <2>2, LongestAreCritical
    <2>6. 1 \in 1..(Len(s) - k) /\ k + 1 \in 1..Len(s)
      BY <2>4, <2>5
    <2>7. s[k + 1] = t
      BY <2>3, <2>4, <2>6
    <2> QED
      BY <2>2, <2>5, <2>6, <2>7 DEF OnPath
  <1>3. ASSUME NEW t \in gr.nodes, NEW s \in Longest(gr, sts), OnPath(s, t)
        PROVE  t \in crit
    BY <1>3, LongestAreCritical DEF OnPath
  <1> QED
    BY <1>1, <1>2, <1>3

\* Finishing tasks never moves the end of the project back.
LEMMA EndOfDag ==
  ASSUME NEW gr, Dag(gr), NEW sts \in Statuses, NEW later \in Statuses,
         \A t \in gr.nodes : sts[t] = "Done" => later[t] = "Done"
  PROVE  ProjectEnd(gr, later) <= ProjectEnd(gr, sts)
  <1> DEFINE N == gr.nodes
             P == Preds(gr)
             r == Rem(gr, sts)
             q == Rem(gr, later)
             ef == EarliestFinish(gr, sts)
             lf == EarliestFinish(gr, later)
             end == ProjectEnd(gr, sts)
             now == ProjectEnd(gr, later)
  <1>1. Forward(N, P, r, ef) /\ Forward(N, P, q, lf) /\ Ends(N, ef, end) /\ Ends(N, lf, now)
    BY ForwardHolds, EndsHolds
  <1>2. \A t \in N : q[t] <= r[t]
    <2>1. ASSUME NEW t \in N
          PROVE  q[t] <= r[t]
      <3>1. q[t] = Remaining(gr, later, t) /\ r[t] = Remaining(gr, sts, t)
        BY RemainingIs
      <3>2. gr.dur[t] \in Nat
        BY DEF Dag
      <3> QED
        BY <3>1, <3>2 DEF Remaining
    <2> QED
      BY <2>1
  <1>3. Edges(N, P, Succs(gr))
    BY DagEdges
  <1> HIDE DEF N, P, r, q, ef, lf, end, now
  <1> DEFINE G == {t \in N : lf[t] <= ef[t]}
  <1>4. ASSUME NEW t \in N, (P[t] \cap N) \subseteq G
        PROVE  t \in G
    <2>1. /\ q[t] \in Nat /\ r[t] \in Nat /\ q[t] <= r[t] /\ r[t] <= ef[t]
          /\ ef[t] \in Int /\ lf[t] \in Int
      BY <1>1, <1>2 DEF Forward
    <2>2. lf[t] = q[t] \/ \E p \in P[t] : lf[t] = lf[p] + q[t]
      BY <1>1 DEF Forward
    <2>3. CASE lf[t] = q[t]
      BY <2>1, <2>3
    <2>4. CASE \E p \in P[t] : lf[t] = lf[p] + q[t]
      <3>1. PICK p \in P[t] : lf[t] = lf[p] + q[t]
        BY <2>4
      <3>2. p \in N
        BY <1>3, <3>1 DEF Edges
      <3>3. lf[p] <= ef[p]
        BY <1>4, <3>1, <3>2
      <3>4. ef[p] + r[t] <= ef[t] /\ ef[p] \in Int /\ lf[p] \in Int
        BY <1>1, <3>1, <3>2 DEF Forward
      <3> QED
        BY <2>1, <3>1, <3>3, <3>4
    <2> QED
      BY <2>2, <2>3, <2>4
  <1>5. N \subseteq G
    <2>1. Founded(N, P)
      BY <1>3 DEF Edges
    <2> HIDE DEF G
    <2> QED
      BY <1>4, <2>1, Induct
  <1>6. now <= end
    <2>1. now \in Nat /\ end \in Nat
      BY <1>1 DEF Ends
    <2>2. CASE now = 0
      BY <2>1, <2>2
    <2>3. CASE \E t \in N : lf[t] = now
      <3>1. PICK t \in N : lf[t] = now
        BY <2>3
      <3>2. ef[t] <= end /\ ef[t] \in Int
        BY <1>1 DEF Ends, Forward
      <3>3. lf[t] <= ef[t]
        BY <1>5
      <3> QED
        BY <2>1, <3>1, <3>2, <3>3
    <2> QED
      BY <1>1, <2>2, <2>3 DEF Ends
  <1> QED
    BY <1>6 DEF end, now

-----------------------------------------------------------------------------
(* The first unfinished task of the path *)

LEMMA DoneAddsNothing ==
  ASSUME NEW s, NEW r, NEW sum, Sums(s, r, sum), Len(s) \in Nat,
         NEW m \in 0..Len(s), \A i \in 1..m : r[s[i]] = 0
  PROVE  sum[m] = 0
  <1> DEFINE G == {i \in 0..Len(s) : sum[i] = 0}
  <1>1. 0 \in G
    BY DEF Sums
  <1>2. ASSUME NEW i \in 0..(m - 1), i \in G
        PROVE  i + 1 \in G
    <2>1. i + 1 \in 1..Len(s) /\ i + 1 \in 1..m /\ (i + 1) - 1 = i /\ i + 1 \in 0..Len(s)
      OBVIOUS
    <2>2. sum[i + 1] = sum[i] + r[s[i + 1]]
      BY <2>1 DEF Sums
    <2>3. r[s[i + 1]] = 0 /\ sum[i] = 0
      BY <1>2, <2>1
    <2> QED
      BY <2>1, <2>2, <2>3
  <1>3. \A i \in 0..m : i \in G
    <2>1. 0 \in Int /\ m \in Int
      OBVIOUS
    <2> HIDE DEF G
    <2> QED
      BY <1>1, <1>2, <2>1, Upwards
  <1> QED
    BY <1>3

LEMMA FirstOfIs ==
  ASSUME NEW path, NEW S, NEW n \in Nat, DOMAIN path = 1..n,
         \E i \in 1..n : path[i] \in S
  PROVE  \E i \in 1..n : /\ path[i] = FirstOf(path, S)
                         /\ path[i] \in S
                         /\ \A j \in 1..n : j < i => path[j] \notin S
  <1> DEFINE I == {i \in 1..n : path[i] \in S}
  <1>1. IsFiniteSet(I) /\ I \subseteq Int /\ I # {}
    <2>1. IsFiniteSet(1..n) /\ I \in SUBSET (1..n) /\ I # {}
      <3>1. IsFiniteSet(1..n)
        BY FS_Interval
      <3>2. I \in SUBSET (1..n) /\ I # {}
        OBVIOUS
      <3> QED
        BY <3>1, <3>2
    <2>2. I \subseteq Int
      OBVIOUS
    <2> HIDE DEF I
    <2>3. IsFiniteSet(I)
      BY ONLY <2>1, FS_Subset
    <2> QED
      BY <2>1, <2>2, <2>3
  <1>2. PICK k \in I : \A y \in I : k <= y
    <2> HIDE DEF I
    <2> QED
      BY <1>1, FiniteMin
  <1>3. k \in 1..n /\ path[k] \in S
    OBVIOUS
  <1>4. \A j \in 1..n : j < k => path[j] \notin S
    BY <1>2, <1>3
  <1>5. IsFirstOf(path, S, path[k])
    BY <1>3, <1>4 DEF IsFirstOf
  <1>6. FirstOf(path, S) \in S /\ IsFirstOf(path, S, FirstOf(path, S))
    BY <1>3, <1>5 DEF FirstOf
  <1> QED
    BY <1>6 DEF IsFirstOf

LEMMA FirstOfDag ==
  ASSUME NEW gr, Dag(gr), Closed(gr), NEW sts \in Statuses,
         NEW u \in gr.nodes, sts[u] # "Done"
  PROVE  LET first == FirstOf(reconstruct_path(gr, sts), {t \in gr.nodes : sts[t] # "Done"})
         IN  /\ first # NoTask
             /\ \A p \in predecessors(gr, first) : sts[p] = "Done"
  <1> DEFINE N == gr.nodes
             P == Preds(gr)
             r == Rem(gr, sts)
             ef == EarliestFinish(gr, sts)
             end == ProjectEnd(gr, sts)
             path == reconstruct_path(gr, sts)
             Left == {t \in N : sts[t] # "Done"}
             first == FirstOf(path, Left)
  <1>1. /\ Runs(N, P, path) /\ Snug(path, r, ef) /\ P[path[1]] = {}
        /\ ef[path[Len(path)]] = end
    BY PathIsWhole DEF Whole
  <1>2. Forward(N, P, r, ef) /\ Ends(N, ef, end)
    BY ForwardHolds, EndsHolds
  <1>3. \A t \in N : r[t] = 0 <=> sts[t] = "Done"
    BY RemainingIs
  <1>4. \A t \in N : P[t] = predecessors(gr, t) /\ predecessors(gr, t) \subseteq N
    BY DEF Preds, Closed, predecessors
  <1>5. N \subseteq Tasks
    BY DEF Dag
  <1>6. path \in Seq(N) /\ Len(path) \in Nat /\ Len(path) >= 1 /\ DOMAIN path = 1..Len(path)
    <2> HIDE DEF N, P, path
    <2>1. path \in Seq(N) /\ Len(path) >= 1
      BY <1>1 DEF Runs
    <2> QED
      BY <2>1
  <1>7. PICK sum : Sums(path, r, sum)
    BY <1>6, LengthIs
  <1>8. u \in N /\ u \in Left
    OBVIOUS
  <1>9. \A t : t \in Left <=> t \in N /\ r[t] # 0
    BY <1>3
  <1> HIDE DEF N, P, r, ef, end, path, Left
  <1>10. \A i \in 1..Len(path) : path[i] \in N
    BY <1>6
  <1>11. \A i \in 1..Len(path) : sum[i] = ef[path[i]]
    BY <1>1, <1>2, <1>7, SnugRunsReachEarliest
  <1>12. \E i \in 1..Len(path) : path[i] \in Left
    <2>1. SUFFICES ASSUME \A i \in 1..Len(path) : r[path[i]] = 0 PROVE FALSE
      BY <1>9, <1>10
    <2>2. Len(path) \in 0..Len(path) /\ Len(path) \in 1..Len(path)
      BY <1>6
    <2>3. sum[Len(path)] = 0
      BY <1>6, <1>7, <2>1, <2>2, DoneAddsNothing
    <2>4. end = 0
      BY <1>1, <1>11, <2>2, <2>3
    <2>5. r[u] \in Nat /\ r[u] <= ef[u] /\ ef[u] <= end /\ ef[u] \in Int
      BY <1>2, <1>8 DEF Forward, Ends
    <2>6. r[u] # 0
      BY <1>8, <1>9
    <2> QED
      BY <2>4, <2>5, <2>6
  <1>13. PICK k \in 1..Len(path) : /\ path[k] = first
                                   /\ path[k] \in Left
                                   /\ \A j \in 1..Len(path) : j < k => path[j] \notin Left
    BY <1>6, <1>12, FirstOfIs
  <1>14. first \in N /\ first # NoTask
    BY <1>5, <1>10, <1>13, TasksAssumption DEF NoTask
  <1>15. sum[k - 1] = 0
    <2>1. k - 1 \in 0..Len(path) /\ \A i \in 1..(k - 1) : i \in 1..Len(path) /\ i < k
      BY <1>6
    <2>2. \A i \in 1..(k - 1) : r[path[i]] = 0
      BY <1>9, <1>10, <1>13, <2>1
    <2> QED
      BY <1>6, <1>7, <2>1, <2>2, DoneAddsNothing
  <1>16. ef[first] = r[first] /\ r[first] \in Nat
    <2>1. sum[k] = sum[k - 1] + r[path[k]]
      BY <1>7 DEF Sums
    <2>2. r[first] \in Nat
      BY <1>2, <1>14 DEF Forward
    <2> QED
      BY <1>11, <1>13, <1>15, <2>1, <2>2
  <1>17. ASSUME NEW p \in predecessors(gr, first)
         PROVE  p \in N /\ sts[p] = "Done"
    <2>1. p \in N /\ p \in P[first]
      BY <1>4, <1>14
    <2>2. ef[p] + r[first] <= ef[first] /\ r[p] <= ef[p] /\ r[p] \in Nat /\ ef[p] \in Int
      BY <1>2, <1>14, <2>1 DEF Forward
    <2>3. r[p] = 0
      BY <1>16, <2>2
    <2> QED
      BY <1>3, <2>1, <2>3
  <1> QED
    BY <1>14, <1>17 DEF N, path, Left

-----------------------------------------------------------------------------
(* The theorems *)

\* Whatever the order of the ids, the graph stays acyclic.
Inv == /\ Dag(g)
       /\ st \in Statuses

LEMMA InitInv == Init => Inv
  <1> SUFFICES ASSUME Init PROVE Inv
    OBVIOUS
  <1>1. g.nodes \in SUBSET Tasks /\ g.deps \in DepsUpwards \cup DepsDownwards
          /\ g.dur \in [Tasks -> Durations \cup {1}]
    BY DEF Init
  <1>2. g.nodes \subseteq Tasks
    BY <1>1
  <1>3. g.deps \in [Tasks -> SUBSET Tasks]
    BY <1>1 DEF DepsUpwards, DepsDownwards
  <1>4. g.dur \in [Tasks -> Nat \ {0}]
    <2>1. (Durations \cup {1}) \subseteq Nat \ {0}
      BY CompletionAssumption
    <2> QED
      BY <1>1, <2>1
  <1>5. ASSUME NEW S \in (SUBSET g.nodes) \ {{}}
        PROVE  \E t \in S : predecessors(g, t) \cap S = {}
    <2>1. IsFiniteSet(S) /\ S \subseteq Int /\ S # {} /\ S \subseteq Tasks
      <3>1. S \subseteq Tasks /\ S # {}
        BY <1>2
      <3>2. IsFiniteSet(S)
        BY <3>1, CompletionAssumption, FS_Subset
      <3> QED
        BY <3>1, <3>2, IdsAreNumbers
    <2>2. CASE g.deps \in DepsUpwards
      <3>1. PICK t \in S : \A y \in S : t <= y
        BY <2>1, FiniteMin
      <3>2. \A p \in predecessors(g, t) : p < t /\ p \in Tasks
        BY <1>3, <2>1, <2>2 DEF DepsUpwards, predecessors
      <3>3. ASSUME NEW p \in predecessors(g, t) \cap S
            PROVE  FALSE
        <4>1. p < t /\ t <= p /\ p \in Int /\ t \in Int
          BY <2>1, <3>1, <3>2, <3>3
        <4> QED
          BY <4>1
      <3> QED
        BY <3>3
    <2>3. CASE g.deps \in DepsDownwards
      <3>1. PICK t \in S : \A y \in S : y <= t
        BY <2>1, FiniteMax
      <3>2. \A p \in predecessors(g, t) : p > t /\ p \in Tasks
        BY <1>3, <2>1, <2>3 DEF DepsDownwards, predecessors
      <3>3. ASSUME NEW p \in predecessors(g, t) \cap S
            PROVE  FALSE
        <4>1. p > t /\ p <= t /\ p \in Int /\ t \in Int
          BY <2>1, <3>1, <3>2, <3>3
        <4> QED
          BY <4>1
      <3> QED
        BY <3>3
    <2> QED
      BY <1>1, <2>2, <2>3
  <1>6. Dag(g)
    BY <1>2, <1>3, <1>4, <1>5 DEF Dag, HasTopoOrder
  <1>7. st \in Statuses
    BY DEF Init, AllOpen, Statuses, TaskStatus
  <1> QED
    BY <1>6, <1>7 DEF Inv

LEMMA NextInv == Inv /\ [Next]_<<g, st>> => Inv'
  <1> SUFFICES ASSUME Inv, [Next]_<<g, st>> PROVE Inv'
    OBVIOUS
  <1>1. g' = g
    BY DEF Next, Finish
  <1>2. st' \in Statuses
    BY DEF Inv, Next, Finish, Statuses, TaskStatus
  <1> QED
    BY <1>1, <1>2 DEF Inv

THEOREM InvAlways == Spec => []Inv
  BY InitInv, NextInv, PTL DEF Spec

\* No chain is longer than the end of the project the report names, and the path it names is
\* the tail of a chain of that length, the whole of one if some longest chain begins at a task
\* that depends on nothing.
THEOREM PathIsALongestChain == Spec => []PathIsLongest
  <1>1. Inv => PathIsLongest
    BY PathOfDag DEF Inv, PathIsLongest
  <1> QED
    BY <1>1, InvAlways, PTL

\* A task has no slack exactly when a longest chain goes through it, dependencies that are no
\* nodes or not.
THEOREM CriticalTasksOnLongestChains == Spec => []CriticalIsOnLongest
  <1>1. Inv => CriticalIsOnLongest
    BY CriticalOfDag DEF Inv, CriticalIsOnLongest
  <1> QED
    BY <1>1, InvAlways, PTL

\* In a graph whose dependencies are all nodes the first unfinished task of the path waits for
\* no other, and there is one while any task is unfinished.
THEOREM PathAlwaysGivesWork == Spec => []FirstUnfinishedIsReady
  <1>1. Inv => FirstUnfinishedIsReady
    <2> SUFFICES ASSUME Inv PROVE FirstUnfinishedIsReady
      OBVIOUS
    <2>1. CASE \A t \in g.nodes : st[t] = "Done"
      <3>1. {t \in g.nodes : st[t] # "Done"} = {}
        BY <2>1
      <3>2. FirstOf(reconstruct_path(g, st), {}) = NoTask
        BY DEF FirstOf
      <3> QED
        BY <2>1, <3>1, <3>2 DEF FirstUnfinishedIsReady
    <2>2. ASSUME NEW u \in g.nodes, st[u] # "Done"
          PROVE  FirstUnfinishedIsReady
      BY <2>2, FirstOfDag DEF Inv, FirstUnfinishedIsReady
    <2> QED
      BY <2>1, <2>2
  <1> QED
    BY <1>1, InvAlways, PTL

\* Finishing a task never moves the project end back, dependencies that are no nodes or not.
THEOREM ProjectEndNeverGrows == Spec => EndNeverGrows
  <1>1. Inv /\ [Next]_<<g, st>> => [ProjectEnd(g, st)' <= ProjectEnd(g, st)]_<<g, st>>
    <2> SUFFICES ASSUME Inv, Next PROVE ProjectEnd(g', st') <= ProjectEnd(g, st)
      OBVIOUS
    <2>1. g' = g /\ st' \in Statuses
      BY DEF Inv, Next, Finish, Statuses, TaskStatus
    <2>2. \A t \in g.nodes : st[t] = "Done" => st'[t] = "Done"
      BY DEF Inv, Next, Finish, Statuses, TaskStatus, Dag
    <2> QED
      BY <2>1, <2>2, EndOfDag DEF Inv
  <1> QED
    BY <1>1, InvAlways, PTL DEF Spec, EndNeverGrows
=============================================================================
