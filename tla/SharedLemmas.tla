--------------------------- MODULE SharedLemmas ---------------------------
(***************************************************************************)
(* What the proofs about several components need: bounded sets of          *)
(* integers, induction and recursion up to n, and what a call, a row of    *)
(* returns and a step do to a trace.                                       *)
(***************************************************************************)
EXTENDS TraceEvents, Integers, FiniteSetTheorems, WellFoundedInduction, SequenceTheorems, TLAPS

(***************************************************************************)
(* Bounded sets of integers have a least and a greatest member.  Both      *)
(* facts come from the strict-subset order being well founded on the       *)
(* finite sets: a set of intervals has a minimal one.                      *)
(***************************************************************************)
LOCAL Smaller(a, b) == StrictSubsetOrdering(a .. b)

(***************************************************************************)
(* Every non-empty family of subsets of an interval has a minimal member.  *)
(***************************************************************************)
LEMMA MinimalSubset ==
  \A a, b \in Int : \A F : (\A X \in F : X \in SUBSET (a .. b)) /\ F # {}
    => \E X \in F : \A Y \in F : ~ (Y \subseteq X /\ Y # X)
<1> SUFFICES ASSUME NEW a \in Int, NEW b \in Int,
                    NEW F, \A X \in F : X \in SUBSET (a .. b), F # {}
             PROVE  \E X \in F : \A Y \in F : ~ (Y \subseteq X /\ Y # X)
  OBVIOUS
<1>1. IsFiniteSet(a .. b)
  BY FS_Interval
<1>2. FiniteSubsetsOf(a .. b) = SUBSET (a .. b)
  BY <1>1, FS_FiniteSubsetsOfFinite
<1>3. IsWellFoundedOn(Smaller(a, b), SUBSET (a .. b))
  BY <1>2, FS_StrictSubsetOrderingWellFounded DEF Smaller
<1>4. PICK X \in F : \A Y \in F : <<Y, X>> \notin Smaller(a, b)
  BY <1>3, WFMin
<1>5. \A Y \in F : ~ (Y \subseteq X /\ Y # X)
  BY <1>4 DEF Smaller, StrictSubsetOrdering
<1> QED BY <1>5

(***************************************************************************)
(* A non-empty subset of an interval has a greatest member.                *)
(***************************************************************************)
LEMMA GreatestMember ==
  \A a, b \in Int : \A S : (\A i \in S : i \in a .. b) /\ S # {}
    => \E i \in S : \A j \in S : j <= i
<1> SUFFICES ASSUME NEW a \in Int, NEW b \in Int,
                    NEW S, \A i \in S : i \in a .. b, S # {}
             PROVE  \E i \in S : \A j \in S : j <= i
  OBVIOUS
<1> DEFINE F == {k .. b : k \in S}
<1>1. (\A X \in F : X \in SUBSET (a .. b)) /\ F # {}
  <2>1. PICK s \in S : TRUE
    OBVIOUS
  <2>2. (s .. b) \in F
    OBVIOUS
  <2>3. \A k \in S : k .. b \in SUBSET (a .. b)
    OBVIOUS
  <2> QED BY <2>2, <2>3
<1>2. PICK X \in F : \A Y \in F : ~ (Y \subseteq X /\ Y # X)
  <2> HIDE DEF F
  <2> QED BY <1>1, MinimalSubset, SMT
<1>3. PICK i \in S : X = i .. b
  BY <1>2
<1>4. ASSUME NEW j \in S, ~ (j <= i) PROVE FALSE
  <2>1. (j .. b) \in F
    OBVIOUS
  <2>2. (j .. b) \subseteq X
    BY <1>3, <1>4
  <2>3. i \in X /\ i \notin j .. b
    BY <1>3, <1>4
  <2>4. (j .. b) # X
    BY <2>3
  <2> HIDE DEF F
  <2> QED BY <1>2, <2>1, <2>2, <2>4
<1> QED BY <1>4

(***************************************************************************)
(* A non-empty set of natural numbers has a least member.                  *)
(***************************************************************************)
LEMMA LeastMember ==
  ASSUME NEW S \in SUBSET Nat, S # {}
  PROVE  \E i \in S : \A j \in S : i <= j
<1>1. PICK m \in S : TRUE
  OBVIOUS
<1> DEFINE F == {0 .. k : k \in S \cap (0 .. m)}
<1>2. (\A X \in F : X \in SUBSET (0 .. m)) /\ F # {}
  <2>1. m \in S \cap (0 .. m)
    OBVIOUS
  <2> QED BY <2>1
<1>3. PICK X \in F : \A Y \in F : ~ (Y \subseteq X /\ Y # X)
  <2> HIDE DEF F
  <2> QED BY <1>2, MinimalSubset, SMT
<1>4. PICK i \in S \cap (0 .. m) : X = 0 .. i
  BY <1>3
<1>5. ASSUME NEW j \in S, ~ (i <= j) PROVE FALSE
  <2>1. j \in S \cap (0 .. m)
    BY <1>4, <1>5
  <2>2. (0 .. j) \in F
    BY <2>1
  <2>3. (0 .. j) \subseteq X /\ i \in X /\ i \notin 0 .. j
    BY <1>4, <1>5
  <2>4. (0 .. j) # X
    BY <2>3
  <2> HIDE DEF F
  <2> QED BY <1>3, <2>2, <2>3, <2>4
<1> QED BY <1>4, <1>5

(***************************************************************************)
(* Induction up to n, over the set of the numbers that have a property.    *)
(***************************************************************************)
LEMMA Induction ==
  ASSUME NEW n \in Nat, NEW S, 0 \in S, \A i \in 1 .. n : i - 1 \in S => i \in S
  PROVE  \A i \in 0 .. n : i \in S
<1> DEFINE Missing == {i \in 0 .. n : i \notin S}
<1> SUFFICES ASSUME Missing # {} PROVE FALSE
  OBVIOUS
<1>1. Missing \in SUBSET Nat
  OBVIOUS
<1>2. PICK i \in Missing : \A j \in Missing : i <= j
  <2> HIDE DEF Missing
  <2> QED BY <1>1, LeastMember
<1>3. i \in 1 .. n /\ i - 1 \in 0 .. n /\ i - 1 \notin Missing
  BY <1>2
<1> QED BY <1>2, <1>3

\* f is what it is at 0, and at i what next makes of what it is at i - 1.
Iterates(f, n, base, next) ==
  f[0] = base /\ \A i \in 1 .. n : f[i] = next[<< i, f[i - 1] >>]

\* A function defined so exists: CHOOSE finds it where the model defines one.
LEMMA Recursion ==
  \A n \in Nat : \A S : \A base \in S, next \in [(1 .. n) \X S -> S] :
    \E f \in [0 .. n -> S] : Iterates(f, n, base, next)
<1> SUFFICES ASSUME NEW n \in Nat, NEW S, NEW base \in S, NEW next \in [(1 .. n) \X S -> S]
             PROVE  \E f \in [0 .. n -> S] :
                      f[0] = base /\ \A i \in 1 .. n : f[i] = next[<< i, f[i - 1] >>]
  BY DEF Iterates
<1> DEFINE Solves(f, k) == f[0] = base /\ \A i \in 1 .. k : f[i] = next[<< i, f[i - 1] >>]
           Solved == {k \in 0 .. n : \E f \in [0 .. k -> S] : Solves(f, k)}
<1>1. 0 \in Solved
  <2> DEFINE f == [i \in 0 .. 0 |-> base]
  <2>1. f \in [0 .. 0 -> S] /\ Solves(f, 0)
    OBVIOUS
  <2> HIDE DEF f, Solves
  <2> QED BY <2>1
<1>2. ASSUME NEW k \in 1 .. n, k - 1 \in Solved PROVE k \in Solved
  <2>1. PICK f \in [0 .. k - 1 -> S] : Solves(f, k - 1)
    BY <1>2
  <2>2. k - 1 \in 0 .. k - 1 /\ f[k - 1] \in S
    OBVIOUS
  <2> DEFINE last == next[<< k, f[k - 1] >>]
             g == [i \in 0 .. k |-> IF i = k THEN last ELSE f[i]]
  <2>3. last \in S
    BY <2>2
  <2> HIDE DEF last
  <2>4. g \in [0 .. k -> S]
    BY <2>3
  <2>5. ASSUME NEW i \in 1 .. k PROVE g[i] = next[<< i, g[i - 1] >>]
    <3>1. CASE i = k
      <4>1. g[i - 1] = f[k - 1] /\ g[i] = last
        BY <3>1
      <4> HIDE DEF g
      <4> QED BY <3>1, <4>1 DEF last
    <3>2. CASE i # k
      <4>1. i \in 1 .. k - 1 /\ g[i] = f[i] /\ g[i - 1] = f[i - 1]
        BY <3>2
      <4> HIDE DEF g
      <4> QED BY <2>1, <4>1
    <3> QED BY <3>1, <3>2
  <2>6. Solves(g, k)
    <3>1. g[0] = f[0]
      OBVIOUS
    <3> HIDE DEF g
    <3> QED BY <2>1, <2>5, <3>1
  <2>7. k \in 0 .. n
    OBVIOUS
  <2> HIDE DEF g, Solves
  <2> QED BY <2>4, <2>6, <2>7
<1> HIDE DEF Solved
<1>3. n \in Solved
  BY <1>1, <1>2, Induction
<1> QED BY <1>3 DEF Solved

----------------------------------------------------------------------------
\* The calls open are those of the frames above the lowest k.
Shifted(t, s, k) ==
  /\ Len(t.open) + k = Len(s)
  /\ \A i \in 1 .. Len(t.open) : t.open[i].fn = s[i + k]

(***************************************************************************)
(* Mirrors, call by call.                                                  *)
(***************************************************************************)
LEMMA MirrorsByIndex ==
  ASSUME NEW N, NEW Z, NEW P, NEW t \in Traces(N, Z, P), NEW s \in Seq(N), s # << >>
  PROVE  Mirrors(t, s) <=> (Shifted(t, s, 0) /\ ~ t.orphan) \/ Shifted(t, s, 1)
<1>1. t.open \in Seq(OpenCalls(N, Z))
  BY DEF Traces
<1>2. /\ OpenFns(t) \in Seq(N)
      /\ Len(OpenFns(t)) = Len(t.open)
      /\ \A i \in 1 .. Len(t.open) : OpenFns(t)[i] = t.open[i].fn
  <2>1. Len(t.open) \in Nat /\ DOMAIN t.open = 1 .. Len(t.open)
    BY <1>1
  <2>2. \A i \in 1 .. Len(t.open) : t.open[i] \in OpenCalls(N, Z)
    BY <1>1
  <2>3. \A i \in 1 .. Len(t.open) : t.open[i].fn \in N
    BY <2>2 DEF OpenCalls
  <2>4. OpenFns(t) \in [1 .. Len(t.open) -> N]
    BY <2>1, <2>3 DEF OpenFns
  <2>5. OpenFns(t) \in Seq(N)
    BY <2>1, <2>4, SeqDef
  <2>6. DOMAIN OpenFns(t) = 1 .. Len(t.open)
    BY <2>4
  <2>7. Len(OpenFns(t)) = Len(t.open)
    BY <2>1, <2>5, <2>6, LenProperties
  <2>8. \A i \in 1 .. Len(t.open) : OpenFns(t)[i] = t.open[i].fn
    BY <2>1 DEF OpenFns
  <2> QED BY <2>5, <2>7, <2>8
<1>3. /\ Tail(s) \in Seq(N)
      /\ Len(Tail(s)) + 1 = Len(s)
      /\ \A i \in 1 .. Len(Tail(s)) : Tail(s)[i] = s[i + 1]
  OBVIOUS
<1>4. OpenFns(t) = s <=> Shifted(t, s, 0)
  <2>1. OpenFns(t) = s => Shifted(t, s, 0)
    BY <1>1, <1>2 DEF Shifted
  <2>2. ASSUME Shifted(t, s, 0) PROVE OpenFns(t) = s
    <3>1. Len(OpenFns(t)) = Len(s) /\ \A i \in 1 .. Len(s) : OpenFns(t)[i] = s[i]
      BY <1>1, <1>2, <2>2 DEF Shifted
    <3> QED BY <1>2, <3>1, SeqEqual
  <2> QED BY <2>1, <2>2
<1>5. OpenFns(t) = Tail(s) <=> Shifted(t, s, 1)
  <2>1. OpenFns(t) = Tail(s) => Shifted(t, s, 1)
    BY <1>1, <1>2, <1>3 DEF Shifted
  <2>2. ASSUME Shifted(t, s, 1) PROVE OpenFns(t) = Tail(s)
    <3>1. /\ Len(OpenFns(t)) = Len(Tail(s))
          /\ \A i \in 1 .. Len(Tail(s)) : OpenFns(t)[i] = Tail(s)[i]
      <4>1. Len(t.open) \in Nat /\ Len(Tail(s)) \in Nat
        BY <1>1, <1>3
      <4>2. Len(t.open) + 1 = Len(s) /\ \A i \in 1 .. Len(t.open) : t.open[i].fn = s[i + 1]
        BY <2>2 DEF Shifted
      <4>3. Len(t.open) = Len(Tail(s))
        <5>1. \A a, b, c \in Nat : a + 1 = c /\ b + 1 = c => a = b
          OBVIOUS
        <5>2. Len(s) \in Nat
          OBVIOUS
        <5> QED BY <1>3, <4>1, <4>2, <5>1, <5>2, Zenon
      <4> QED BY ONLY <1>2, <1>3, <4>2, <4>3
    <3> QED BY <1>2, <1>3, <3>1, SeqEqual
  <2> QED BY <2>1, <2>2
<1> QED BY <1>4, <1>5 DEF Mirrors

(***************************************************************************)
(* A call and its frame.                                                   *)
(***************************************************************************)
LEMMA CalledMirrors ==
  ASSUME NEW N, NEW Z, NEW P, NEW t \in Traces(N, Z, P), NEW s \in Seq(N), s # << >>, Mirrors(t, s),
         NEW fn \in N, NEW target \in N \cup {Z}
  PROVE  /\ Called(t, fn, target) \in Traces(N, Z, P)
         /\ Called(t, fn, target).drained = t.drained
         /\ Called(t, fn, target).position = t.position
         /\ Append(s, fn) \in Seq(N) /\ Append(s, fn) # << >>
         /\ Mirrors(Called(t, fn, target), Append(s, fn))
<1> DEFINE u == Called(t, fn, target)
<1> DEFINE r == Append(s, fn)
<1> DEFINE call == [fn |-> fn, target |-> target]
<1>1. t.open \in Seq(OpenCalls(N, Z)) /\ call \in OpenCalls(N, Z)
  BY DEF Traces, OpenCalls
<1>2. u = [t EXCEPT !.open = Append(t.open, call)]
  BY DEF Called
<1>4. u.open = Append(t.open, call)
  BY <1>2 DEF Traces
<1>3. /\ u \in Traces(N, Z, P) /\ u.drained = t.drained /\ u.orphan = t.orphan
      /\ u.position = t.position
  <2>1. Append(t.open, call) \in Seq(OpenCalls(N, Z))
    BY <1>1
  <2> HIDE DEF u, call
  <2> QED BY <1>2, <2>1 DEF Traces
<1>5. r \in Seq(N) /\ r # << >>
  OBVIOUS
<1>6. /\ Len(u.open) = Len(t.open) + 1
      /\ \A i \in 1 .. Len(t.open) : u.open[i] = t.open[i]
      /\ u.open[Len(t.open) + 1].fn = fn
  BY <1>1, <1>4
<1>7. /\ Len(r) = Len(s) + 1
      /\ \A i \in 1 .. Len(s) : r[i] = s[i]
      /\ r[Len(s) + 1] = fn
  OBVIOUS
<1>8. Len(t.open) \in Nat /\ Len(s) \in Nat
  BY <1>1
<1> HIDE DEF u, r, call
<1>9. ASSUME NEW k \in {0, 1}, Shifted(t, s, k) PROVE Shifted(u, r, k)
  <2>1. Len(u.open) + k = Len(r)
    BY <1>6, <1>7, <1>8, <1>9 DEF Shifted
  <2>2. ASSUME NEW i \in 1 .. Len(t.open) PROVE u.open[i].fn = r[i + k]
    <3>1. u.open[i].fn = s[i + k]
      <4>1. u.open[i] = t.open[i]
        BY ONLY <1>6, i \in 1 .. Len(t.open), Zenon
      <4>2. t.open[i].fn = s[i + k]
        BY ONLY <1>9, i \in 1 .. Len(t.open), Zenon DEF Shifted
      <4> QED BY ONLY <4>1, <4>2, Zenon
    <3>2. i + k \in 1 .. Len(s)
      <4>1. \A p, q \in Nat, j \in {0, 1} : p + j = q => \A h \in 1 .. p : h + j \in 1 .. q
        OBVIOUS
      <4>2. Len(t.open) + k = Len(s)
        BY ONLY <1>9, Zenon DEF Shifted
      <4> QED BY ONLY <1>8, <4>1, <4>2, k \in {0, 1}, i \in 1 .. Len(t.open), Zenon
    <3> QED BY ONLY <1>7, <3>1, <3>2, Zenon
  <2>3. u.open[Len(t.open) + 1].fn = r[Len(t.open) + 1 + k]
    <3>1. Len(t.open) + 1 + k = Len(s) + 1
      BY <1>8, <1>9 DEF Shifted
    <3> QED BY <1>6, <1>7, <3>1
  <2>4. \A i \in 1 .. Len(u.open) : i \in 1 .. Len(t.open) \/ i = Len(t.open) + 1
    BY <1>6, <1>8
  <2> QED BY <2>1, <2>2, <2>3, <2>4 DEF Shifted
<1>10. Mirrors(u, r)
  BY <1>3, <1>5, <1>9, MirrorsByIndex
<1> QED BY <1>3, <1>5, <1>10 DEF u, r

(***************************************************************************)
(* The calls open after m returns, for at most as many as there are.       *)
(***************************************************************************)
LEMMA ReturnedOpen ==
  ASSUME NEW N, NEW Z, NEW P, NEW t \in Traces(N, Z, P), NEW m \in Nat
  PROVE  /\ Returned(t, m) \in Traces(N, Z, P)
         /\ Returned(t, m).drained = t.drained
         /\ Returned(t, m).position = t.position
         /\ m <= Len(t.open) => /\ Returned(t, m).orphan = t.orphan
                                /\ Len(Returned(t, m).open) = Len(t.open) - m
                                /\ \A i \in 1 .. Len(t.open) - m :
                                     Returned(t, m).open[i] = t.open[i]
         /\ Len(t.open) <= m => Returned(t, m).open = << >>
<1>1. t.open \in Seq(OpenCalls(N, Z)) /\ Len(t.open) \in Nat
  BY DEF Traces
<1>2. CASE m <= Len(t.open)
  <2>1. Returned(t, m) = [t EXCEPT !.open = SubSeq(t.open, 1, Len(t.open) - m)]
    BY <1>2 DEF Returned
  <2>2. /\ SubSeq(t.open, 1, Len(t.open) - m) \in Seq(OpenCalls(N, Z))
        /\ Len(SubSeq(t.open, 1, Len(t.open) - m)) = Len(t.open) - m
        /\ \A i \in 1 .. Len(t.open) - m : SubSeq(t.open, 1, Len(t.open) - m)[i] = t.open[i]
    <3>1. Len(t.open) - m \in Nat /\ \A i \in 1 .. Len(t.open) - m : t.open[i] \in OpenCalls(N, Z)
      BY <1>1, <1>2
    <3> HIDE <1>2
    <3> QED BY <3>1, SubSeqProperties
  <2>3. Len(t.open) <= m => SubSeq(t.open, 1, Len(t.open) - m) = << >>
    BY <1>1, <1>2, <2>2
  <2> QED BY <1>2, <2>1, <2>2, <2>3 DEF Traces
<1>3. CASE ~ (m <= Len(t.open))
  <2>1. Returned(t, m) = [t EXCEPT !.open = << >>, !.orphan = TRUE]
    BY <1>3 DEF Returned
  <2>2. << >> \in Seq(OpenCalls(N, Z))
    OBVIOUS
  <2> QED BY <1>3, <2>1, <2>2 DEF Traces
<1> QED BY <1>2, <1>3

(***************************************************************************)
(* As many returns as there are calls open, or fewer.                      *)
(***************************************************************************)
LEMMA ReturnedAtMost ==
  ASSUME NEW N, NEW Z, NEW P, NEW t \in Traces(N, Z, P), NEW m \in Nat, m <= Len(t.open)
  PROVE  /\ Returned(t, m).orphan = t.orphan
         /\ Len(Returned(t, m).open) = Len(t.open) - m
         /\ \A i \in 1 .. Len(t.open) - m : Returned(t, m).open[i] = t.open[i]
<1>1. Returned(t, m).orphan = t.orphan
  BY ReturnedOpen
<1>2. Len(Returned(t, m).open) = Len(t.open) - m
  BY ReturnedOpen
<1>3. \A i \in 1 .. Len(t.open) - m : Returned(t, m).open[i] = t.open[i]
  BY ReturnedOpen
<1> QED BY <1>1, <1>2, <1>3

(***************************************************************************)
(* m returns for m frames popped, n staying.                               *)
(***************************************************************************)
LEMMA ReturnedShifted ==
  ASSUME NEW N, NEW Z, NEW P, NEW t \in Traces(N, Z, P), NEW s \in Seq(N),
         NEW m \in Nat, NEW n \in Nat \ {0}, Len(s) = n + m, NEW k \in {0, 1}, Shifted(t, s, k)
  PROVE  /\ Shifted(Returned(t, m), SubSeq(s, 1, n), k)
         /\ Returned(t, m).orphan = t.orphan
<1>1. Len(t.open) \in Nat
  BY DEF Traces
<1>2. Len(t.open) + k = n + m
  BY DEF Shifted
<1>3. m <= Len(t.open) /\ Len(t.open) - m + k = n
  BY ONLY <1>1, <1>2, m \in Nat, n \in Nat \ {0}, k \in {0, 1}
<1>4. Returned(t, m).orphan = t.orphan
  BY <1>3, ReturnedAtMost
<1>5. Len(Returned(t, m).open) = Len(t.open) - m
  BY <1>3, ReturnedAtMost
<1>6. \A i \in 1 .. Len(t.open) - m : Returned(t, m).open[i] = t.open[i]
  BY <1>3, ReturnedAtMost
<1>7. Len(SubSeq(s, 1, n)) = n /\ \A i \in 1 .. n : SubSeq(s, 1, n)[i] = s[i]
  OBVIOUS
<1>8. Len(Returned(t, m).open) + k = Len(SubSeq(s, 1, n))
  BY ONLY <1>3, <1>5, <1>7, Zenon
<1>9. ASSUME NEW i \in 1 .. Len(t.open) - m
      PROVE  Returned(t, m).open[i].fn = SubSeq(s, 1, n)[i + k]
  <2>1. i \in 1 .. Len(t.open) /\ i + k \in 1 .. n
    <3>1. \A p, q \in Nat, h \in Nat \ {0}, j \in {0, 1} :
            p - q + j = h => \A l \in 1 .. p - q : l \in 1 .. p /\ l + j \in 1 .. h
      OBVIOUS
    <3> QED BY ONLY <1>1, <1>3, <1>9, <3>1, m \in Nat, n \in Nat \ {0}, k \in {0, 1}, Zenon
  <2>2. Returned(t, m).open[i] = t.open[i]
    BY ONLY <1>6, <1>9, Zenon
  <2>3. t.open[i].fn = s[i + k]
    BY ONLY <2>1, Shifted(t, s, k), Zenon DEF Shifted
  <2>4. SubSeq(s, 1, n)[i + k] = s[i + k]
    BY ONLY <1>7, <2>1, Zenon
  <2> QED BY ONLY <2>2, <2>3, <2>4, Zenon
<1> QED BY ONLY <1>4, <1>5, <1>8, <1>9, Zenon DEF Shifted

LEMMA ReturnedStack ==
  ASSUME NEW N, NEW Z, NEW P, NEW t \in Traces(N, Z, P), NEW s \in Seq(N), Mirrors(t, s),
         NEW m \in Nat, NEW n \in Nat \ {0}, Len(s) = n + m
  PROVE  /\ SubSeq(s, 1, n) \in Seq(N) /\ SubSeq(s, 1, n) # << >>
         /\ Mirrors(Returned(t, m), SubSeq(s, 1, n))
<1>1. s # << >> /\ SubSeq(s, 1, n) \in Seq(N) /\ SubSeq(s, 1, n) # << >>
  OBVIOUS
<1>2. (Shifted(t, s, 0) /\ ~ t.orphan) \/ Shifted(t, s, 1)
  BY <1>1, MirrorsByIndex
<1>3. Returned(t, m) \in Traces(N, Z, P)
  BY ReturnedOpen
<1>4. CASE Shifted(t, s, 0) /\ ~ t.orphan
  <2>1. Shifted(Returned(t, m), SubSeq(s, 1, n), 0) /\ ~ Returned(t, m).orphan
    BY <1>4, ReturnedShifted
  <2> QED BY ONLY <1>1, <1>3, <2>1, MirrorsByIndex, Zenon
<1>5. CASE Shifted(t, s, 1)
  <2>1. Shifted(Returned(t, m), SubSeq(s, 1, n), 1)
    BY <1>5, ReturnedShifted
  <2> QED BY ONLY <1>1, <1>3, <2>1, MirrorsByIndex, Zenon
<1> QED BY <1>2, <1>4, <1>5

(***************************************************************************)
(* One return for each frame popped.                                       *)
(***************************************************************************)
LEMMA ReturnedMirrors ==
  ASSUME NEW N, NEW Z, NEW P, NEW t \in Traces(N, Z, P), NEW s \in Seq(N), Mirrors(t, s),
         NEW n \in 1 .. Len(s)
  PROVE  /\ SubSeq(s, 1, n) \in Seq(N) /\ SubSeq(s, 1, n) # << >>
         /\ Mirrors(Returned(t, Len(s) - n), SubSeq(s, 1, n))
<1>1. Len(s) - n \in Nat /\ n \in Nat \ {0} /\ Len(s) = n + (Len(s) - n)
  OBVIOUS
<1> QED BY <1>1, ReturnedStack

(***************************************************************************)
(* One return, the outer frame staying: with only that frame left the      *)
(* trace is one call short from then on.                                   *)
(***************************************************************************)
LEMMA ReturnedOnceMirrors ==
  ASSUME NEW N, NEW Z, NEW P, NEW t \in Traces(N, Z, P), NEW s \in Seq(N), s # << >>, Mirrors(t, s),
         NEW n, n = IF Len(s) > 1 THEN Len(s) - 1 ELSE 1
  PROVE  /\ SubSeq(s, 1, n) \in Seq(N) /\ SubSeq(s, 1, n) # << >>
         /\ Mirrors(Returned(t, 1), SubSeq(s, 1, n))
<1>1. CASE Len(s) > 1
  <2>1. n \in 1 .. Len(s) /\ Len(s) - n = 1
    BY <1>1
  <2> QED BY <2>1, ReturnedMirrors
<1>2. CASE ~ (Len(s) > 1)
  <2>0. Len(s) \in Nat \ {0}
    BY EmptySeq
  <2>1. n = 1 /\ Len(s) = 1
    <3>1. \A k \in Nat \ {0} : ~ (k > 1) => k = 1
      OBVIOUS
    <3> QED BY <1>2, <2>0, <3>1, Zenon
  <2>2. SubSeq(s, 1, 1) = s
    BY <2>1
  <2>3. Len(t.open) <= 1
    <3>1. Len(t.open) \in Nat
      BY DEF Traces
    <3>2. Len(t.open) + 0 = Len(s) \/ Len(t.open) + 1 = Len(s)
      BY MirrorsByIndex DEF Shifted
    <3>3. \A a \in Nat : a + 0 = 1 \/ a + 1 = 1 => a <= 1
      OBVIOUS
    <3> QED BY <2>1, <3>1, <3>2, <3>3, Zenon
  <2>4. Returned(t, 1) \in Traces(N, Z, P) /\ Returned(t, 1).open = << >>
    BY <2>3, ReturnedOpen
  <2>5. Shifted(Returned(t, 1), s, 1)
    BY <2>1, <2>4 DEF Shifted
  <2> QED BY <2>1, <2>2, <2>4, <2>5, MirrorsByIndex
<1> QED BY <1>1, <1>2

(***************************************************************************)
(* A step.                                                                 *)
(***************************************************************************)
LEMMA SteppedMirrors ==
  ASSUME NEW N, NEW Z, NEW P, NEW t \in Traces(N, Z, P), NEW s, NEW at \in P
  PROVE  /\ Stepped(t, at) \in Traces(N, Z, P)
         /\ Stepped(t, at).drained = t.drained
         /\ Stepped(t, at).position = at
         /\ Mirrors(t, s) => Mirrors(Stepped(t, at), s)
<1>1. Stepped(t, at) = [t EXCEPT !.position = at]
  BY DEF Stepped
<1>2. /\ Stepped(t, at) \in Traces(N, Z, P)
      /\ Stepped(t, at).open = t.open
      /\ Stepped(t, at).orphan = t.orphan
      /\ Stepped(t, at).drained = t.drained
      /\ Stepped(t, at).position = at
  BY <1>1 DEF Traces
<1> QED BY <1>2 DEF Mirrors, OpenFns

(***************************************************************************)
(* Never more calls are open than there are frames, and as many only when  *)
(* no return has been one too many.                                        *)
(***************************************************************************)
LEMMA OpenCallsOfFrames ==
  ASSUME NEW N, NEW Z, NEW P, NEW t \in Traces(N, Z, P), NEW s \in Seq(N), s # << >>, Mirrors(t, s)
  PROVE  /\ Len(t.open) \in Nat /\ Len(t.open) <= Len(s)
         /\ Len(t.open) = Len(s) => ~ t.orphan
<1>1. Len(t.open) \in Nat
  BY DEF Traces
<1>2. Len(s) \in Nat
  OBVIOUS
<1>3. (Len(t.open) + 0 = Len(s) /\ ~ t.orphan) \/ Len(t.open) + 1 = Len(s)
  BY MirrorsByIndex DEF Shifted
<1>4. \A a, b \in Nat : a + 0 = b => a <= b
  OBVIOUS
<1>5. \A a, b \in Nat : a + 1 = b => a <= b /\ a # b
  OBVIOUS
<1> QED BY <1>1, <1>2, <1>3, <1>4, <1>5, Zenon

(***************************************************************************)
(* The end of a trace.                                                     *)
(***************************************************************************)
LEMMA ClosedTrace ==
  ASSUME NEW N, NEW Z, NEW P, NEW t \in Traces(N, Z, P)
  PROVE  /\ Closed(t) \in Traces(N, Z, P)
         /\ Closed(t).drained = Len(t.open)
         /\ Closed(t).orphan = t.orphan
         /\ Closed(t).position = t.position
<1>1. Closed(t) = [t EXCEPT !.open = << >>, !.drained = Len(t.open)]
  BY DEF Closed
<1>2. << >> \in Seq(OpenCalls(N, Z)) /\ Len(t.open) \in Nat
  BY DEF Traces
<1> QED BY <1>1, <1>2 DEF Traces

(***************************************************************************)
(* The innermost of the frames of a function, or the outer frame, is a     *)
(* frame there is.                                                         *)
(***************************************************************************)
LEMMA InnermostFrame ==
  ASSUME NEW N, NEW s \in Seq(N), s # << >>, NEW fn
  PROVE  LET candidates == {1} \cup {i \in DOMAIN s : s[i] = fn}
         IN  (CHOOSE n \in candidates : \A m \in candidates : m <= n) \in 1 .. Len(s)
<1> DEFINE candidates == {1} \cup {i \in DOMAIN s : s[i] = fn}
<1>1. 1 \in Int /\ Len(s) \in Int /\ \A i \in candidates : i \in 1 .. Len(s)
  OBVIOUS
<1>2. candidates # {}
  OBVIOUS
<1> HIDE DEF candidates
<1>3. \E n \in candidates : \A m \in candidates : m <= n
  BY ONLY <1>1, <1>2, GreatestMember, Zenon
<1>4. (CHOOSE n \in candidates : \A m \in candidates : m <= n) \in candidates
  BY <1>3
<1> QED BY <1>1, <1>4 DEF candidates

(***************************************************************************)
(* A trace with one call open.                                             *)
(***************************************************************************)
LEMMA StartedMirrors ==
  ASSUME NEW N, NEW Z, NEW P, NEW outer \in N
  PROVE  /\ Called(StartedTrace(Z), outer, Z) \in Traces(N, Z, P)
         /\ Called(StartedTrace(Z), outer, Z).drained = 0
         /\ Mirrors(Called(StartedTrace(Z), outer, Z), << outer >>)
<1> DEFINE t == Called(StartedTrace(Z), outer, Z)
           call == [fn |-> outer, target |-> Z]
<1>1. t = [open |-> << call >>, orphan |-> FALSE, drained |-> 0, position |-> Z]
  <2> DEFINE t0 == StartedTrace(Z)
  <2>1. t = [t0 EXCEPT !.open = Append(t0.open, call)]
    BY DEF Called
  <2>2. t0 = [open |-> << >>, orphan |-> FALSE, drained |-> 0, position |-> Z]
    BY DEF StartedTrace
  <2>3. Append(t0.open, call) = << call >>
    BY <2>2
  <2> HIDE DEF t0, call, t
  <2> QED BY <2>1, <2>2, <2>3
<1>2. << call >> \in Seq(OpenCalls(N, Z))
  <2>1. call \in OpenCalls(N, Z)
    BY DEF OpenCalls
  <2> HIDE DEF call
  <2> QED BY <2>1
<1>3. call.fn = outer
  OBVIOUS
<1>4. << outer >> \in Seq(N) /\ << outer >> # << >> /\ Len(<< outer >>) = 1 /\ << outer >>[1] = outer
  OBVIOUS
<1> HIDE DEF call, t
<1>5. t \in Traces(N, Z, P)
  BY <1>1, <1>2 DEF Traces
<1>6. Shifted(t, << outer >>, 0) /\ ~ t.orphan
  BY <1>1, <1>3, <1>4 DEF Shifted
<1>7. Mirrors(t, << outer >>)
  BY <1>4, <1>5, <1>6, MirrorsByIndex
<1> QED BY <1>1, <1>5, <1>7 DEF t
=============================================================================
