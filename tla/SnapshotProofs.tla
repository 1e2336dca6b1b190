--------------------------- MODULE SnapshotProofs ---------------------------
(***************************************************************************)
(* Proofs about the monitor's snapshot: for any number of nodes, assets    *)
(* and exits, and any history of calls, what build computes from the       *)
(* events of the exit layer is what the contracts hold.                    *)
(*                                                                         *)
(* build and Array.filter are folds.  A fold over one more entry is one    *)
(* more step, which needs an induction; it goes by the least number for    *)
(* which the claim fails.                                                  *)
(***************************************************************************)
EXTENDS ExitEvents, ExitAuctionProofs, WellFoundedInduction

-----------------------------------------------------------------------------
(* Numbers.                                                                *)

\* A nonempty set of naturals has a least element.
LEMMA LeastNumber ==
  ASSUME NEW S, S \subseteq Nat, S # {}
  PROVE  \E m \in S : \A k \in S : m <= k
<1> DEFINE R == {ss \in Nat \X Nat : ss[1] < ss[2]}
<1>1. OpToRel(<, Nat) = R
  BY DEF OpToRel
<1>2. IsWellFoundedOn(R, Nat)
  BY <1>1, NatLessThanWellFounded
<1> HIDE DEF R
<1>3. PICK m \in S : \A k \in S : <<k, m>> \notin R
  BY <1>2, WFMin
<1>4. \A k \in S : ~(k < m)
  BY <1>3 DEF R
<1> QED BY <1>3, <1>4

\* What begins at 0 and goes from each number to the next holds of all numbers.
LEMMA ByInduction ==
  ASSUME NEW S, 0 \in S, \A k \in Nat : k \in S => k + 1 \in S
  PROVE  \A k \in Nat : k \in S
<1> DEFINE T == {k \in Nat : k \notin S}
<1> SUFFICES ASSUME T # {} PROVE FALSE
  OBVIOUS
<1>1. PICK m \in T : \A k \in T : m <= k
  <2>1. T \subseteq Nat
    OBVIOUS
  <2> HIDE DEF T
  <2> QED BY <2>1, LeastNumber
<1>2. m \in Nat /\ m # 0 /\ m - 1 \in Nat
  BY <1>1
<1>3. m - 1 \notin T
  BY <1>1, <1>2
<1>4. m - 1 \in S /\ (m - 1) + 1 = m
  BY <1>2, <1>3
<1> QED BY <1>1, <1>2, <1>4

\* The greatest number of a set of indices, and what is left without it.
LEMMA LastOf ==
  ASSUME NEW k \in Nat, NEW T, T \subseteq 1 .. k, T # {}
  PROVE  /\ Max(T) \in T /\ Max(T) \in 1 .. k
         /\ T \ {Max(T)} \subseteq 1 .. (Max(T) - 1)
<1> DEFINE U == {u \in Nat : \A t \in T : t <= u}
<1>1. PICK m \in U : \A u \in U : m <= u
  <2>1. U \subseteq Nat /\ k \in U
    OBVIOUS
  <2> HIDE DEF U
  <2> QED BY <2>1, LeastNumber
<1>2. m \in T
  <2> SUFFICES ASSUME m \notin T PROVE FALSE
    OBVIOUS
  <2>1. PICK t0 \in T : TRUE
    OBVIOUS
  <2>2. \A t \in T : t \in Nat /\ t # m /\ t <= m /\ t <= m - 1
    BY <1>1
  <2>3. m - 1 \in U
    BY <1>1, <2>1, <2>2
  <2> QED BY <1>1, <2>3
<1> DEFINE G(x) == \A t \in T : x >= t
<1>3. Max(T) = CHOOSE x \in T : G(x)
  BY DEF Max
<1>4. \E x \in T : G(x)
  BY <1>1, <1>2
<1>5. (CHOOSE x \in T : G(x)) \in T /\ G(CHOOSE x \in T : G(x))
  <2> HIDE DEF G
  <2> QED BY <1>4
<1>6. Max(T) \in T /\ \A t \in T : Max(T) >= t
  BY <1>3, <1>5
<1> DEFINE mm == Max(T)
<1>7. mm \in T /\ \A t \in T : mm >= t
  BY <1>6
<1> HIDE DEF mm
<1>8. mm \in T /\ mm \in 1 .. k /\ T \ {mm} \subseteq 1 .. (mm - 1)
  BY <1>7
<1> QED BY <1>8 DEF mm

-----------------------------------------------------------------------------
(* Folds.                                                                  *)

\* The indices 1 .. n without the last.
LEMMA LastIndex ==
  ASSUME NEW n \in Nat \ {0}
  PROVE  Max(1 .. n) = n /\ (1 .. n) \ {n} = 1 .. (n - 1)
<1>1. Max(1 .. n) \in 1 .. n /\ (1 .. n) \ {Max(1 .. n)} \subseteq 1 .. (Max(1 .. n) - 1)
  <2>1. n \in Nat /\ 1 .. n \subseteq 1 .. n /\ 1 .. n # {}
    OBVIOUS
  <2> QED BY <2>1, LastOf
<1>2. n \in 1 .. n
  OBVIOUS
<1>3. Max(1 .. n) = n
  <2> DEFINE m == Max(1 .. n)
  <2>1. m = n \/ n \in 1 .. (m - 1)
    BY <1>1, <1>2
  <2> HIDE DEF m
  <2>2. m \in 1 .. n
    BY <1>1 DEF m
  <2> QED BY <2>1, <2>2 DEF m
<1> QED BY <1>3

\* One step of a fold: of build over an event, or of a filter by the set W over an
\* entry.  They are treated as one, because a lemma cannot be instantiated with an operator.
Step(b, W, v, x) ==
    IF b = "build" THEN Apply(v, x) ELSE IF x \in W THEN Append(v, x) ELSE v

Fold(b, W, v, q) ==
    IF b = "build" THEN FoldLeft(Apply, v, q)
    ELSE FoldLeft(LAMBDA kept, x : IF x \in W THEN Append(kept, x) ELSE kept, v, q)

\* f is the pass from s over the entries of q, for every set of indices up to k.
PassOver(b, W, f, s, q, k) ==
    f = [T \in SUBSET (1 .. k) |->
            IF T = {} THEN s ELSE Step(b, W, f[T \ {Max(T)}], q[Max(T)])]

\* There is such a pass.
LEMMA PassExists ==
  ASSUME NEW b, NEW W, NEW s, NEW q
  PROVE  \A k \in Nat : \E f : PassOver(b, W, f, s, q, k)
<1> DEFINE K == {k \in Nat : \E f : PassOver(b, W, f, s, q, k)}
<1>1. 0 \in K
  <2> DEFINE f == [T \in SUBSET (1 .. 0) |-> s]
  <2>1. \A T \in SUBSET (1 .. 0) : T = {}
    OBVIOUS
  <2>2. f = [T \in SUBSET (1 .. 0) |->
               IF T = {} THEN s ELSE Step(b, W, f[T \ {Max(T)}], q[Max(T)])]
    BY <2>1, Zenon
  <2>3. PassOver(b, W, f, s, q, 0)
    BY <2>2, Zenon DEF PassOver
  <2> HIDE DEF f
  <2> QED BY <2>3
<1>2. ASSUME NEW k \in Nat, k \in K PROVE k + 1 \in K
  <2>1. PICK f : PassOver(b, W, f, s, q, k)
    BY <1>2
  <2> DEFINE D == SUBSET (1 .. k)
             E == SUBSET (1 .. (k + 1))
             g == [T \in E |-> IF T \in D THEN f[T] ELSE Step(b, W, f[T \ {Max(T)}], q[Max(T)])]
  <2>2. \A T \in D : f[T] = IF T = {} THEN s ELSE Step(b, W, f[T \ {Max(T)}], q[Max(T)])
    BY <2>1, Zenon DEF PassOver
  <2>3. ASSUME NEW T \in E, T # {} PROVE T \ {Max(T)} \in D /\ T \ {Max(T)} \in E
    <3> DEFINE m == Max(T)
    <3>1. k + 1 \in Nat
      OBVIOUS
    <3>2. m \in 1 .. (k + 1) /\ T \ {m} \subseteq 1 .. (m - 1)
      BY <2>3, <3>1, LastOf
    <3> HIDE DEF m
    <3>3. T \ {m} \subseteq 1 .. k /\ T \ {m} \subseteq 1 .. (k + 1)
      BY <3>2
    <3> QED BY <3>3 DEF m
  <2>4. {} \in D
    OBVIOUS
  <2>5. \A T \in E : g[T] = IF T = {} THEN s ELSE Step(b, W, g[T \ {Max(T)}], q[Max(T)])
    <3> SUFFICES ASSUME NEW T \in E
                 PROVE  g[T] = IF T = {} THEN s ELSE Step(b, W, g[T \ {Max(T)}], q[Max(T)])
      OBVIOUS
    <3>1. g[T] = IF T \in D THEN f[T] ELSE Step(b, W, f[T \ {Max(T)}], q[Max(T)])
      OBVIOUS
    <3>2. CASE T = {}
      BY <3>1, <3>2, <2>2, <2>4, Zenon
    <3>3. CASE T # {}
      <4>1. g[T \ {Max(T)}] = f[T \ {Max(T)}]
        BY <2>3, <3>3, Zenon
      <4> QED BY <3>1, <3>3, <4>1, <2>2, Zenon
    <3> QED BY <3>2, <3>3
  <2>6. g = [T \in E |-> g[T]]
    BY Zenon
  <2>7. PassOver(b, W, g, s, q, k + 1)
    <3> HIDE DEF g
    <3> QED BY <2>5, <2>6, Zenon DEF PassOver
  <2> HIDE DEF g
  <2> QED BY <2>7
<1> HIDE DEF K
<1>3. \A k \in Nat : k \in K
  BY <1>1, <1>2, ByInduction
<1> QED BY <1>3 DEF K

\* The first k entries of q are those of r.
AsFarAs(k, q, r) == \A i \in 1 .. k : q[i] = r[i]

\* Passes over entries that begin alike agree on the part they share.
LEMMA PassesAgree ==
  ASSUME NEW b, NEW W, NEW s, NEW q, NEW r, NEW f, NEW g, NEW k \in Nat, NEW l \in Nat,
         PassOver(b, W, f, s, q, k), PassOver(b, W, g, s, r, l), k <= l,
         AsFarAs(k, q, r)
  PROVE  f[1 .. k] = g[1 .. k]
<1> DEFINE K == {j \in Nat : j <= k => \A T \in SUBSET (1 .. j) : f[T] = g[T]}
<1>1. /\ \A T \in SUBSET (1 .. k) :
              f[T] = IF T = {} THEN s ELSE Step(b, W, f[T \ {Max(T)}], q[Max(T)])
      /\ \A T \in SUBSET (1 .. l) :
              g[T] = IF T = {} THEN s ELSE Step(b, W, g[T \ {Max(T)}], r[Max(T)])
  BY Zenon DEF PassOver
<1>2. \A j \in Nat : j <= k => 1 .. j \subseteq 1 .. k /\ 1 .. j \subseteq 1 .. l
  OBVIOUS
<1>3. 0 \in K
  <2>1. \A T \in SUBSET (1 .. 0) : T = {} /\ T \in SUBSET (1 .. k) /\ T \in SUBSET (1 .. l)
    OBVIOUS
  <2>2. \A T \in SUBSET (1 .. 0) : f[T] = g[T]
    BY <2>1, <1>1, Zenon
  <2> QED BY <2>2
<1>4. ASSUME NEW j \in Nat, j \in K PROVE j + 1 \in K
  <2>0. j + 1 \in Nat
    OBVIOUS
  <2> SUFFICES ASSUME j + 1 <= k, NEW T \in SUBSET (1 .. (j + 1)) PROVE f[T] = g[T]
    BY <2>0, Zenon
  <2>1. T \in SUBSET (1 .. k) /\ T \in SUBSET (1 .. l)
    BY <1>2
  <2>2. CASE T = {}
    BY <2>1, <2>2, <1>1, Zenon
  <2>3. CASE T # {}
    <3> DEFINE n == Max(T)
    <3>1. j + 1 \in Nat /\ T \subseteq 1 .. (j + 1)
      OBVIOUS
    <3>2. n \in 1 .. (j + 1) /\ T \ {n} \subseteq 1 .. (n - 1)
      BY <2>3, <3>1, LastOf
    <3>3. f[T] = Step(b, W, f[T \ {n}], q[n]) /\ g[T] = Step(b, W, g[T \ {n}], r[n])
      BY <2>1, <2>3, <1>1, Zenon
    <3> HIDE DEF n
    <3>4. T \ {n} \in SUBSET (1 .. j) /\ n \in 1 .. k
      BY <3>2
    <3>5. f[T \ {n}] = g[T \ {n}]
      BY <3>4, <1>4
    <3>6. q[n] = r[n]
      BY <3>4 DEF AsFarAs
    <3> QED BY <3>3, <3>5, <3>6
  <2> QED BY <2>2, <2>3
<1> HIDE DEF K
<1>5. k \in K
  BY <1>3, <1>4, ByInduction
<1>6. 1 .. k \in SUBSET (1 .. k)
  OBVIOUS
<1> QED BY <1>5, <1>6 DEF K

\* The fold is the pass.
LEMMA FoldIsPass ==
  ASSUME NEW b, NEW W, NEW s, NEW q, NEW n \in Nat, DOMAIN q = 1 .. n
  PROVE  \E f : PassOver(b, W, f, s, q, n) /\ Fold(b, W, s, q) = f[1 .. n]
<1>1. \E f : PassOver(b, W, f, s, q, n)
  BY PassExists
<1>2. CASE b = "build"
  <2> DEFINE P(f) == f = [T \in SUBSET (1 .. n) |->
                            IF T = {} THEN s ELSE Apply(f[T \ {Max(T)}], q[Max(T)])]
             iter == CHOOSE f : P(f)
  <2>1. Fold(b, W, s, q) = iter[1 .. n]
    BY <1>2 DEF Fold, FoldLeft, MapThenFoldSet
  <2>2. \A f : P(f) <=> PassOver(b, W, f, s, q, n)
    BY <1>2 DEF PassOver, Step
  <2>3. P(iter)
    <3> HIDE DEF P
    <3> QED BY <1>1, <2>2
  <2>4. PassOver(b, W, iter, s, q, n)
    <3> HIDE DEF P, iter
    <3> QED BY <2>2, <2>3
  <2> HIDE DEF iter
  <2> QED BY <2>1, <2>4
<1>3. CASE b # "build"
  <2> DEFINE P(f) == f = [T \in SUBSET (1 .. n) |->
                            IF T = {} THEN s
                            ELSE IF q[Max(T)] \in W
                                 THEN Append(f[T \ {Max(T)}], q[Max(T)])
                                 ELSE f[T \ {Max(T)}]]
             iter == CHOOSE f : P(f)
  <2>1. Fold(b, W, s, q) = iter[1 .. n]
    BY <1>3 DEF Fold, FoldLeft, MapThenFoldSet
  <2>2. \A f : P(f) <=> PassOver(b, W, f, s, q, n)
    BY <1>3 DEF PassOver, Step
  <2>3. P(iter)
    <3> HIDE DEF P
    <3> QED BY <1>1, <2>2
  <2>4. PassOver(b, W, iter, s, q, n)
    <3> HIDE DEF P, iter
    <3> QED BY <2>2, <2>3
  <2> HIDE DEF iter
  <2> QED BY <2>1, <2>4
<1> QED BY <1>2, <1>3

\* Over nothing the fold is where it began.
LEMMA FoldNothing ==
  ASSUME NEW b, NEW W, NEW s
  PROVE  Fold(b, W, s, <<>>) = s
<1>1. 0 \in Nat /\ DOMAIN <<>> = 1 .. 0 /\ 1 .. 0 = {} /\ {} \in SUBSET (1 .. 0)
  OBVIOUS
<1>2. PICK f : PassOver(b, W, f, s, <<>>, 0) /\ Fold(b, W, s, <<>>) = f[1 .. 0]
  BY <1>1, FoldIsPass
<1>3. f[{}] = s
  BY <1>1, <1>2, Zenon DEF PassOver
<1> QED BY <1>1, <1>2, <1>3

\* The same pass, one index further.
LEMMA PassOneMore ==
  ASSUME NEW b, NEW W, NEW s, NEW r, NEW n \in Nat, NEW l \in Nat, l = n + 1,
         NEW g, PassOver(b, W, g, s, r, l)
  PROVE  g[1 .. l] = Step(b, W, g[1 .. n], r[l])
<1>1. /\ 1 .. l \in SUBSET (1 .. l) /\ 1 .. l # {}
      /\ Max(1 .. l) = l /\ (1 .. l) \ {l} = 1 .. n
  <2>1. l \in Nat \ {0} /\ l - 1 = n
    OBVIOUS
  <2> QED BY <2>1, LastIndex
<1>2. g[1 .. l] = Step(b, W, g[(1 .. l) \ {Max(1 .. l)}], r[Max(1 .. l)])
  BY <1>1, Zenon DEF PassOver
<1> QED BY <1>1, <1>2

\* One entry more is one step more.
LEMMA FoldOneMore ==
  ASSUME NEW b, NEW W, NEW s, NEW X, NEW q \in Seq(X), NEW e \in X
  PROVE  Fold(b, W, s, Append(q, e)) = Step(b, W, Fold(b, W, s, q), e)
<1> DEFINE n == Len(q)
           r == Append(q, e)
           l == n + 1
<1>1. n \in Nat /\ DOMAIN q = 1 .. n
  OBVIOUS
<1>2. l \in Nat /\ l = n + 1 /\ n <= l /\ DOMAIN r = 1 .. l /\ r[l] = e
  OBVIOUS
<1>3. AsFarAs(n, q, r)
  BY DEF AsFarAs
<1> HIDE DEF n, r, l
<1>4. PICK f : PassOver(b, W, f, s, q, n) /\ Fold(b, W, s, q) = f[1 .. n]
  BY <1>1, FoldIsPass
<1>5. PICK g : PassOver(b, W, g, s, r, l) /\ Fold(b, W, s, r) = g[1 .. l]
  BY <1>2, FoldIsPass
<1>6. f[1 .. n] = g[1 .. n]
  <2>1. n \in Nat /\ l \in Nat /\ n <= l
    BY <1>1, <1>2
  <2>2. PassOver(b, W, f, s, q, n) /\ PassOver(b, W, g, s, r, l)
    BY <1>4, <1>5
  <2> QED BY <2>1, <2>2, <1>3, PassesAgree
<1>7. g[1 .. l] = Step(b, W, g[1 .. n], r[l])
  BY <1>1, <1>2, <1>5, PassOneMore
<1> QED BY <1>2, <1>4, <1>5, <1>6, <1>7 DEF r

LEMMA Singletons ==
  ASSUME NEW X
  PROVE  <<>> \in Seq(X) /\ \A e \in X : <<e>> \in Seq(X)
OBVIOUS

\* The monitor's pass over the events of one transaction, event by event.
PassOf(s, q) == FoldLeft(Apply, s, q)

LEMMA PassOfOne ==
  ASSUME NEW s, NEW e
  PROVE  PassOf(s, <<>>) = s /\ PassOf(s, <<e>>) = Apply(s, e)
<1> DEFINE X == {e}
<1>1. <<>> \in Seq(X) /\ e \in X /\ <<e>> = Append(<<>>, e)
  OBVIOUS
<1>2. \A q : Fold("build", {}, s, q) = PassOf(s, q)
  BY DEF Fold, PassOf
<1>3. Fold("build", {}, s, <<>>) = s
  BY FoldNothing
<1> HIDE DEF X
<1>4. Fold("build", {}, s, <<e>>) = Step("build", {}, Fold("build", {}, s, <<>>), e)
  <2>1. Fold("build", {}, s, Append(<<>>, e)) = Step("build", {}, Fold("build", {}, s, <<>>), e)
    <3>1. \A q \in Seq(X) : Fold("build", {}, s, Append(q, e)) = Step("build", {}, Fold("build", {}, s, q), e)
      BY <1>1, FoldOneMore
    <3> QED BY <1>1, <3>1
  <2> QED BY <1>1, <2>1
<1>5. Step("build", {}, s, e) = Apply(s, e)
  BY DEF Step
<1> QED BY <1>2, <1>3, <1>4, <1>5

LEMMA PassOfMore ==
  ASSUME NEW s, NEW X, NEW p \in Seq(X), NEW q, q = <<>> \/ \E e \in X : q = <<e>>
  PROVE  PassOf(s, p \o q) = PassOf(PassOf(s, p), q)
<1>1. CASE q = <<>>
  <2>1. p \o q = p
    BY <1>1
  <2> QED BY <1>1, <2>1, PassOfOne
<1>2. ASSUME NEW e \in X, q = <<e>> PROVE PassOf(s, p \o q) = PassOf(PassOf(s, p), q)
  <2>1. p \o q = Append(p, e)
    BY <1>2
  <2>2. \A r : Fold("build", {}, s, r) = PassOf(s, r)
    BY DEF Fold, PassOf
  <2>3. Fold("build", {}, s, Append(p, e)) = Step("build", {}, Fold("build", {}, s, p), e)
    BY FoldOneMore
  <2>4. Step("build", {}, PassOf(s, p), e) = Apply(PassOf(s, p), e)
    BY DEF Step
  <2>5. PassOf(PassOf(s, p), q) = Apply(PassOf(s, p), e)
    BY <1>2, PassOfOne
  <2> QED BY <2>1, <2>2, <2>3, <2>4, <2>5
<1> QED BY <1>1, <1>2

\* Filtering a list whose entries but the i-th are wanted; behind the end there is none.
LEMMA FilterOut ==
  ASSUME NEW X, NEW q \in Seq(X), NEW S, NEW i \in 1 .. (Len(q) + 1),
         \A j \in 1 .. Len(q) : q[j] \in S <=> j # i
  PROVE  /\ Filter(q, S) \in Seq(X)
         /\ Len(Filter(q, S)) = IF i <= Len(q) THEN Len(q) - 1 ELSE Len(q)
         /\ \A k \in 1 .. Len(Filter(q, S)) :
               Filter(q, S)[k] = q[IF k < i THEN k ELSE k + 1]
<1> DEFINE n == Len(q)
           R(k) == Fold("filter", S, <<>>, SubSeq(q, 1, k))
           P(r, k) == /\ r \in Seq(X)
                      /\ Len(r) = IF i <= k THEN k - 1 ELSE k
                      /\ \A j \in 1 .. Len(r) : r[j] = q[IF j < i THEN j ELSE j + 1]
           T == {k \in Nat : k <= n => P(R(k), k)}
<1>1. n \in Nat /\ SubSeq(q, 1, n) = q /\ SubSeq(q, 1, 0) = <<>>
  OBVIOUS
<1>2. 0 \in T
  <2>1. R(0) = <<>>
    BY <1>1, FoldNothing
  <2>2. P(<<>>, 0)
    OBVIOUS
  <2> HIDE DEF P, R
  <2> QED BY <2>1, <2>2
<1>3. ASSUME NEW k \in Nat, k \in T PROVE k + 1 \in T
  <2>0. k + 1 \in Nat
    OBVIOUS
  <2> SUFFICES ASSUME k + 1 <= n PROVE P(R(k + 1), k + 1)
    BY <2>0
  <2> DEFINE h == SubSeq(q, 1, k)
             x == q[k + 1]
  <2>1. h \in Seq(X) /\ x \in X /\ SubSeq(q, 1, k + 1) = Append(h, x)
    OBVIOUS
  <2>2. k <= n
    OBVIOUS
  <2>3. P(R(k), k)
    BY <1>3, <2>2
  <2>4. x \in S <=> k + 1 # i
    OBVIOUS
  <2>5. R(k + 1) = IF x \in S THEN Append(R(k), x) ELSE R(k)
    <3>1. R(k + 1) = Step("filter", S, R(k), x)
      <4>1. Fold("filter", S, <<>>, Append(h, x)) = Step("filter", S, Fold("filter", S, <<>>, h), x)
        <5> HIDE DEF h, x
        <5> QED BY <2>1, FoldOneMore
      <4> QED BY <2>1, <4>1
    <3> HIDE DEF x
    <3> QED BY <3>1 DEF Step
  <2> DEFINE r == R(k)
             t == R(k + 1)
  <2>6. P(r, k) /\ t = IF k + 1 # i THEN Append(r, x) ELSE r
    BY <2>3, <2>4, <2>5
  <2> HIDE DEF r, t, R
  <2>7. P(t, k + 1)
    <3>1. CASE k + 1 # i
      <4>1. t = Append(r, x) /\ r \in Seq(X) /\ x \in X
        BY <2>6, <3>1
      <4>2. /\ t \in Seq(X) /\ Len(t) = Len(r) + 1 /\ t[Len(t)] = x
            /\ \A j \in 1 .. Len(r) : t[j] = r[j]
        BY <4>1
      <4>3. Len(r) = IF i <= k THEN k - 1 ELSE k
        BY <2>6
      <4>4. Len(t) = IF i <= k + 1 THEN k ELSE k + 1
        BY <4>2, <4>3, <3>1
      <4>5. x = q[IF Len(t) < i THEN Len(t) ELSE Len(t) + 1]
        BY <4>4, <3>1
      <4>6. \A j \in 1 .. Len(t) : t[j] = q[IF j < i THEN j ELSE j + 1]
        BY <4>2, <4>5, <2>6
      <4>7. Len(t) = IF i <= k + 1 THEN (k + 1) - 1 ELSE k + 1
        BY <4>4
      <4> HIDE DEF x
      <4> QED BY <4>2, <4>6, <4>7
    <3>2. CASE k + 1 = i
      BY <2>6, <3>2
    <3> QED BY <3>1, <3>2
  <2> QED BY <2>7 DEF t
<1>4. n \in T
  <2> HIDE DEF T
  <2> QED BY <1>1, <1>2, <1>3, ByInduction
<1>5. P(R(n), n)
  <2> HIDE DEF P, R
  <2> QED BY <1>1, <1>4
<1>6. R(n) = Filter(q, S)
  BY <1>1 DEF Fold, Filter
<1> HIDE DEF R
<1> QED BY <1>5, <1>6

\* A list all of whose entries are wanted stays as it is.
LEMMA FilterAll ==
  ASSUME NEW X, NEW q \in Seq(X), NEW S, \A j \in 1 .. Len(q) : q[j] \in S
  PROVE  Filter(q, S) = q
<1> DEFINE r == Filter(q, S)
           i == Len(q) + 1
<1>1. i \in 1 .. (Len(q) + 1) /\ \A j \in 1 .. Len(q) : q[j] \in S <=> j # i
  OBVIOUS
<1>2. /\ r \in Seq(X) /\ Len(r) = IF i <= Len(q) THEN Len(q) - 1 ELSE Len(q)
      /\ \A k \in 1 .. Len(r) : r[k] = q[IF k < i THEN k ELSE k + 1]
  <2> HIDE DEF r, i
  <2> QED BY <1>1, FilterOut DEF r
<1> HIDE DEF r
<1> QED BY <1>2 DEF r

-----------------------------------------------------------------------------
(* The snapshot, entry by entry.                                           *)

\* The maps from some of K to R.
Maps(K, R) == UNION {[D -> R] : D \in SUBSET K}

States == {"unknown", "open", "queued", "settled", "cancelled", "refunded", "left_queue"}
ExitKeys == Assets \X ExitIds
NodeEntries == [depositedAtLastReport : Nat, usdcPaidOut : Nat, fillsWon : Nat]
ExitEntries == [state : States, bestBid : Nat]
AssetEntries == [settled : Nat, usdcSettled : Nat, tokensSettled : Nat, feesPaid : Nat,
                 queue : Seq(ExitIds)]
Snapshots == [assets : Maps(Assets, AssetEntries), nodes : Maps(Nodes, NodeEntries),
              exits : Maps(ExitKeys, ExitEntries), feesTotal : Nat, usdcTotal : Nat]

AssetOf(s, a) == Entry(s.assets, a, BlankAsset)
NodeOf(s, n) == Entry(s.nodes, n, BlankNode)
ExitAt(s, k) == Entry(s.exits, k, BlankExit)

\* An entry is written.
WriteAsset(s, a, y) == [s EXCEPT !.assets = Put(@, a, y)]
WriteNode(s, n, y) == [s EXCEPT !.nodes = Put(@, n, y)]
WriteExit(s, k, y) == [s EXCEPT !.exits = Put(@, k, y)]

\* Putting an entry into a map.
LEMMA PutType ==
  ASSUME NEW K, NEW R, NEW f \in Maps(K, R), NEW x \in K, NEW y \in R
  PROVE  Put(f, x, y) \in Maps(K, R)
<1> DEFINE D == DOMAIN f
           g == [z \in D \cup {x} |-> IF z = x THEN y ELSE f[z]]
<1>1. D \in SUBSET K /\ f \in [D -> R]
  BY DEF Maps
<1>2. Put(f, x, y) = g
  BY DEF Put
<1>3. D \cup {x} \in SUBSET K /\ g \in [D \cup {x} -> R]
  BY <1>1
<1> HIDE DEF g
<1> QED BY <1>2, <1>3 DEF Maps

\* The entries after that.
LEMMA PutEntry ==
  ASSUME NEW K, NEW R, NEW f \in Maps(K, R), NEW x \in K, NEW y \in R, NEW b
  PROVE  \A z : Entry(Put(f, x, y), z, b) = IF z = x THEN y ELSE Entry(f, z, b)
<1> DEFINE g == Put(f, x, y)
<1>1. /\ DOMAIN g = DOMAIN f \cup {x} /\ g[x] = y
      /\ \A z \in DOMAIN f : z # x => g[z] = f[z]
  BY DEF Put
<1> HIDE DEF g
<1>2. \A z : Entry(g, z, b) = IF z = x THEN y ELSE Entry(f, z, b)
  BY <1>1 DEF Entry
<1> QED BY <1>2 DEF g

\* An entry that is there or blank.
LEMMA EntryType ==
  ASSUME NEW K, NEW R, NEW f \in Maps(K, R), NEW b \in R, NEW x
  PROVE  Entry(f, x, b) \in R
BY DEF Maps, Entry

\* Writing an entry that is there.
LEMMA PutThere ==
  ASSUME NEW K, NEW R, NEW f \in Maps(K, R), NEW x \in DOMAIN f, NEW y
  PROVE  [f EXCEPT ![x] = y] = Put(f, x, y)
BY DEF Maps, Put

\* The same for each of the three maps.
LEMMA NodePut ==
  ASSUME NEW f \in Maps(Nodes, NodeEntries), NEW x \in Nodes, NEW y \in NodeEntries
  PROVE  /\ Put(f, x, y) \in Maps(Nodes, NodeEntries)
         /\ x \in DOMAIN Put(f, x, y) /\ Put(f, x, y)[x] = y
         /\ \A z : Entry(Put(f, x, y), z, BlankNode) = IF z = x THEN y ELSE Entry(f, z, BlankNode)
<1>1. \A z : Entry(Put(f, x, y), z, BlankNode) = IF z = x THEN y ELSE Entry(f, z, BlankNode)
  BY PutEntry
<1>2. x \in DOMAIN Put(f, x, y) /\ Put(f, x, y)[x] = y
  BY DEF Put
<1>3. Put(f, x, y) \in Maps(Nodes, NodeEntries)
  BY PutType
<1> QED BY <1>1, <1>2, <1>3

LEMMA AssetPut ==
  ASSUME NEW f \in Maps(Assets, AssetEntries), NEW x \in Assets, NEW y \in AssetEntries
  PROVE  /\ Put(f, x, y) \in Maps(Assets, AssetEntries)
         /\ x \in DOMAIN Put(f, x, y) /\ Put(f, x, y)[x] = y
         /\ \A z : Entry(Put(f, x, y), z, BlankAsset) = IF z = x THEN y ELSE Entry(f, z, BlankAsset)
<1>1. \A z : Entry(Put(f, x, y), z, BlankAsset) = IF z = x THEN y ELSE Entry(f, z, BlankAsset)
  BY PutEntry
<1>2. x \in DOMAIN Put(f, x, y) /\ Put(f, x, y)[x] = y
  BY DEF Put
<1>3. Put(f, x, y) \in Maps(Assets, AssetEntries)
  BY PutType
<1> QED BY <1>1, <1>2, <1>3

LEMMA ExitPut ==
  ASSUME NEW f \in Maps(ExitKeys, ExitEntries), NEW x \in ExitKeys, NEW y \in ExitEntries
  PROVE  /\ Put(f, x, y) \in Maps(ExitKeys, ExitEntries)
         /\ DOMAIN Put(f, x, y) = DOMAIN f \cup {x}
         /\ \A z : Entry(Put(f, x, y), z, BlankExit) = IF z = x THEN y ELSE Entry(f, z, BlankExit)
<1>1. \A z : Entry(Put(f, x, y), z, BlankExit) = IF z = x THEN y ELSE Entry(f, z, BlankExit)
  BY PutEntry
<1>2. DOMAIN Put(f, x, y) = DOMAIN f \cup {x}
  BY DEF Put
<1>3. Put(f, x, y) \in Maps(ExitKeys, ExitEntries)
  BY PutType
<1> QED BY <1>1, <1>2, <1>3

\* The parts of a snapshot, and a snapshot with one of them replaced.
LEMMA SnapshotParts ==
  ASSUME NEW s \in Snapshots
  PROVE  /\ s.assets \in Maps(Assets, AssetEntries) /\ s.nodes \in Maps(Nodes, NodeEntries)
         /\ s.exits \in Maps(ExitKeys, ExitEntries) /\ s.feesTotal \in Nat /\ s.usdcTotal \in Nat
         /\ \A f \in Maps(Assets, AssetEntries) : [s EXCEPT !.assets = f] \in Snapshots
         /\ \A f \in Maps(Nodes, NodeEntries) : [s EXCEPT !.nodes = f] \in Snapshots
         /\ \A f \in Maps(ExitKeys, ExitEntries) : [s EXCEPT !.exits = f] \in Snapshots
         /\ \A f : /\ [s EXCEPT !.assets = f].assets = f /\ [s EXCEPT !.assets = f].nodes = s.nodes
                   /\ [s EXCEPT !.assets = f].exits = s.exits
                   /\ [s EXCEPT !.assets = f].feesTotal = s.feesTotal
                   /\ [s EXCEPT !.assets = f].usdcTotal = s.usdcTotal
         /\ \A f : /\ [s EXCEPT !.nodes = f].nodes = f /\ [s EXCEPT !.nodes = f].assets = s.assets
                   /\ [s EXCEPT !.nodes = f].exits = s.exits
                   /\ [s EXCEPT !.nodes = f].feesTotal = s.feesTotal
                   /\ [s EXCEPT !.nodes = f].usdcTotal = s.usdcTotal
         /\ \A f : /\ [s EXCEPT !.exits = f].exits = f /\ [s EXCEPT !.exits = f].assets = s.assets
                   /\ [s EXCEPT !.exits = f].nodes = s.nodes
                   /\ [s EXCEPT !.exits = f].feesTotal = s.feesTotal
                   /\ [s EXCEPT !.exits = f].usdcTotal = s.usdcTotal
BY DEF Snapshots

\* The blank entries are entries.
LEMMA Blanks ==
  /\ BlankAsset \in AssetEntries /\ BlankNode \in NodeEntries /\ BlankExit \in ExitEntries
  /\ \A s \in Snapshots : /\ \A a : AssetOf(s, a) \in AssetEntries
                          /\ \A n : NodeOf(s, n) \in NodeEntries
                          /\ \A k : ExitAt(s, k) \in ExitEntries
<1>1. <<>> \in Seq(ExitIds)
  OBVIOUS
<1>2. /\ BlankAsset \in AssetEntries /\ BlankNode \in NodeEntries /\ BlankExit \in ExitEntries
  <2>1. BlankAsset \in AssetEntries
    BY <1>1 DEF BlankAsset, AssetEntries
  <2>2. BlankNode \in NodeEntries
    BY DEF BlankNode, NodeEntries
  <2>3. BlankExit \in ExitEntries
    BY DEF BlankExit, ExitEntries, States
  <2> QED BY <2>1, <2>2, <2>3
<1>3. \A s \in Snapshots : /\ s.assets \in Maps(Assets, AssetEntries)
                           /\ s.nodes \in Maps(Nodes, NodeEntries)
                           /\ s.exits \in Maps(ExitKeys, ExitEntries)
  BY DEF Snapshots
<1>4. \A s \in Snapshots : /\ \A a : AssetOf(s, a) \in AssetEntries
                           /\ \A n : NodeOf(s, n) \in NodeEntries
                           /\ \A k : ExitAt(s, k) \in ExitEntries
  BY <1>2, <1>3, EntryType DEF AssetOf, NodeOf, ExitAt
<1> QED BY <1>2, <1>4

\* What a write leaves alone.
SameAssets(s, t) == \A a : AssetOf(t, a) = AssetOf(s, a)
SameNodes(s, t) == \A n : NodeOf(t, n) = NodeOf(s, n)
SameExits(s, t) == DOMAIN t.exits = DOMAIN s.exits /\ \A k : ExitAt(t, k) = ExitAt(s, k)
SameTotals(s, t) == t.feesTotal = s.feesTotal /\ t.usdcTotal = s.usdcTotal

\* What it changes.
NodeNow(s, t, n, y) == \A m : NodeOf(t, m) = IF m = n THEN y ELSE NodeOf(s, m)
AssetNow(s, t, a, y) == \A b : AssetOf(t, b) = IF b = a THEN y ELSE AssetOf(s, b)
ExitNow(s, t, k, y) == /\ DOMAIN t.exits = DOMAIN s.exits \cup {k}
                       /\ \A j : ExitAt(t, j) = IF j = k THEN y ELSE ExitAt(s, j)

LEMMA NodeWritten ==
  ASSUME NEW s \in Snapshots, NEW n \in Nodes, NEW y \in NodeEntries
  PROVE  LET t == WriteNode(s, n, y) IN
         /\ t \in Snapshots /\ n \in DOMAIN t.nodes /\ t.nodes[n] = y
         /\ NodeNow(s, t, n, y)
         /\ t.assets = s.assets /\ t.exits = s.exits /\ SameTotals(s, t)
         /\ SameAssets(s, t) /\ SameExits(s, t)
<1> DEFINE p == Put(s.nodes, n, y)
           t == [s EXCEPT !.nodes = p]
<1>1. /\ p \in Maps(Nodes, NodeEntries) /\ n \in DOMAIN p /\ p[n] = y
      /\ \A m : Entry(p, m, BlankNode) = IF m = n THEN y ELSE Entry(s.nodes, m, BlankNode)
  <2>1. s.nodes \in Maps(Nodes, NodeEntries)
    BY SnapshotParts
  <2> QED BY <2>1, NodePut
<1>2. t = WriteNode(s, n, y)
  BY DEF WriteNode
<1> HIDE DEF p
<1>3. /\ t \in Snapshots /\ t.nodes = p /\ t.assets = s.assets /\ t.exits = s.exits
      /\ t.feesTotal = s.feesTotal /\ t.usdcTotal = s.usdcTotal
  BY <1>1, SnapshotParts
<1> HIDE DEF t
<1>4. NodeNow(s, t, n, y)
  BY <1>1, <1>3 DEF NodeNow, NodeOf
<1>5. SameAssets(s, t) /\ SameExits(s, t) /\ SameTotals(s, t)
  BY <1>3 DEF SameAssets, SameExits, SameTotals, AssetOf, ExitAt
<1> QED BY <1>1, <1>2, <1>3, <1>4, <1>5

LEMMA AssetWritten ==
  ASSUME NEW s \in Snapshots, NEW a \in Assets, NEW y \in AssetEntries
  PROVE  LET t == WriteAsset(s, a, y) IN
         /\ t \in Snapshots /\ a \in DOMAIN t.assets /\ t.assets[a] = y
         /\ AssetNow(s, t, a, y)
         /\ t.nodes = s.nodes /\ t.exits = s.exits /\ SameTotals(s, t)
         /\ SameNodes(s, t) /\ SameExits(s, t)
<1> DEFINE p == Put(s.assets, a, y)
           t == [s EXCEPT !.assets = p]
<1>1. /\ p \in Maps(Assets, AssetEntries) /\ a \in DOMAIN p /\ p[a] = y
      /\ \A b : Entry(p, b, BlankAsset) = IF b = a THEN y ELSE Entry(s.assets, b, BlankAsset)
  <2>1. s.assets \in Maps(Assets, AssetEntries)
    BY SnapshotParts
  <2> QED BY <2>1, AssetPut
<1>2. t = WriteAsset(s, a, y)
  BY DEF WriteAsset
<1> HIDE DEF p
<1>3. /\ t \in Snapshots /\ t.assets = p /\ t.nodes = s.nodes /\ t.exits = s.exits
      /\ t.feesTotal = s.feesTotal /\ t.usdcTotal = s.usdcTotal
  BY <1>1, SnapshotParts
<1> HIDE DEF t
<1>4. AssetNow(s, t, a, y)
  BY <1>1, <1>3 DEF AssetNow, AssetOf
<1>5. SameNodes(s, t) /\ SameExits(s, t) /\ SameTotals(s, t)
  BY <1>3 DEF SameNodes, SameExits, SameTotals, NodeOf, ExitAt
<1> QED BY <1>1, <1>2, <1>3, <1>4, <1>5

LEMMA EntryWritten ==
  ASSUME NEW s \in Snapshots, NEW k \in ExitKeys, NEW y \in ExitEntries
  PROVE  LET t == WriteExit(s, k, y) IN
         /\ t \in Snapshots /\ ExitNow(s, t, k, y)
         /\ t.nodes = s.nodes /\ t.assets = s.assets /\ SameTotals(s, t)
         /\ SameNodes(s, t) /\ SameAssets(s, t)
<1> DEFINE p == Put(s.exits, k, y)
           t == [s EXCEPT !.exits = p]
<1>1. /\ p \in Maps(ExitKeys, ExitEntries) /\ DOMAIN p = DOMAIN s.exits \cup {k}
      /\ \A j : Entry(p, j, BlankExit) = IF j = k THEN y ELSE Entry(s.exits, j, BlankExit)
  <2>1. s.exits \in Maps(ExitKeys, ExitEntries)
    BY SnapshotParts
  <2> QED BY <2>1, ExitPut
<1>2. t = WriteExit(s, k, y)
  BY DEF WriteExit
<1> HIDE DEF p
<1>3. /\ t \in Snapshots /\ t.exits = p /\ t.nodes = s.nodes /\ t.assets = s.assets
      /\ t.feesTotal = s.feesTotal /\ t.usdcTotal = s.usdcTotal
  BY <1>1, SnapshotParts
<1> HIDE DEF t
<1>4. ExitNow(s, t, k, y)
  BY <1>1, <1>3 DEF ExitNow, ExitAt
<1>5. SameNodes(s, t) /\ SameAssets(s, t) /\ SameTotals(s, t)
  BY <1>3 DEF SameNodes, SameAssets, SameTotals, NodeOf, AssetOf
<1> QED BY <1>2, <1>3, <1>4, <1>5

\* Seeing an asset or a node, for the first time or again, changes no entry.
LEMMA AssetSeen ==
  ASSUME NEW s \in Snapshots, NEW e, "asset" \in DOMAIN e, e.asset \in Assets
  PROVE  LET t == SeeAsset(s, e) IN
         /\ t \in Snapshots /\ e.asset \in DOMAIN t.assets
         /\ t.assets[e.asset] = AssetOf(s, e.asset)
         /\ SameNodes(s, t) /\ SameExits(s, t) /\ SameAssets(s, t) /\ SameTotals(s, t)
<1> DEFINE a == e.asset
           y == AssetOf(s, a)
           t == WriteAsset(s, a, y)
<1>1. y \in AssetEntries
  BY Blanks
<1>2. SeeAsset(s, e) = t
  BY DEF SeeAsset, WriteAsset, AssetOf
<1> HIDE DEF y
<1>3. /\ t \in Snapshots /\ a \in DOMAIN t.assets /\ t.assets[a] = y
      /\ AssetNow(s, t, a, y) /\ SameNodes(s, t) /\ SameExits(s, t) /\ SameTotals(s, t)
  BY <1>1, AssetWritten
<1> HIDE DEF t
<1>4. SameAssets(s, t)
  BY <1>3 DEF AssetNow, SameAssets, y
<1> QED BY <1>2, <1>3, <1>4 DEF y

LEMMA NodeSeen ==
  ASSUME NEW s \in Snapshots, NEW n \in Nodes
  PROVE  LET t == SeeNode(s, n) IN
         /\ t \in Snapshots /\ n \in DOMAIN t.nodes /\ t.nodes[n] = NodeOf(s, n)
         /\ t.assets = s.assets
         /\ SameNodes(s, t) /\ SameExits(s, t) /\ SameAssets(s, t) /\ SameTotals(s, t)
<1> DEFINE y == NodeOf(s, n)
           t == WriteNode(s, n, y)
<1>1. y \in NodeEntries
  BY Blanks
<1>2. SeeNode(s, n) = t
  BY DEF SeeNode, WriteNode, NodeOf
<1> HIDE DEF y
<1>3. /\ t \in Snapshots /\ n \in DOMAIN t.nodes /\ t.nodes[n] = y /\ t.assets = s.assets
      /\ NodeNow(s, t, n, y) /\ SameAssets(s, t) /\ SameExits(s, t) /\ SameTotals(s, t)
  BY <1>1, NodeWritten
<1> HIDE DEF t
<1>4. SameNodes(s, t)
  BY <1>3 DEF NodeNow, SameNodes, y
<1> QED BY <1>2, <1>3, <1>4 DEF y

-----------------------------------------------------------------------------
(* What a snapshot shows, map by map, and what each event changes of it.   *)

Reports(s) == [n \in Nodes |-> NodeOf(s, n).depositedAtLastReport]
Paid(s) == [n \in Nodes |-> NodeOf(s, n).usdcPaidOut]
Lines(s) == [a \in Assets |-> AssetOf(s, a).queue]
Sold(s) == [a \in Assets |-> AssetOf(s, a).tokensSettled]
Known(s) == DOMAIN s.exits
Shown(s) == [k \in ExitKeys |-> ExitAt(s, k)]

NodesAlike(s, t) == Reports(t) = Reports(s) /\ Paid(t) = Paid(s)
AssetsAlike(s, t) == Lines(t) = Lines(s) /\ Sold(t) = Sold(s)
ExitsAlike(s, t) == Known(t) = Known(s) /\ Shown(t) = Shown(s)

\* The node n is shown with a report of d and p paid out, the asset a with the line q and
\* v tokens settled, the exit of key k as x.
NodeShown(s, t, n, d, p) ==
    Reports(t) = [Reports(s) EXCEPT ![n] = d] /\ Paid(t) = [Paid(s) EXCEPT ![n] = p]
AssetShown(s, t, a, q, v) ==
    Lines(t) = [Lines(s) EXCEPT ![a] = q] /\ Sold(t) = [Sold(s) EXCEPT ![a] = v]
ShownAs(s, t, k, x) == Known(t) = Known(s) \cup {k} /\ Shown(t) = [Shown(s) EXCEPT ![k] = x]

\* What is shown of a snapshot is of these types.
LEMMA ViewTypes ==
  ASSUME NEW s \in Snapshots
  PROVE  /\ Reports(s) \in [Nodes -> Nat] /\ Paid(s) \in [Nodes -> Nat]
         /\ Lines(s) \in [Assets -> Seq(ExitIds)] /\ Sold(s) \in [Assets -> Nat]
         /\ Shown(s) \in [ExitKeys -> ExitEntries]
         /\ s.feesTotal \in Nat /\ s.usdcTotal \in Nat
<1>1. /\ \A n : NodeOf(s, n) \in NodeEntries
      /\ \A a : AssetOf(s, a) \in AssetEntries
      /\ \A k : ExitAt(s, k) \in ExitEntries
  BY Blanks
<1>2. Reports(s) \in [Nodes -> Nat] /\ Paid(s) \in [Nodes -> Nat]
  BY <1>1 DEF Reports, Paid, NodeEntries
<1>3. Lines(s) \in [Assets -> Seq(ExitIds)] /\ Sold(s) \in [Assets -> Nat]
  BY <1>1 DEF Lines, Sold, AssetEntries
<1>4. Shown(s) \in [ExitKeys -> ExitEntries]
  BY <1>1 DEF Shown
<1>5. s.feesTotal \in Nat /\ s.usdcTotal \in Nat
  BY SnapshotParts
<1> QED BY <1>2, <1>3, <1>4, <1>5

\* What a write does to what is shown.
LEMMA Views ==
  ASSUME NEW s, NEW t
  PROVE  /\ SameNodes(s, t) => NodesAlike(s, t)
         /\ SameAssets(s, t) => AssetsAlike(s, t)
         /\ SameExits(s, t) => ExitsAlike(s, t)
<1>1. SameNodes(s, t) => NodesAlike(s, t)
  BY DEF SameNodes, NodesAlike, Reports, Paid
<1>2. SameAssets(s, t) => AssetsAlike(s, t)
  BY DEF SameAssets, AssetsAlike, Lines, Sold
<1>3. SameExits(s, t) => ExitsAlike(s, t)
  BY DEF SameExits, ExitsAlike, Known, Shown
<1> QED BY <1>1, <1>2, <1>3

LEMMA NodeView ==
  ASSUME NEW s, NEW t, NEW n \in Nodes, NEW y, NodeNow(s, t, n, y)
  PROVE  NodeShown(s, t, n, y.depositedAtLastReport, y.usdcPaidOut)
BY DEF NodeNow, NodeShown, Reports, Paid

LEMMA AssetView ==
  ASSUME NEW s, NEW t, NEW a \in Assets, NEW y, AssetNow(s, t, a, y)
  PROVE  AssetShown(s, t, a, y.queue, y.tokensSettled)
BY DEF AssetNow, AssetShown, Lines, Sold

LEMMA ExitView ==
  ASSUME NEW s, NEW t, NEW k \in ExitKeys, NEW y, ExitNow(s, t, k, y)
  PROVE  ShownAs(s, t, k, y)
BY DEF ExitNow, ShownAs, Known, Shown

\* Events that change no entry.
LEMMA PassNoted ==
  ASSUME NEW s \in Snapshots, NEW n \in Nodes,
         NEW name \in {"withdraw_requested", "withdraw_cancelled", "appetite_set",
                       "committed", "released"},
         NEW e \in {[name |-> name, node |-> n]}
                     \cup {[name |-> name, node |-> n, asset |-> a] : a \in Assets},
         NEW t, t = Apply(s, e)
  PROVE  /\ t \in Snapshots /\ NodesAlike(s, t) /\ AssetsAlike(s, t) /\ ExitsAlike(s, t)
         /\ SameTotals(s, t)
<1> DEFINE z == SeeAsset(s, e)
<1>1. z \in Snapshots /\ NodesAlike(s, z) /\ AssetsAlike(s, z) /\ ExitsAlike(s, z) /\ SameTotals(s, z)
  <2>1. CASE e = [name |-> name, node |-> n]
    <3>1. z = s
      BY <2>1 DEF SeeAsset
    <3> QED BY <3>1 DEF NodesAlike, AssetsAlike, ExitsAlike, SameTotals
  <2>2. ASSUME NEW a \in Assets, e = [name |-> name, node |-> n, asset |-> a]
        PROVE  /\ z \in Snapshots /\ NodesAlike(s, z) /\ AssetsAlike(s, z)
               /\ ExitsAlike(s, z) /\ SameTotals(s, z)
    <3>1. "asset" \in DOMAIN e /\ e.asset \in Assets
      BY <2>2
    <3>2. z \in Snapshots /\ SameNodes(s, z) /\ SameExits(s, z) /\ SameAssets(s, z) /\ SameTotals(s, z)
      BY <3>1, AssetSeen
    <3> QED BY <3>2, Views
  <2> QED BY <2>1, <2>2
<1>2. t = SeeNode(z, n)
  <2>1. e.name = name /\ e.node = n
    OBVIOUS
  <2> QED BY <2>1 DEF Apply
<1> HIDE DEF z
<1>3. t \in Snapshots /\ SameNodes(z, t) /\ SameExits(z, t) /\ SameAssets(z, t) /\ SameTotals(z, t)
  BY <1>1, <1>2, NodeSeen
<1>4. NodesAlike(z, t) /\ AssetsAlike(z, t) /\ ExitsAlike(z, t)
  BY <1>3, Views
<1> QED BY <1>1, <1>3, <1>4 DEF NodesAlike, AssetsAlike, ExitsAlike, SameTotals

\* The node n is shown with a report of v.
ReportedAs(s, t, n, v) ==
    Reports(t) = [Reports(s) EXCEPT ![n] = v] /\ Paid(t) = Paid(s)

\* deposit and withdraw replace what was reported of the node.
LEMMA PassReport ==
  ASSUME NEW s \in Snapshots, NEW n \in Nodes, NEW v \in Nat, NEW name \in {"deposit", "withdraw"},
         NEW t, t = Apply(s, [name |-> name, node |-> n, total_deposited |-> v])
  PROVE  /\ t \in Snapshots /\ AssetsAlike(s, t) /\ ExitsAlike(s, t) /\ SameTotals(s, t)
         /\ ReportedAs(s, t, n, v)
<1> DEFINE e == [name |-> name, node |-> n, total_deposited |-> v]
           z == SeeNode(s, n)
           y == [NodeOf(s, n) EXCEPT !.depositedAtLastReport = v]
<1>1. /\ z \in Snapshots /\ n \in DOMAIN z.nodes /\ z.nodes[n] = NodeOf(s, n)
      /\ SameNodes(s, z) /\ SameExits(s, z) /\ SameAssets(s, z) /\ SameTotals(s, z)
  BY NodeSeen
<1>2. NodeOf(s, n) \in NodeEntries
  BY Blanks
<1>3. y \in NodeEntries /\ y.depositedAtLastReport = v /\ y.usdcPaidOut = NodeOf(s, n).usdcPaidOut
  BY <1>2 DEF NodeEntries
<1>4. t = [z EXCEPT !.nodes[n].depositedAtLastReport = v]
  <2>1. "asset" \notin DOMAIN e /\ e.name \in {"deposit", "withdraw"}
    OBVIOUS
  <2>2. e.node = n /\ e.total_deposited = v
    OBVIOUS
  <2>3. SeeAsset(s, e) = s
    BY <2>1 DEF SeeAsset
  <2>4. t = Report(s, e)
    <3>1. CASE name = "deposit"
      BY <2>3, <3>1 DEF Apply
    <3>2. CASE name = "withdraw"
      BY <2>3, <3>2 DEF Apply
    <3> QED BY <3>1, <3>2
  <2> HIDE DEF e
  <2> QED BY <2>2, <2>4 DEF Report
<1>5. t = WriteNode(z, n, y)
  <2>0. t = [z EXCEPT !.nodes = [z.nodes EXCEPT ![n] = y]]
    <3> HIDE DEF z
    <3> QED BY <1>1, <1>4
  <2>1. z.nodes \in Maps(Nodes, NodeEntries)
    BY <1>1, SnapshotParts
  <2>2. [z.nodes EXCEPT ![n] = y] = Put(z.nodes, n, y)
    <3> HIDE DEF z, y
    <3> QED BY <1>1, <2>1, PutThere
  <2> HIDE DEF z, y
  <2> QED BY <2>0, <2>2 DEF WriteNode
<1> HIDE DEF z, y
<1>6. t \in Snapshots /\ NodeNow(z, t, n, y) /\ SameAssets(z, t) /\ SameExits(z, t) /\ SameTotals(z, t)
  BY <1>1, <1>3, <1>5, NodeWritten
<1>7. /\ AssetsAlike(s, z) /\ ExitsAlike(s, z) /\ NodesAlike(s, z)
      /\ AssetsAlike(z, t) /\ ExitsAlike(z, t)
  BY <1>1, <1>6, Views
<1>8. NodeShown(z, t, n, y.depositedAtLastReport, y.usdcPaidOut)
  BY <1>6, NodeView
<1>9. [Paid(s) EXCEPT ![n] = y.usdcPaidOut] = Paid(s)
  BY <1>3 DEF Paid
<1> QED BY <1>1, <1>3, <1>6, <1>7, <1>8, <1>9 DEF NodeShown, ReportedAs, NodesAlike, AssetsAlike, ExitsAlike, SameTotals

\* paid_out adds to what the node has paid.
LEMMA PassPaidOut ==
  ASSUME NEW s \in Snapshots, NEW n \in Nodes, NEW a \in Assets, NEW v \in Nat,
         NEW t, t = Apply(s, [name |-> "paid_out", node |-> n, asset |-> a, amount |-> v])
  PROVE  /\ t \in Snapshots /\ AssetsAlike(s, t) /\ ExitsAlike(s, t) /\ SameTotals(s, t)
         /\ Paid(t) = [Paid(s) EXCEPT ![n] = @ + v] /\ Reports(t) = Reports(s)
<1> DEFINE e == [name |-> "paid_out", node |-> n, asset |-> a, amount |-> v]
           w == SeeAsset(s, e)
           z == SeeNode(w, n)
           y == [NodeOf(w, n) EXCEPT !.usdcPaidOut = @ + v]
<1>0. w \in Snapshots /\ SameNodes(s, w) /\ SameExits(s, w) /\ SameAssets(s, w) /\ SameTotals(s, w)
  <2>1. "asset" \in DOMAIN e /\ e.asset \in Assets
    OBVIOUS
  <2> HIDE DEF e
  <2> QED BY <2>1, AssetSeen
<1>1. /\ z \in Snapshots /\ n \in DOMAIN z.nodes /\ z.nodes[n] = NodeOf(w, n)
      /\ SameNodes(w, z) /\ SameExits(w, z) /\ SameAssets(w, z) /\ SameTotals(w, z)
  <2> HIDE DEF w
  <2> QED BY <1>0, NodeSeen
<1>2. NodeOf(w, n) \in NodeEntries /\ NodeOf(w, n) = NodeOf(s, n)
  <2> HIDE DEF w
  <2> QED BY <1>0, Blanks DEF SameNodes
<1>4. t = [z EXCEPT !.nodes[n].usdcPaidOut = @ + v]
  <2>1. t = PaidOut(w, e)
    <3>1. e.name = "paid_out"
      OBVIOUS
    <3> HIDE DEF e
    <3> QED BY <3>1 DEF Apply, e
  <2>2. e.node = n /\ e.amount = v
    OBVIOUS
  <2> HIDE DEF e, w
  <2> QED BY <2>1, <2>2 DEF PaidOut
<1> HIDE DEF w
<1>3. /\ y \in NodeEntries /\ y.depositedAtLastReport = NodeOf(s, n).depositedAtLastReport
      /\ y.usdcPaidOut = NodeOf(s, n).usdcPaidOut + v
  BY <1>2 DEF NodeEntries
<1>5. t = WriteNode(z, n, y)
  <2>0. t = [z EXCEPT !.nodes = [z.nodes EXCEPT ![n] = y]]
    <3> HIDE DEF z
    <3> QED BY <1>1, <1>4
  <2>1. z.nodes \in Maps(Nodes, NodeEntries)
    BY <1>1, SnapshotParts
  <2>2. [z.nodes EXCEPT ![n] = y] = Put(z.nodes, n, y)
    <3> HIDE DEF z, y
    <3> QED BY <1>1, <2>1, PutThere
  <2> HIDE DEF z, y
  <2> QED BY <2>0, <2>2 DEF WriteNode
<1> HIDE DEF z, y
<1>6. t \in Snapshots /\ NodeNow(z, t, n, y) /\ SameAssets(z, t) /\ SameExits(z, t) /\ SameTotals(z, t)
  BY <1>1, <1>3, <1>5, NodeWritten
<1>7. /\ AssetsAlike(s, w) /\ ExitsAlike(s, w) /\ NodesAlike(s, w)
      /\ AssetsAlike(w, z) /\ ExitsAlike(w, z) /\ NodesAlike(w, z)
      /\ AssetsAlike(z, t) /\ ExitsAlike(z, t)
  BY <1>0, <1>1, <1>6, Views
<1>8. NodeShown(z, t, n, y.depositedAtLastReport, y.usdcPaidOut)
  BY <1>6, NodeView
<1>9. /\ [Reports(s) EXCEPT ![n] = y.depositedAtLastReport] = Reports(s)
      /\ [Paid(s) EXCEPT ![n] = y.usdcPaidOut] = [Paid(s) EXCEPT ![n] = @ + v]
  BY <1>3 DEF Paid, Reports
<1> QED BY <1>0, <1>1, <1>6, <1>7, <1>8, <1>9 DEF NodeShown, NodesAlike, AssetsAlike, ExitsAlike, SameTotals

\* An event about an exit first sees the asset and then writes the exit's entry.
LEMMA PassExit ==
  ASSUME NEW s \in Snapshots, NEW e, "asset" \in DOMAIN e, e.asset \in Assets, e.exit_id \in ExitIds,
         NEW x \in ExitEntries, NEW t, t = SetExit(SeeAsset(s, e), e, x)
  PROVE  /\ t \in Snapshots /\ NodesAlike(s, t) /\ AssetsAlike(s, t) /\ SameTotals(s, t)
         /\ ShownAs(s, t, Key(e), x)
         /\ e.asset \in DOMAIN t.assets /\ t.assets[e.asset] = AssetOf(s, e.asset)
<1> DEFINE z == SeeAsset(s, e)
           k == Key(e)
<1>1. /\ z \in Snapshots /\ e.asset \in DOMAIN z.assets /\ z.assets[e.asset] = AssetOf(s, e.asset)
      /\ SameNodes(s, z) /\ SameExits(s, z) /\ SameAssets(s, z) /\ SameTotals(s, z)
  BY AssetSeen
<1>2. k \in ExitKeys
  BY DEF Key, ExitKeys
<1>3. t = WriteExit(z, k, x)
  BY DEF SetExit, WriteExit
<1> HIDE DEF z, k
<1>4. /\ t \in Snapshots /\ ExitNow(z, t, k, x)
      /\ t.assets = z.assets /\ SameNodes(z, t) /\ SameAssets(z, t) /\ SameTotals(z, t)
  BY <1>1, <1>2, <1>3, EntryWritten
<1>5. /\ NodesAlike(s, z) /\ AssetsAlike(s, z) /\ ExitsAlike(s, z)
      /\ NodesAlike(z, t) /\ AssetsAlike(z, t)
  BY <1>1, <1>4, Views
<1>6. ShownAs(z, t, k, x)
  BY <1>2, <1>4, ExitView
<1>7. ShownAs(s, t, k, x)
  BY <1>5, <1>6 DEF ShownAs, ExitsAlike
<1>8. NodesAlike(s, t) /\ AssetsAlike(s, t) /\ SameTotals(s, t)
  BY <1>1, <1>4, <1>5 DEF NodesAlike, AssetsAlike, SameTotals
<1> QED BY <1>1, <1>4, <1>7, <1>8 DEF k

\* The entry it finds there.
LEMMA ExitSeen ==
  ASSUME NEW s \in Snapshots, NEW e, "asset" \in DOMAIN e, e.asset \in Assets, e.exit_id \in ExitIds
  PROVE  /\ ExitOf(SeeAsset(s, e), e) = Shown(s)[Key(e)] /\ Shown(s)[Key(e)] \in ExitEntries
         /\ Key(e) \in ExitKeys
<1>1. Key(e) \in ExitKeys
  BY DEF Key, ExitKeys
<1>2. SameExits(s, SeeAsset(s, e))
  BY AssetSeen
<1>3. ExitOf(SeeAsset(s, e), e) = ExitAt(s, Key(e))
  BY <1>2 DEF SameExits, ExitOf, ExitAt
<1>4. Shown(s)[Key(e)] = ExitAt(s, Key(e))
  BY <1>1 DEF Shown
<1>5. ExitAt(s, Key(e)) \in ExitEntries
  BY Blanks
<1> QED BY <1>1, <1>3, <1>4, <1>5

\* The exit of key k is shown after the event of that name, with the bid it had.
ShownAfter(s, t, k, name) ==
    \E x \in ExitEntries :
        /\ ShownAs(s, t, k, x)
        /\ x.bestBid = Shown(s)[k].bestBid
        /\ name = "opened" => x.state = "open"
        /\ name = "cancelled" => x.state = "cancelled"

\* opened, escrowed, cancelled and refunded.
LEMMA PassState ==
  ASSUME NEW s \in Snapshots, NEW a \in Assets, NEW id \in ExitIds,
         NEW name \in {"opened", "escrowed", "cancelled", "refunded"},
         NEW t, t = Apply(s, [name |-> name, asset |-> a, exit_id |-> id])
  PROVE  /\ t \in Snapshots /\ NodesAlike(s, t) /\ AssetsAlike(s, t) /\ SameTotals(s, t)
         /\ ShownAfter(s, t, <<a, id>>, name)
<1> DEFINE e == [name |-> name, asset |-> a, exit_id |-> id]
           z == SeeAsset(s, e)
           y == ExitOf(z, e)
           w(st) == [y EXCEPT !.state = st]
<1>1. /\ "asset" \in DOMAIN e /\ e.asset = a /\ e.exit_id = id /\ Key(e) = <<a, id>> /\ e.name = name
  BY DEF Key
<1>2. t = Apply(s, e)
  OBVIOUS
<1> HIDE DEF e
<1>3. y = Shown(s)[<<a, id>>] /\ y \in ExitEntries
  BY <1>1, ExitSeen
<1>4. \A x : SetExit(z, e, x) = t /\ x \in ExitEntries =>
          /\ t \in Snapshots /\ NodesAlike(s, t) /\ AssetsAlike(s, t) /\ SameTotals(s, t)
          /\ ShownAs(s, t, <<a, id>>, x)
  BY <1>1, PassExit
<1>5. \A st : w(st) = [ExitOf(z, e) EXCEPT !.state = st] /\ SetState(z, e, st) = SetExit(z, e, w(st))
  BY DEF SetState
<1> HIDE DEF z
<1>6. \A st \in States : w(st) \in ExitEntries /\ w(st).bestBid = y.bestBid /\ w(st).state = st
  <2> HIDE DEF y
  <2> QED BY <1>3 DEF ExitEntries
<1>7. {"open", "cancelled", "refunded"} \subseteq States
  BY DEF States
<1>8. CASE name = "opened"
  <2>1. t = SetState(z, e, "open")
    BY <1>1, <1>2, <1>8 DEF Apply, z
  <2> HIDE DEF y, w
  <2> QED BY <1>3, <1>4, <1>5, <1>6, <1>7, <1>8, <2>1 DEF ShownAfter
<1>9. CASE name = "escrowed"
  <2>1. t = SetExit(z, e, y)
    BY <1>1, <1>2, <1>9 DEF Apply, z
  <2> HIDE DEF y, w
  <2> QED BY <1>3, <1>4, <1>9, <2>1 DEF ShownAfter
<1>10. CASE name = "cancelled"
  <2>1. t = SetState(z, e, "cancelled")
    BY <1>1, <1>2, <1>10 DEF Apply, z
  <2> HIDE DEF y, w
  <2> QED BY <1>3, <1>4, <1>5, <1>6, <1>7, <1>10, <2>1 DEF ShownAfter
<1>11. CASE name = "refunded"
  <2>1. t = Refunded(z, e)
    BY <1>1, <1>2, <1>11 DEF Apply, z
  <2>2. t = SetExit(z, e, y) \/ t = SetState(z, e, "refunded")
    BY <2>1 DEF Refunded
  <2> HIDE DEF y, w
  <2> QED BY <1>3, <1>4, <1>5, <1>6, <1>7, <1>11, <2>2 DEF ShownAfter
<1> QED BY <1>8, <1>9, <1>10, <1>11

\* bid.
LEMMA PassBid ==
  ASSUME NEW s \in Snapshots, NEW n \in Nodes, NEW a \in Assets, NEW id \in ExitIds, NEW v \in Nat,
         NEW t, t = Apply(s, [name |-> "bid", asset |-> a, exit_id |-> id, node |-> n, usdc_amount |-> v])
  PROVE  /\ t \in Snapshots /\ NodesAlike(s, t) /\ AssetsAlike(s, t) /\ SameTotals(s, t)
         /\ ShownAs(s, t, <<a, id>>, [Shown(s)[<<a, id>>] EXCEPT !.bestBid = v])
<1> DEFINE e == [name |-> "bid", asset |-> a, exit_id |-> id, node |-> n, usdc_amount |-> v]
           z == SeeAsset(s, e)
           x == [ExitOf(z, e) EXCEPT !.bestBid = v]
           w == SetExit(z, e, x)
<1>1. /\ "asset" \in DOMAIN e /\ e.asset = a /\ e.exit_id = id /\ Key(e) = <<a, id>>
      /\ e.name = "bid" /\ e.node = n /\ e.usdc_amount = v
  BY DEF Key
<1>2. t = Apply(s, e)
  OBVIOUS
<1> HIDE DEF e
<1>3. ExitOf(z, e) = Shown(s)[<<a, id>>] /\ ExitOf(z, e) \in ExitEntries
  BY <1>1, ExitSeen
<1>4. t = SeeNode(w, n)
  BY <1>1, <1>2 DEF Apply, BidPlaced
<1>5. x \in ExitEntries /\ x = [Shown(s)[<<a, id>>] EXCEPT !.bestBid = v]
  BY <1>3 DEF ExitEntries
<1> HIDE DEF x
<1>6. /\ w \in Snapshots /\ NodesAlike(s, w) /\ AssetsAlike(s, w) /\ SameTotals(s, w)
      /\ ShownAs(s, w, <<a, id>>, x)
  <2>1. w = SetExit(SeeAsset(s, e), e, x)
    OBVIOUS
  <2> HIDE DEF w
  <2> QED BY <1>1, <1>5, <2>1, PassExit
<1> HIDE DEF w
<1>7. t \in Snapshots /\ SameNodes(w, t) /\ SameExits(w, t) /\ SameAssets(w, t) /\ SameTotals(w, t)
  BY <1>4, <1>6, NodeSeen
<1>8. NodesAlike(w, t) /\ AssetsAlike(w, t) /\ ExitsAlike(w, t)
  BY <1>7, Views
<1>9. ShownAs(s, t, <<a, id>>, x)
  BY <1>6, <1>8 DEF ShownAs, ExitsAlike
<1> QED BY <1>5, <1>6, <1>7, <1>8, <1>9 DEF NodesAlike, AssetsAlike, SameTotals

\* A line without one exit.
Without(q, id) == Filter(q, Range(q) \ {id})

\* Writing the line of an asset that has been seen.
LEMMA LineWritten ==
  ASSUME NEW x \in Snapshots, NEW a \in Assets, a \in DOMAIN x.assets, NEW q \in Seq(ExitIds),
         NEW t, t = [x EXCEPT !.assets[a].queue = q]
  PROVE  /\ t \in Snapshots /\ NodesAlike(x, t) /\ ExitsAlike(x, t) /\ SameTotals(x, t)
         /\ Lines(t) = [Lines(x) EXCEPT ![a] = q] /\ Sold(t) = Sold(x)
<1> DEFINE y == [AssetOf(x, a) EXCEPT !.queue = q]
<1>1. x.assets[a] = AssetOf(x, a) /\ x.assets \in Maps(Assets, AssetEntries)
  BY SnapshotParts DEF AssetOf, Entry
<1>2. y \in AssetEntries /\ y.queue = q /\ y.tokensSettled = AssetOf(x, a).tokensSettled
  <2>1. AssetOf(x, a) \in AssetEntries
    BY Blanks
  <2> QED BY <2>1 DEF AssetEntries
<1>3. t = [x EXCEPT !.assets = [x.assets EXCEPT ![a] = y]]
  BY <1>1
<1> HIDE DEF y
<1>4. [x.assets EXCEPT ![a] = y] = Put(x.assets, a, y)
  BY <1>1, PutThere
<1>5. t = WriteAsset(x, a, y)
  BY <1>3, <1>4 DEF WriteAsset
<1>6. t \in Snapshots /\ AssetNow(x, t, a, y) /\ SameNodes(x, t) /\ SameExits(x, t) /\ SameTotals(x, t)
  BY <1>2, <1>5, AssetWritten
<1>7. NodesAlike(x, t) /\ ExitsAlike(x, t)
  BY <1>6, Views
<1>8. AssetShown(x, t, a, y.queue, y.tokensSettled)
  BY <1>6, AssetView
<1>9. [Sold(x) EXCEPT ![a] = y.tokensSettled] = Sold(x)
  BY <1>2 DEF Sold
<1> QED BY <1>2, <1>6, <1>7, <1>8, <1>9 DEF AssetShown

\* queued, for an exit that is not in line yet.
QueuedAs(s, t, a, id) ==
    /\ NodesAlike(s, t) /\ Sold(t) = Sold(s) /\ SameTotals(s, t)
    /\ Lines(t) = [Lines(s) EXCEPT ![a] = Append(@, id)]
    /\ ShownAs(s, t, <<a, id>>, [Shown(s)[<<a, id>>] EXCEPT !.state = "queued"])

LEMMA PassQueued ==
  ASSUME NEW s \in Snapshots, NEW a \in Assets, NEW id \in ExitIds,
         \A i \in 1 .. Len(Lines(s)[a]) : Lines(s)[a][i] # id,
         NEW t, t = Apply(s, [name |-> "queued", asset |-> a, exit_id |-> id])
  PROVE  t \in Snapshots /\ QueuedAs(s, t, a, id)
<1> DEFINE e == [name |-> "queued", asset |-> a, exit_id |-> id]
           z == SeeAsset(s, e)
           y == [ExitOf(z, e) EXCEPT !.state = "queued"]
           x == SetExit(z, e, y)
           q == Append(Lines(s)[a], id)
<1>0. Lines(s)[a] = AssetOf(s, a).queue /\ Lines(s)[a] \in Seq(ExitIds)
  BY ViewTypes DEF Lines
<1>1. /\ "asset" \in DOMAIN e /\ e.asset = a /\ e.exit_id = id /\ Key(e) = <<a, id>>
      /\ e.name = "queued"
  BY DEF Key
<1>2. t = Apply(s, e)
  OBVIOUS
<1> HIDE DEF e
<1>3. ExitOf(z, e) = Shown(s)[<<a, id>>] /\ ExitOf(z, e) \in ExitEntries
  BY <1>1, ExitSeen
<1>4. y \in ExitEntries /\ y = [Shown(s)[<<a, id>>] EXCEPT !.state = "queued"]
  BY <1>3 DEF ExitEntries, States
<1>5. t = Queued(z, e) /\ x = SetState(z, e, "queued")
  BY <1>1, <1>2 DEF Apply, SetState
<1> HIDE DEF y
<1>6. /\ x \in Snapshots /\ NodesAlike(s, x) /\ AssetsAlike(s, x) /\ SameTotals(s, x)
      /\ ShownAs(s, x, <<a, id>>, y) /\ a \in DOMAIN x.assets /\ x.assets[a] = AssetOf(s, a)
  <2>1. x = SetExit(SeeAsset(s, e), e, y)
    OBVIOUS
  <2> HIDE DEF x
  <2> QED BY <1>1, <1>4, <2>1, PassExit
<1> HIDE DEF x
<1>7. t = [x EXCEPT !.assets[a].queue = q]
  <2>1. ~Contains(x.assets[a].queue, id)
    BY <1>0, <1>6 DEF Contains
  <2> QED BY <1>0, <1>1, <1>5, <1>6, <2>1 DEF Queued
<1>8. q \in Seq(ExitIds)
  BY <1>0
<1> HIDE DEF q
<1>9. /\ t \in Snapshots /\ NodesAlike(x, t) /\ ExitsAlike(x, t) /\ SameTotals(x, t)
      /\ Lines(t) = [Lines(x) EXCEPT ![a] = q] /\ Sold(t) = Sold(x)
  BY <1>6, <1>7, <1>8, LineWritten
<1>10. Lines(t) = [Lines(s) EXCEPT ![a] = Append(@, id)]
  BY <1>6, <1>9 DEF AssetsAlike, q
<1>11. ShownAs(s, t, <<a, id>>, y)
  BY <1>6, <1>9 DEF ShownAs, ExitsAlike
<1> QED BY <1>4, <1>6, <1>9, <1>10, <1>11 DEF QueuedAs, NodesAlike, AssetsAlike, SameTotals

\* dequeued: the exit leaves the line, and its state too if that was the line.
LeftAs(s, t, k) ==
    \E x \in ExitEntries :
        /\ ShownAs(s, t, k, x)
        /\ Shown(s)[k].state # "queued" => x = Shown(s)[k]

LEMMA PassDequeued ==
  ASSUME NEW s \in Snapshots, NEW a \in Assets, NEW id \in ExitIds,
         Without(Lines(s)[a], id) \in Seq(ExitIds),
         NEW t, t = Apply(s, [name |-> "dequeued", asset |-> a, exit_id |-> id])
  PROVE  /\ t \in Snapshots /\ NodesAlike(s, t) /\ Sold(t) = Sold(s) /\ SameTotals(s, t)
         /\ Lines(t) = [Lines(s) EXCEPT ![a] = Without(@, id)]
         /\ LeftAs(s, t, <<a, id>>)
<1> DEFINE e == [name |-> "dequeued", asset |-> a, exit_id |-> id]
           z == SeeAsset(s, e)
           y == ExitOf(z, e)
           u == IF y.state = "queued" THEN [y EXCEPT !.state = "left_queue"] ELSE y
           x == SetExit(z, e, u)
           q == Without(Lines(s)[a], id)
<1>0. Lines(s)[a] = AssetOf(s, a).queue
  BY DEF Lines
<1>1. /\ "asset" \in DOMAIN e /\ e.asset = a /\ e.exit_id = id /\ Key(e) = <<a, id>>
      /\ e.name = "dequeued"
  BY DEF Key
<1>2. t = Apply(s, e)
  OBVIOUS
<1> HIDE DEF e
<1>3. y = Shown(s)[<<a, id>>] /\ y \in ExitEntries
  BY <1>1, ExitSeen
<1>4. u \in ExitEntries /\ (y.state # "queued" => u = y)
  BY <1>3 DEF ExitEntries, States
<1>5. x = IF y.state = "queued" THEN SetState(z, e, "left_queue") ELSE SetExit(z, e, y)
  BY DEF SetState
<1>6. t = [x EXCEPT !.assets[e.asset].queue = Filter(@, Range(@) \ {e.exit_id})]
  <2>1. t = Dequeued(z, e)
    BY <1>1, <1>2 DEF Apply
  <2> HIDE DEF z, x
  <2> QED BY <1>5, <2>1 DEF Dequeued
<1> HIDE DEF u, y
<1>7. /\ x \in Snapshots /\ NodesAlike(s, x) /\ AssetsAlike(s, x) /\ SameTotals(s, x)
      /\ ShownAs(s, x, <<a, id>>, u) /\ a \in DOMAIN x.assets /\ x.assets[a] = AssetOf(s, a)
  <2>1. x = SetExit(SeeAsset(s, e), e, u)
    OBVIOUS
  <2> HIDE DEF x
  <2> QED BY <1>1, <1>4, <2>1, PassExit
<1> HIDE DEF x
<1>8. t = [x EXCEPT !.assets[a].queue = q]
  BY <1>0, <1>1, <1>6, <1>7 DEF Without
<1>9. q \in Seq(ExitIds)
  OBVIOUS
<1> HIDE DEF q
<1>10. /\ t \in Snapshots /\ NodesAlike(x, t) /\ ExitsAlike(x, t) /\ SameTotals(x, t)
       /\ Lines(t) = [Lines(x) EXCEPT ![a] = q] /\ Sold(t) = Sold(x)
  <2>1. x \in Snapshots /\ a \in DOMAIN x.assets
    BY <1>7
  <2> QED BY <2>1, <1>8, <1>9, LineWritten
<1>11. Lines(t) = [Lines(s) EXCEPT ![a] = Without(@, id)]
  BY <1>7, <1>10 DEF AssetsAlike, q
<1>12. LeftAs(s, t, <<a, id>>)
  <2>1. ShownAs(s, t, <<a, id>>, u)
    BY <1>7, <1>10 DEF ShownAs, ExitsAlike
  <2> QED BY <1>3, <1>4, <2>1 DEF LeftAs
<1>13. NodesAlike(s, t) /\ Sold(t) = Sold(s) /\ SameTotals(s, t)
  BY <1>7, <1>10 DEF NodesAlike, AssetsAlike, SameTotals
<1> QED BY <1>10, <1>11, <1>12, <1>13

\* The entries of a snapshot that a sale changes, replaced.
CountAsset(c, i, j, k, l) ==
    [c EXCEPT !.settled = i, !.usdcSettled = j, !.tokensSettled = k, !.feesPaid = l]
CountSnapshot(x, f, i, j, g) == [x EXCEPT !.assets = f, !.feesTotal = i, !.usdcTotal = j, !.nodes = g]

LEMMA AssetCounted ==
  ASSUME NEW c \in AssetEntries, NEW gross \in Nat, NEW fee \in Nat, NEW amount \in Nat
  PROVE  LET y == CountAsset(c, c.settled + 1, c.usdcSettled + gross, c.tokensSettled + amount,
                             c.feesPaid + fee)
         IN  y \in AssetEntries /\ y.queue = c.queue /\ y.tokensSettled = c.tokensSettled + amount
<1> DEFINE i == c.settled + 1
           j == c.usdcSettled + gross
           k == c.tokensSettled + amount
           l == c.feesPaid + fee
<1>1. i \in Nat /\ j \in Nat /\ k \in Nat /\ l \in Nat
  BY DEF AssetEntries
<1> HIDE DEF i, j, k, l
<1>2. CountAsset(c, i, j, k, l) \in AssetEntries
  BY <1>1 DEF AssetEntries, CountAsset
<1>3. CountAsset(c, i, j, k, l).queue = c.queue /\ CountAsset(c, i, j, k, l).tokensSettled = k
  BY DEF AssetEntries, CountAsset
<1> QED BY <1>2, <1>3 DEF i, j, k, l

LEMMA SnapshotCounted ==
  ASSUME NEW x \in Snapshots, NEW f \in Maps(Assets, AssetEntries), NEW g \in Maps(Nodes, NodeEntries),
         NEW i \in Nat, NEW j \in Nat
  PROVE  LET t == CountSnapshot(x, f, i, j, g) IN
         /\ t \in Snapshots /\ t.assets = f /\ t.nodes = g /\ t.exits = x.exits
         /\ t.feesTotal = i /\ t.usdcTotal = j
BY DEF Snapshots, CountSnapshot

\* What settled does to a snapshot, written in one piece.
CountSale(x, a, n, gross, fee, amount) ==
    [x EXCEPT !.assets[a].settled = @ + 1,
              !.assets[a].usdcSettled = @ + gross,
              !.assets[a].tokensSettled = @ + amount,
              !.assets[a].feesPaid = @ + fee,
              !.feesTotal = @ + fee,
              !.usdcTotal = @ + gross,
              !.nodes[n].fillsWon = @ + 1]

LEMMA SaleSplit ==
  ASSUME NEW x, NEW a \in DOMAIN x.assets, NEW n \in DOMAIN x.nodes, NEW gross, NEW fee, NEW amount
  PROVE  CountSale(x, a, n, gross, fee, amount)
         = CountSnapshot(x,
             [x.assets EXCEPT ![a] =
                CountAsset(x.assets[a], x.assets[a].settled + 1, x.assets[a].usdcSettled + gross,
                           x.assets[a].tokensSettled + amount, x.assets[a].feesPaid + fee)],
             x.feesTotal + fee, x.usdcTotal + gross,
             [x.nodes EXCEPT ![n] = [x.nodes[n] EXCEPT !.fillsWon = x.nodes[n].fillsWon + 1]])
<1> DEFINE f == [x.assets EXCEPT ![a] =
                   CountAsset(x.assets[a], x.assets[a].settled + 1, x.assets[a].usdcSettled + gross,
                              x.assets[a].tokensSettled + amount, x.assets[a].feesPaid + fee)]
           y == [x EXCEPT !.assets[a].settled = @ + 1,
                          !.assets[a].usdcSettled = @ + gross,
                          !.assets[a].tokensSettled = @ + amount,
                          !.assets[a].feesPaid = @ + fee]
<1>1. y = [x EXCEPT !.assets = f]
  BY DEF CountAsset
<1>2. CountSale(x, a, n, gross, fee, amount)
      = [y EXCEPT !.feesTotal = @ + fee, !.usdcTotal = @ + gross, !.nodes[n].fillsWon = @ + 1]
  BY DEF CountSale
<1> HIDE DEF f, y
<1>3. [y EXCEPT !.feesTotal = @ + fee, !.usdcTotal = @ + gross, !.nodes[n].fillsWon = @ + 1]
      = CountSnapshot(x, f, x.feesTotal + fee, x.usdcTotal + gross,
             [x.nodes EXCEPT ![n] = [x.nodes[n] EXCEPT !.fillsWon = x.nodes[n].fillsWon + 1]])
  BY <1>1 DEF CountSnapshot
<1> QED BY <1>2, <1>3 DEF f

\* settled counts the sale: the entry of its asset, of its node, and the totals.
LEMMA SaleCounted ==
  ASSUME NEW x \in Snapshots, NEW a \in Assets, a \in DOMAIN x.assets,
         NEW n \in Nodes, n \in DOMAIN x.nodes,
         NEW gross \in Nat, NEW fee \in Nat, NEW amount \in Nat,
         NEW t, t = CountSale(x, a, n, gross, fee, amount)
  PROVE  /\ t \in Snapshots /\ NodesAlike(x, t) /\ ExitsAlike(x, t) /\ Lines(t) = Lines(x)
         /\ Sold(t) = [Sold(x) EXCEPT ![a] = @ + amount]
         /\ t.feesTotal = x.feesTotal + fee /\ t.usdcTotal = x.usdcTotal + gross
<1> DEFINE c == x.assets[a]
           m == x.nodes[n]
           y == CountAsset(c, c.settled + 1, c.usdcSettled + gross, c.tokensSettled + amount,
                           c.feesPaid + fee)
           w == [m EXCEPT !.fillsWon = m.fillsWon + 1]
           u == WriteAsset(x, a, y)
           v == WriteNode(u, n, w)
<1>1. /\ c = AssetOf(x, a) /\ x.assets \in Maps(Assets, AssetEntries)
      /\ m = NodeOf(x, n) /\ x.nodes \in Maps(Nodes, NodeEntries)
  BY SnapshotParts DEF AssetOf, NodeOf, Entry
<1>2. c \in AssetEntries /\ m \in NodeEntries
  BY <1>1, Blanks
<1>3. y \in AssetEntries /\ y.queue = c.queue /\ y.tokensSettled = c.tokensSettled + amount
  <2> HIDE DEF c, m
  <2> QED BY <1>2, AssetCounted
<1>4. /\ w \in NodeEntries /\ w.depositedAtLastReport = m.depositedAtLastReport
      /\ w.usdcPaidOut = m.usdcPaidOut
  <2> HIDE DEF m
  <2> QED BY <1>2 DEF NodeEntries
<1>5. [x.assets EXCEPT ![a] = y] = Put(x.assets, a, y) /\ [x.nodes EXCEPT ![n] = w] = Put(x.nodes, n, w)
  <2> HIDE DEF y, w
  <2>1. [x.assets EXCEPT ![a] = y] = Put(x.assets, a, y)
    BY <1>1, PutThere
  <2>2. [x.nodes EXCEPT ![n] = w] = Put(x.nodes, n, w)
    BY <1>1, PutThere
  <2> QED BY <2>1, <2>2
<1>6. t = CountSnapshot(x, [x.assets EXCEPT ![a] = y], x.feesTotal + fee, x.usdcTotal + gross,
                        [x.nodes EXCEPT ![n] = w])
  BY SaleSplit
<1> HIDE DEF y, w, c, m
<1>7. /\ u \in Snapshots /\ AssetNow(x, u, a, y) /\ u.nodes = x.nodes /\ u.exits = x.exits
      /\ SameNodes(x, u) /\ SameExits(x, u)
  BY <1>3, AssetWritten
<1>8. u.assets = Put(x.assets, a, y)
  BY SnapshotParts DEF WriteAsset
<1> HIDE DEF u
<1>9. /\ v \in Snapshots /\ NodeNow(u, v, n, w) /\ v.assets = u.assets /\ v.exits = u.exits
      /\ SameAssets(u, v) /\ SameExits(u, v)
  BY <1>4, <1>7, NodeWritten
<1>10. v.nodes = Put(x.nodes, n, w)
  BY <1>7, SnapshotParts DEF WriteNode
<1> HIDE DEF v
<1>11. /\ Put(x.assets, a, y) \in Maps(Assets, AssetEntries)
       /\ Put(x.nodes, n, w) \in Maps(Nodes, NodeEntries)
       /\ x.feesTotal + fee \in Nat /\ x.usdcTotal + gross \in Nat
  <2>1. v.assets \in Maps(Assets, AssetEntries) /\ v.nodes \in Maps(Nodes, NodeEntries)
    BY <1>9, SnapshotParts
  <2>2. x.feesTotal \in Nat /\ x.usdcTotal \in Nat
    BY SnapshotParts
  <2> QED BY <1>8, <1>9, <1>10, <2>1, <2>2
<1>12. /\ t \in Snapshots /\ t.assets = v.assets /\ t.nodes = v.nodes /\ t.exits = v.exits
       /\ t.feesTotal = x.feesTotal + fee /\ t.usdcTotal = x.usdcTotal + gross
  <2>1. t = CountSnapshot(x, Put(x.assets, a, y), x.feesTotal + fee, x.usdcTotal + gross,
                          Put(x.nodes, n, w))
    BY <1>5, <1>6
  <2>2. /\ t \in Snapshots /\ t.assets = Put(x.assets, a, y) /\ t.nodes = Put(x.nodes, n, w)
        /\ t.exits = x.exits
        /\ t.feesTotal = x.feesTotal + fee /\ t.usdcTotal = x.usdcTotal + gross
    <3> DEFINE i == x.feesTotal + fee
               j == x.usdcTotal + gross
               f == Put(x.assets, a, y)
               g == Put(x.nodes, n, w)
    <3>1. /\ i \in Nat /\ j \in Nat /\ f \in Maps(Assets, AssetEntries)
          /\ g \in Maps(Nodes, NodeEntries) /\ t = CountSnapshot(x, f, i, j, g)
      BY <1>11, <2>1
    <3> HIDE DEF i, j, f, g
    <3>2. /\ t \in Snapshots /\ t.assets = f /\ t.nodes = g /\ t.exits = x.exits
          /\ t.feesTotal = i /\ t.usdcTotal = j
      BY <3>1, SnapshotCounted
    <3> QED BY <3>2 DEF i, j, f, g
  <2> QED BY <1>7, <1>8, <1>9, <1>10, <2>2
<1>13. SameNodes(v, t) /\ SameAssets(v, t) /\ SameExits(v, t)
  BY <1>12 DEF SameNodes, SameAssets, SameExits, NodeOf, AssetOf, ExitAt
<1>14. /\ NodesAlike(x, u) /\ ExitsAlike(x, u) /\ AssetShown(x, u, a, y.queue, y.tokensSettled)
       /\ NodeShown(u, v, n, w.depositedAtLastReport, w.usdcPaidOut)
       /\ AssetsAlike(u, v) /\ ExitsAlike(u, v)
       /\ NodesAlike(v, t) /\ AssetsAlike(v, t) /\ ExitsAlike(v, t)
  <2>1. NodesAlike(x, u) /\ ExitsAlike(x, u) /\ AssetsAlike(u, v) /\ ExitsAlike(u, v)
    BY <1>7, <1>9, Views
  <2>2. NodesAlike(v, t) /\ AssetsAlike(v, t) /\ ExitsAlike(v, t)
    BY <1>13, Views
  <2>3. AssetShown(x, u, a, y.queue, y.tokensSettled)
    BY <1>7, AssetView
  <2>4. NodeShown(u, v, n, w.depositedAtLastReport, w.usdcPaidOut)
    BY <1>9, NodeView
  <2> QED BY <2>1, <2>2, <2>3, <2>4
<1>15. [Lines(x) EXCEPT ![a] = y.queue] = Lines(x)
  BY <1>1, <1>3 DEF Lines
<1>16. [Sold(x) EXCEPT ![a] = y.tokensSettled] = [Sold(x) EXCEPT ![a] = @ + amount]
  BY <1>1, <1>3 DEF Sold
<1>17. /\ [Reports(x) EXCEPT ![n] = w.depositedAtLastReport] = Reports(x)
       /\ [Paid(x) EXCEPT ![n] = w.usdcPaidOut] = Paid(x)
  BY <1>1, <1>4 DEF Reports, Paid
<1>18. NodesAlike(x, t)
  BY <1>14, <1>17 DEF NodesAlike, NodeShown
<1>19. ExitsAlike(x, t)
  BY <1>14 DEF ExitsAlike
<1>20. Lines(t) = Lines(x) /\ Sold(t) = [Sold(x) EXCEPT ![a] = @ + amount]
  BY <1>14, <1>15, <1>16 DEF AssetsAlike, AssetShown
<1> QED BY <1>12, <1>18, <1>19, <1>20

LEMMA PassSettled ==
  ASSUME NEW s \in Snapshots, NEW n \in Nodes, NEW a \in Assets, NEW id \in ExitIds,
         NEW gross \in Nat, NEW fee \in Nat, NEW amount \in Nat,
         NEW t, t = Apply(s, [name |-> "settled", asset |-> a, exit_id |-> id, node |-> n,
                              token_amount |-> amount, usdc_gross |-> gross, protocol_fee |-> fee])
  PROVE  /\ t \in Snapshots /\ NodesAlike(s, t) /\ Lines(t) = Lines(s)
         /\ Sold(t) = [Sold(s) EXCEPT ![a] = @ + amount]
         /\ t.feesTotal = s.feesTotal + fee /\ t.usdcTotal = s.usdcTotal + gross
         /\ ShownAs(s, t, <<a, id>>, [Shown(s)[<<a, id>>] EXCEPT !.state = "settled"])
<1> DEFINE e == [name |-> "settled", asset |-> a, exit_id |-> id, node |-> n,
                 token_amount |-> amount, usdc_gross |-> gross, protocol_fee |-> fee]
           z == SeeAsset(s, e)
           y == [ExitOf(z, e) EXCEPT !.state = "settled"]
           w == SetExit(z, e, y)
           x == SeeNode(w, n)
<1>1. /\ "asset" \in DOMAIN e /\ e.asset = a /\ e.exit_id = id /\ Key(e) = <<a, id>>
      /\ e.name = "settled" /\ e.node = n
      /\ e.token_amount = amount /\ e.usdc_gross = gross /\ e.protocol_fee = fee
  BY DEF Key
<1>2. t = Apply(s, e)
  OBVIOUS
<1> HIDE DEF e
<1>3. ExitOf(z, e) = Shown(s)[<<a, id>>] /\ ExitOf(z, e) \in ExitEntries
  BY <1>1, ExitSeen
<1>4. y \in ExitEntries /\ y = [Shown(s)[<<a, id>>] EXCEPT !.state = "settled"]
  BY <1>3 DEF ExitEntries, States
<1>5. t = CountSale(x, a, n, gross, fee, amount)
  <2>1. t = Settled(z, e)
    BY <1>1, <1>2 DEF Apply
  <2>2. w = SetState(z, e, "settled")
    BY DEF SetState
  <2> HIDE DEF z, w, y
  <2> QED BY <1>1, <2>1, <2>2 DEF Settled, CountSale
<1> HIDE DEF y
<1>6. /\ w \in Snapshots /\ NodesAlike(s, w) /\ AssetsAlike(s, w) /\ SameTotals(s, w)
      /\ ShownAs(s, w, <<a, id>>, y) /\ a \in DOMAIN w.assets
  <2>1. w = SetExit(SeeAsset(s, e), e, y)
    OBVIOUS
  <2> HIDE DEF w
  <2> QED BY <1>1, <1>4, <2>1, PassExit
<1> HIDE DEF w
<1>7. /\ x \in Snapshots /\ n \in DOMAIN x.nodes /\ x.assets = w.assets
      /\ SameNodes(w, x) /\ SameExits(w, x) /\ SameAssets(w, x) /\ SameTotals(w, x)
  BY <1>6, NodeSeen
<1>8. NodesAlike(w, x) /\ AssetsAlike(w, x) /\ ExitsAlike(w, x)
  BY <1>7, Views
<1> HIDE DEF x
<1>9. /\ t \in Snapshots /\ NodesAlike(x, t) /\ ExitsAlike(x, t) /\ Lines(t) = Lines(x)
      /\ Sold(t) = [Sold(x) EXCEPT ![a] = @ + amount]
      /\ t.feesTotal = x.feesTotal + fee /\ t.usdcTotal = x.usdcTotal + gross
  <2>1. a \in DOMAIN x.assets
    BY <1>6, <1>7
  <2> QED BY <1>5, <1>7, <2>1, SaleCounted
<1>10. ShownAs(s, t, <<a, id>>, y)
  BY <1>6, <1>8, <1>9 DEF ShownAs, ExitsAlike
<1>11. NodesAlike(s, t) /\ Lines(t) = Lines(s) /\ Sold(t) = [Sold(s) EXCEPT ![a] = @ + amount]
  BY <1>6, <1>8, <1>9 DEF NodesAlike, AssetsAlike
<1>12. t.feesTotal = s.feesTotal + fee /\ t.usdcTotal = s.usdcTotal + gross
  BY <1>6, <1>7, <1>9 DEF SameTotals
<1> QED BY <1>4, <1>9, <1>10, <1>11, <1>12

-----------------------------------------------------------------------------
(* What the events of one call change of what is shown.                    *)

\* An exit leaves its line, if it stands in it.
LEMMA LeavePass ==
  ASSUME NEW s \in Snapshots, NEW id \in ExitIds, NEW a \in Assets, exits[id].asset = a,
         exits'[id].asset = a,
         Without(Lines(s)[a], id) \in Seq(ExitIds),
         NEW t, t = PassOf(s, DequeuedEvent(id))
  PROVE  /\ t \in Snapshots /\ NodesAlike(s, t) /\ Sold(t) = Sold(s) /\ SameTotals(s, t)
         /\ Lines(t) = IF exits[id].status = "Queued"
                       THEN [Lines(s) EXCEPT ![a] = Without(@, id)] ELSE Lines(s)
         /\ \E x \in ExitEntries :
              /\ Shown(t) = [Shown(s) EXCEPT ![<<a, id>>] = x]
              /\ Known(s) \subseteq Known(t) /\ Known(t) \subseteq Known(s) \cup {<<a, id>>}
              /\ Shown(s)[<<a, id>>].state # "queued" => x = Shown(s)[<<a, id>>]
<1> DEFINE k == <<a, id>>
<1>1. CASE exits[id].status = "Queued"
  <2>1. DequeuedEvent(id) = <<[name |-> "dequeued", asset |-> a, exit_id |-> id]>>
    BY <1>1 DEF DequeuedEvent, OfExit
  <2>2. t = Apply(s, [name |-> "dequeued", asset |-> a, exit_id |-> id])
    BY <2>1, PassOfOne
  <2>3. /\ t \in Snapshots /\ NodesAlike(s, t) /\ Sold(t) = Sold(s) /\ SameTotals(s, t)
        /\ Lines(t) = [Lines(s) EXCEPT ![a] = Without(@, id)]
        /\ LeftAs(s, t, <<a, id>>)
    BY <2>2, PassDequeued
  <2>4. PICK x \in ExitEntries : /\ ShownAs(s, t, k, x)
                                 /\ Shown(s)[k].state # "queued" => x = Shown(s)[k]
    <3>1. LeftAs(s, t, k)
      BY <2>3
    <3> HIDE DEF k
    <3> QED BY <3>1, Zenon DEF LeftAs
  <2>5. /\ Shown(t) = [Shown(s) EXCEPT ![k] = x]
        /\ Known(s) \subseteq Known(t) /\ Known(t) \subseteq Known(s) \cup {k}
    BY <2>4 DEF ShownAs
  <2> QED BY <1>1, <2>3, <2>4, <2>5
<1>2. CASE exits[id].status # "Queued"
  <2>1. t = s
    BY <1>2, PassOfOne DEF DequeuedEvent
  <2>2. Shown(s)[k] \in ExitEntries /\ Shown(s) = [Shown(s) EXCEPT ![k] = Shown(s)[k]]
    <3>1. k \in ExitKeys /\ Shown(s) \in [ExitKeys -> ExitEntries]
      BY ViewTypes DEF ExitKeys
    <3> HIDE DEF k
    <3> QED BY <3>1
  <2> QED BY <1>2, <2>1, <2>2 DEF NodesAlike, SameTotals
<1> QED BY <1>1, <1>2

\* The standing bid is released, if there is one.
LEMMA ReleasePass ==
  ASSUME NEW s \in Snapshots, NEW id \in ExitIds, exits[id].asset \in Assets,
         exits[id].best_node \in Nodes \cup {NoAddr},
         NEW t, t = PassOf(s, ReleasedEvent(id))
  PROVE  t \in Snapshots /\ NodesAlike(s, t) /\ AssetsAlike(s, t) /\ ExitsAlike(s, t) /\ SameTotals(s, t)
<1> DEFINE n == exits[id].best_node
           a == exits[id].asset
<1>1. CASE n = NoAddr
  <2>1. t = s
    BY <1>1, PassOfOne DEF ReleasedEvent
  <2> QED BY <2>1 DEF NodesAlike, AssetsAlike, ExitsAlike, SameTotals
<1>2. CASE n # NoAddr
  <2>1. ReleasedEvent(id) = <<[name |-> "released", node |-> n, asset |-> a]>>
    BY <1>2 DEF ReleasedEvent, OnAsset
  <2> HIDE DEF n, a
  <2>2. t = Apply(s, [name |-> "released", node |-> n, asset |-> a])
    BY <2>1, PassOfOne
  <2>3. n \in Nodes /\ a \in Assets
    BY <1>2 DEF n, a
  <2> QED BY <2>2, <2>3, PassNoted
<1> QED BY <1>1, <1>2

\* The gross of a fill is paid in one part or two.
LEMMA PaymentPass ==
  ASSUME NEW s \in Snapshots, NEW id \in ExitIds,
         exits[id].asset \in Assets, exits[id].best_node \in Nodes, exits[id].best_usdc \in Nat,
         protocol_fee(exits[id].best_usdc) \in 0 .. exits[id].best_usdc,
         NEW t, t = PassOf(s, PaidOutEvents(id))
  PROVE  /\ t \in Snapshots /\ AssetsAlike(s, t) /\ ExitsAlike(s, t) /\ SameTotals(s, t)
         /\ Reports(t) = Reports(s)
         /\ Paid(t) = [Paid(s) EXCEPT ![exits[id].best_node] = @ + exits[id].best_usdc]
<1> DEFINE n == exits[id].best_node
           a == exits[id].asset
           gross == exits[id].best_usdc
           fee == protocol_fee(gross)
           net == gross - fee
           paid(v) == [name |-> "paid_out", node |-> n, asset |-> a, amount |-> v]
           p == <<paid(net)>>
           q == IF fee > 0 THEN <<paid(fee)>> ELSE <<>>
           X == {paid(net), paid(fee)}
           s1 == PassOf(s, p)
<1>1. PaidOutEvents(id) = p \o q
  BY DEF PaidOutEvents
<1>2. n \in Nodes /\ a \in Assets /\ gross \in Nat /\ fee \in Nat /\ net \in Nat /\ net + fee = gross
  OBVIOUS
<1>3. p \in Seq(X) /\ (q = <<>> \/ \E e \in X : q = <<e>>)
  OBVIOUS
<1>4. t = PassOf(s1, q)
  <2> HIDE DEF p, q, X
  <2> QED BY <1>1, <1>3, PassOfMore
<1>5. s1 = Apply(s, paid(net))
  <2> HIDE DEF paid
  <2> QED BY PassOfOne
<1>6. fee > 0 => t = Apply(s1, paid(fee))
  <2> HIDE DEF paid, s1
  <2> QED BY <1>4, PassOfOne
<1>7. ~(fee > 0) => t = s1
  <2> HIDE DEF paid, s1
  <2> QED BY <1>4, PassOfOne
<1> HIDE DEF n, a, gross, fee, net, s1
<1>8. /\ s1 \in Snapshots /\ AssetsAlike(s, s1) /\ ExitsAlike(s, s1) /\ SameTotals(s, s1)
      /\ Reports(s1) = Reports(s) /\ Paid(s1) = [Paid(s) EXCEPT ![n] = @ + net]
  BY <1>2, <1>5, PassPaidOut
<1>9. Paid(s) \in [Nodes -> Nat]
  BY ViewTypes
<1>10. CASE fee > 0
  <2>1. /\ t \in Snapshots /\ AssetsAlike(s1, t) /\ ExitsAlike(s1, t) /\ SameTotals(s1, t)
        /\ Reports(t) = Reports(s1) /\ Paid(t) = [Paid(s1) EXCEPT ![n] = @ + fee]
    <3>1. s1 \in Snapshots /\ t = Apply(s1, paid(fee))
      BY <1>6, <1>8, <1>10
    <3> QED BY <1>2, <3>1, PassPaidOut
  <2>2. Paid(t) = [Paid(s) EXCEPT ![n] = @ + gross]
    <3> DEFINE f == Paid(s)
    <3>1. /\ f \in [Nodes -> Nat] /\ Paid(s1) = [f EXCEPT ![n] = @ + net]
          /\ Paid(t) = [Paid(s1) EXCEPT ![n] = @ + fee]
      BY <1>8, <1>9, <2>1
    <3> HIDE DEF f
    <3>2. (f[n] + net) + fee = f[n] + gross
      BY <1>2, <3>1
    <3>3. Paid(t) = [f EXCEPT ![n] = (f[n] + net) + fee]
      BY <1>2, <3>1
    <3>4. Paid(t) = [f EXCEPT ![n] = @ + gross]
      BY <3>2, <3>3
    <3> QED BY <3>4 DEF f
  <2> QED BY <1>8, <2>1, <2>2 DEF AssetsAlike, ExitsAlike, SameTotals, n, gross
<1>11. CASE ~(fee > 0)
  <2>1. fee = 0 /\ net = gross /\ t = s1
    BY <1>2, <1>7, <1>11
  <2> QED BY <1>8, <2>1 DEF n, gross
<1> QED BY <1>10, <1>11

\* The line of the exit ex, which is id, after it left it.
Leaves(s, t, ex, id) ==
    Lines(t) = IF ex.status = "Queued" THEN [Lines(s) EXCEPT ![ex.asset] = Without(@, id)]
               ELSE Lines(s)

\* A fill: the payments, the sale, and the way out of the line.
FilledAs(s, t, ex, id, fee) ==
    LET k == <<ex.asset, id>> IN
    /\ Reports(t) = Reports(s)
    /\ Paid(t) = [Paid(s) EXCEPT ![ex.best_node] = @ + ex.best_usdc]
    /\ Sold(t) = [Sold(s) EXCEPT ![ex.asset] = @ + ex.amount]
    /\ t.feesTotal = s.feesTotal + fee
    /\ t.usdcTotal = s.usdcTotal + ex.best_usdc
    /\ Leaves(s, t, ex, id)
    /\ ShownAs(s, t, k, [Shown(s)[k] EXCEPT !.state = "settled"])

LEMMA FillPass ==
  ASSUME NEW s \in Snapshots, NEW id \in ExitIds,
         exits[id].asset \in Assets, exits[id].best_node \in Nodes, exits[id].best_usdc \in Nat,
         exits[id].amount \in Nat, exits'[id].asset = exits[id].asset,
         protocol_fee(exits[id].best_usdc) \in 0 .. exits[id].best_usdc,
         Without(Lines(s)[exits[id].asset], id) \in Seq(ExitIds),
         NEW t, t = PassOf(s, FillEvents(id))
  PROVE  t \in Snapshots /\ FilledAs(s, t, exits[id], id, protocol_fee(exits[id].best_usdc))
<1> DEFINE n == exits[id].best_node
           a == exits[id].asset
           gross == exits[id].best_usdc
           fee == protocol_fee(gross)
           amount == exits[id].amount
           k == <<a, id>>
           e == [name |-> "settled", asset |-> a, exit_id |-> id, node |-> n,
                 token_amount |-> amount, usdc_gross |-> gross, protocol_fee |-> fee]
           p1 == PaidOutEvents(id)
           p2 == p1 \o SettledEvent(id)
           s1 == PassOf(s, p1)
           s2 == PassOf(s, p2)
           x == [Shown(s)[k] EXCEPT !.state = "settled"]
<1>1. /\ n \in Nodes /\ a \in Assets /\ gross \in Nat /\ fee \in Nat /\ amount \in Nat
      /\ k \in ExitKeys
  BY DEF ExitKeys
<1>2. t = PassOf(s2, DequeuedEvent(id)) /\ s2 = Apply(s1, e)
  <2> DEFINE paid(v) == [name |-> "paid_out", node |-> n, asset |-> a, amount |-> v]
             d == [name |-> "dequeued", asset |-> a, exit_id |-> id]
             X == {paid(gross - fee), paid(fee), e, d}
  <2>1. SettledEvent(id) = <<e>> /\ (DequeuedEvent(id) = <<>> \/ DequeuedEvent(id) = <<d>>)
    BY DEF SettledEvent, DequeuedEvent, OfExit
  <2>2. p1 = <<paid(gross - fee)>> \o (IF fee > 0 THEN <<paid(fee)>> ELSE <<>>)
    BY DEF PaidOutEvents
  <2>3. FillEvents(id) = p2 \o DequeuedEvent(id)
    BY DEF FillEvents
  <2>4. <<paid(gross - fee)>> \in Seq(X) /\ (IF fee > 0 THEN <<paid(fee)>> ELSE <<>>) \in Seq(X)
        /\ e \in X /\ d \in X
    <3>1. paid(gross - fee) \in X /\ paid(fee) \in X /\ e \in X /\ d \in X
      OBVIOUS
    <3> HIDE DEF paid, X, e, d, fee, gross
    <3> QED BY <3>1
  <2> HIDE DEF e, d, paid, X, fee, gross, a, n, amount
  <2>5. p1 \in Seq(X)
    BY <2>2, <2>4
  <2> HIDE DEF p1
  <2>6. p2 \in Seq(X)
    BY <2>1, <2>4, <2>5
  <2>7. s2 = PassOf(s1, <<e>>)
    BY <2>1, <2>4, <2>5, PassOfMore
  <2>8. t = PassOf(s2, DequeuedEvent(id))
    <3> HIDE DEF p2
    <3> QED BY <2>1, <2>3, <2>4, <2>6, PassOfMore
  <2>9. s2 = Apply(s1, e)
    <3> HIDE DEF s1, s2
    <3> QED BY <2>7, PassOfOne
  <2> QED BY <2>8, <2>9
<1>3. /\ s1 \in Snapshots /\ AssetsAlike(s, s1) /\ ExitsAlike(s, s1) /\ SameTotals(s, s1)
      /\ Reports(s1) = Reports(s) /\ Paid(s1) = [Paid(s) EXCEPT ![n] = @ + gross]
  BY PaymentPass
<1> HIDE DEF n, gross, fee, amount, s1, s2, p1, p2
<1>4. /\ s2 \in Snapshots /\ NodesAlike(s1, s2) /\ Lines(s2) = Lines(s1)
      /\ Sold(s2) = [Sold(s1) EXCEPT ![a] = @ + amount]
      /\ s2.feesTotal = s1.feesTotal + fee /\ s2.usdcTotal = s1.usdcTotal + gross
      /\ ShownAs(s1, s2, <<a, id>>, [Shown(s1)[<<a, id>>] EXCEPT !.state = "settled"])
  <2> HIDE DEF a, k
  <2>1. s1 \in Snapshots
    BY <1>3
  <2> QED BY <1>1, <1>2, <2>1, PassSettled
<1>5. Lines(s1) = Lines(s) /\ Sold(s1) = Sold(s) /\ Known(s1) = Known(s) /\ Shown(s1) = Shown(s)
      /\ s1.feesTotal = s.feesTotal /\ s1.usdcTotal = s.usdcTotal
  BY <1>3 DEF AssetsAlike, ExitsAlike, SameTotals
<1>6. /\ Known(s2) = Known(s) \cup {k} /\ Shown(s2) = [Shown(s) EXCEPT ![k] = x]
      /\ Shown(s2)[k] = x /\ x.state = "settled"
  <2>1. Shown(s) \in [ExitKeys -> ExitEntries]
    BY ViewTypes
  <2>2. ShownAs(s1, s2, k, x)
    BY <1>4, <1>5
  <2>3. x.state = "settled"
    BY <1>1, <2>1 DEF ExitEntries
  <2> HIDE DEF k, x
  <2> QED BY <1>1, <1>5, <2>1, <2>2, <2>3 DEF ShownAs
<1>7. /\ t \in Snapshots /\ NodesAlike(s2, t) /\ Sold(t) = Sold(s2) /\ SameTotals(s2, t)
      /\ Lines(t) = IF exits[id].status = "Queued"
                    THEN [Lines(s2) EXCEPT ![a] = Without(@, id)] ELSE Lines(s2)
      /\ \E y \in ExitEntries :
           /\ Shown(t) = [Shown(s2) EXCEPT ![<<a, id>>] = y]
           /\ Known(s2) \subseteq Known(t) /\ Known(t) \subseteq Known(s2) \cup {<<a, id>>}
           /\ Shown(s2)[<<a, id>>].state # "queued" => y = Shown(s2)[<<a, id>>]
  <2>1. Without(Lines(s2)[a], id) \in Seq(ExitIds)
    BY <1>4, <1>5
  <2>2. s2 \in Snapshots /\ a \in Assets /\ exits[id].asset = a /\ exits'[id].asset = a
    BY <1>1, <1>4
  <2>3. t = PassOf(s2, DequeuedEvent(id))
    BY <1>2
  <2> HIDE DEF a, k
  <2> QED BY <2>1, <2>2, <2>3, LeavePass
<1>8. Known(t) = Known(s) \cup {k} /\ Shown(t) = [Shown(s) EXCEPT ![k] = x]
  <2>1. PICK y \in ExitEntries :
          /\ Shown(t) = [Shown(s2) EXCEPT ![k] = y]
          /\ Known(s2) \subseteq Known(t) /\ Known(t) \subseteq Known(s2) \cup {k}
          /\ Shown(s2)[k].state # "queued" => y = Shown(s2)[k]
    BY <1>7
  <2>2. Shown(s) \in [ExitKeys -> ExitEntries]
    BY ViewTypes
  <2> HIDE DEF k, x
  <2>3. y = x
    BY <1>6, <2>1
  <2> QED BY <1>6, <2>1, <2>2, <2>3
<1>9. Reports(t) = Reports(s) /\ Paid(t) = [Paid(s) EXCEPT ![n] = @ + gross]
  BY <1>3, <1>4, <1>7 DEF NodesAlike
<1>10. t.feesTotal = s.feesTotal + fee /\ t.usdcTotal = s.usdcTotal + gross
  BY <1>4, <1>5, <1>7 DEF SameTotals
<1>11. /\ Sold(t) = [Sold(s) EXCEPT ![a] = @ + amount]
       /\ Lines(t) = IF exits[id].status = "Queued"
                     THEN [Lines(s) EXCEPT ![a] = Without(@, id)] ELSE Lines(s)
  BY <1>4, <1>5, <1>7
<1>12. ShownAs(s, t, k, x)
  BY <1>8 DEF ShownAs
<1>13. Leaves(s, t, exits[id], id)
  BY <1>11 DEF Leaves
<1> QED BY <1>7, <1>9, <1>10, <1>11, <1>12, <1>13 DEF FilledAs, n, gross, fee, amount

\* A cancellation: the release, the way out of the line, the refund, the end.
CancelledAs(s, t, ex, id) ==
    /\ NodesAlike(s, t) /\ Sold(t) = Sold(s) /\ SameTotals(s, t)
    /\ Leaves(s, t, ex, id)
    /\ \E x \in ExitEntries : ShownAs(s, t, <<ex.asset, id>>, x) /\ x.state = "cancelled"

LEMMA CancelPass ==
  ASSUME NEW s \in Snapshots, NEW id \in ExitIds,
         exits[id].asset \in Assets, exits[id].best_node \in Nodes \cup {NoAddr},
         exits'[id].asset = exits[id].asset,
         Without(Lines(s)[exits[id].asset], id) \in Seq(ExitIds),
         NEW t, t = PassOf(s, CancelEvents(id))
  PROVE  t \in Snapshots /\ CancelledAs(s, t, exits[id], id)
<1> DEFINE n == exits[id].best_node
           a == exits[id].asset
           k == <<a, id>>
           ev(name) == [name |-> name, asset |-> a, exit_id |-> id]
           p1 == ReleasedEvent(id)
           p2 == p1 \o DequeuedEvent(id)
           p3 == p2 \o <<ev("refunded")>>
           s1 == PassOf(s, p1)
           s2 == PassOf(s, p2)
           s3 == PassOf(s, p3)
<1>1. a \in Assets /\ k \in ExitKeys /\ exits[id].asset = a /\ exits'[id].asset = a
  BY DEF ExitKeys
<1>2. /\ s2 = PassOf(s1, DequeuedEvent(id)) /\ s3 = Apply(s2, ev("refunded"))
      /\ t = Apply(s3, ev("cancelled"))
  <2> DEFINE r == [name |-> "released", node |-> n, asset |-> a]
             X == {r, ev("dequeued"), ev("refunded"), ev("cancelled")}
  <2>1. /\ p1 = <<>> \/ p1 = <<r>>
        /\ DequeuedEvent(id) = <<>> \/ DequeuedEvent(id) = <<ev("dequeued")>>
        /\ CancelEvents(id) = p3 \o <<ev("cancelled")>>
    BY DEF ReleasedEvent, DequeuedEvent, CancelEvents, OnAsset, OfExit
  <2>2. r \in X /\ ev("dequeued") \in X /\ ev("refunded") \in X /\ ev("cancelled") \in X
    OBVIOUS
  <2> HIDE DEF r, ev, X, a, n, p1
  <2>3. p1 \in Seq(X) /\ DequeuedEvent(id) \in Seq(X) /\ <<ev("refunded")>> \in Seq(X)
    <3>1. <<>> \in Seq(X) /\ <<r>> \in Seq(X) /\ <<ev("dequeued")>> \in Seq(X)
          /\ <<ev("refunded")>> \in Seq(X)
      BY <2>2, Singletons
    <3> QED BY <2>1, <3>1
  <2>4. p2 \in Seq(X)
    BY <2>3
  <2>5. s2 = PassOf(s1, DequeuedEvent(id))
    BY <2>1, <2>2, <2>3, PassOfMore
  <2> HIDE DEF p2
  <2>6. p3 \in Seq(X)
    BY <2>3, <2>4
  <2>7. s3 = PassOf(s2, <<ev("refunded")>>)
    BY <2>2, <2>4, PassOfMore
  <2> HIDE DEF p3
  <2>8. t = PassOf(s3, <<ev("cancelled")>>)
    BY <2>1, <2>2, <2>6, PassOfMore
  <2> HIDE DEF s1, s2, s3
  <2> QED BY <2>5, <2>7, <2>8, PassOfOne
<1>3. s1 \in Snapshots /\ NodesAlike(s, s1) /\ AssetsAlike(s, s1) /\ ExitsAlike(s, s1) /\ SameTotals(s, s1)
  BY ReleasePass
<1> HIDE DEF n, s1, s2, s3, p1, p2, p3
<1>4. /\ s2 \in Snapshots /\ NodesAlike(s1, s2) /\ Sold(s2) = Sold(s1) /\ SameTotals(s1, s2)
      /\ Lines(s2) = IF exits[id].status = "Queued"
                     THEN [Lines(s1) EXCEPT ![a] = Without(@, id)] ELSE Lines(s1)
      /\ \E y \in ExitEntries :
           /\ Shown(s2) = [Shown(s1) EXCEPT ![<<a, id>>] = y]
           /\ Known(s1) \subseteq Known(s2) /\ Known(s2) \subseteq Known(s1) \cup {<<a, id>>}
           /\ Shown(s1)[<<a, id>>].state # "queued" => y = Shown(s1)[<<a, id>>]
  <2>1. Without(Lines(s1)[a], id) \in Seq(ExitIds)
    BY <1>3 DEF AssetsAlike
  <2>2. s1 \in Snapshots /\ a \in Assets /\ exits[id].asset = a /\ exits'[id].asset = a
    BY <1>1, <1>3
  <2>3. s2 = PassOf(s1, DequeuedEvent(id))
    BY <1>2
  <2> HIDE DEF a, k
  <2> QED BY <2>1, <2>2, <2>3, LeavePass
<1>5. /\ s3 \in Snapshots /\ NodesAlike(s2, s3) /\ AssetsAlike(s2, s3) /\ SameTotals(s2, s3)
      /\ ShownAfter(s2, s3, <<a, id>>, "refunded")
  <2>1. s3 = Apply(s2, [name |-> "refunded", asset |-> a, exit_id |-> id])
    BY <1>2
  <2>2. s2 \in Snapshots
    BY <1>4
  <2> HIDE DEF a, k, ev
  <2> QED BY <1>1, <2>1, <2>2, PassState
<1>6. /\ t \in Snapshots /\ NodesAlike(s3, t) /\ AssetsAlike(s3, t) /\ SameTotals(s3, t)
      /\ ShownAfter(s3, t, <<a, id>>, "cancelled")
  <2>1. t = Apply(s3, [name |-> "cancelled", asset |-> a, exit_id |-> id])
    BY <1>2
  <2>2. s3 \in Snapshots
    BY <1>5
  <2> HIDE DEF a, k, ev
  <2> QED BY <1>1, <2>1, <2>2, PassState
<1>7. /\ Known(t) = Known(s) \cup {k}
      /\ \E x \in ExitEntries : Shown(t) = [Shown(s) EXCEPT ![k] = x] /\ x.state = "cancelled"
  <2>1. Shown(s) \in [ExitKeys -> ExitEntries] /\ Shown(s1) = Shown(s) /\ Known(s1) = Known(s)
    BY <1>3, ViewTypes DEF ExitsAlike
  <2>2. PICK w \in ExitEntries :
          /\ Shown(s2) = [Shown(s1) EXCEPT ![k] = w]
          /\ Known(s1) \subseteq Known(s2) /\ Known(s2) \subseteq Known(s1) \cup {k}
    BY <1>4
  <2>3. PICK y \in ExitEntries : ShownAs(s2, s3, k, y)
    BY <1>5 DEF ShownAfter
  <2>4. PICK x \in ExitEntries : ShownAs(s3, t, k, x) /\ x.state = "cancelled"
    BY <1>6 DEF ShownAfter
  <2> HIDE DEF k
  <2>5. Known(t) = Known(s) \cup {k}
    BY <2>1, <2>2, <2>3, <2>4 DEF ShownAs
  <2>6. Shown(t) = [Shown(s) EXCEPT ![k] = x]
    BY <1>1, <2>1, <2>2, <2>3, <2>4 DEF ShownAs
  <2> QED BY <2>4, <2>5, <2>6
<1>8. NodesAlike(s, t) /\ Sold(t) = Sold(s) /\ SameTotals(s, t)
  BY <1>3, <1>4, <1>5, <1>6 DEF NodesAlike, AssetsAlike, SameTotals
<1>9. Lines(t) = IF exits[id].status = "Queued"
                 THEN [Lines(s) EXCEPT ![a] = Without(@, id)] ELSE Lines(s)
  BY <1>3, <1>4, <1>5, <1>6 DEF AssetsAlike
<1>10. \E x \in ExitEntries : ShownAs(s, t, k, x) /\ x.state = "cancelled"
  BY <1>7 DEF ShownAs
<1>11. Leaves(s, t, exits[id], id)
  BY <1>9 DEF Leaves
<1> QED BY <1>6, <1>8, <1>10, <1>11 DEF CancelledAs

\* A bid: the commitment, the release of the bid it beats, the new best bid.
LEMMA BidPass ==
  ASSUME NEW s \in Snapshots, NEW n \in Nodes, NEW id \in ExitIds, NEW v \in Nat,
         exits[id].asset \in Assets, exits[id].best_node \in Nodes \cup {NoAddr},
         NEW t, t = PassOf(s, BidEvents(n, id, v))
  PROVE  LET k == <<exits[id].asset, id>> IN
         /\ t \in Snapshots /\ NodesAlike(s, t) /\ AssetsAlike(s, t) /\ SameTotals(s, t)
         /\ ShownAs(s, t, k, [Shown(s)[k] EXCEPT !.bestBid = v])
<1> DEFINE a == exits[id].asset
           m == exits[id].best_node
           k == <<a, id>>
           c == [name |-> "committed", node |-> n, asset |-> a]
           b == [name |-> "bid", asset |-> a, exit_id |-> id, node |-> n, usdc_amount |-> v]
           p2 == <<c>> \o ReleasedEvent(id)
           s1 == PassOf(s, <<c>>)
           s2 == PassOf(s, p2)
<1>1. a \in Assets
  OBVIOUS
<1>2. s1 = Apply(s, c) /\ s2 = PassOf(s1, ReleasedEvent(id)) /\ t = Apply(s2, b)
  <2> DEFINE r == [name |-> "released", node |-> m, asset |-> a]
             X == {c, r, b}
  <2>1. /\ ReleasedEvent(id) = <<>> \/ ReleasedEvent(id) = <<r>>
        /\ BidEvents(n, id, v) = p2 \o <<b>>
    BY DEF ReleasedEvent, BidEvents, OnAsset
  <2>2. c \in X /\ r \in X /\ b \in X
    OBVIOUS
  <2> HIDE DEF c, r, b, X, a, m
  <2>3. <<c>> \in Seq(X) /\ ReleasedEvent(id) \in Seq(X)
    <3>1. <<>> \in Seq(X) /\ <<c>> \in Seq(X) /\ <<r>> \in Seq(X)
      BY <2>2, Singletons
    <3> QED BY <2>1, <3>1
  <2>4. p2 \in Seq(X)
    BY <2>3
  <2>5. s2 = PassOf(s1, ReleasedEvent(id))
    <3> DEFINE p == <<c>>
               q == ReleasedEvent(id)
    <3>1. q = <<>> \/ \E e \in X : q = <<e>>
      BY <2>1, <2>2
    <3>2. p \in Seq(X)
      BY <2>3
    <3>3. p2 = p \o q /\ s1 = PassOf(s, p)
      OBVIOUS
    <3> HIDE DEF p, q, p2, s1
    <3>4. PassOf(s, p \o q) = PassOf(PassOf(s, p), q)
      BY <3>1, <3>2, PassOfMore
    <3> QED BY <3>3, <3>4 DEF q, s2
  <2> HIDE DEF p2
  <2>6. t = PassOf(s2, <<b>>)
    BY <2>1, <2>2, <2>4, PassOfMore
  <2>7. s1 = Apply(s, c)
    BY PassOfOne
  <2> HIDE DEF s1, s2
  <2> QED BY <2>5, <2>6, <2>7, PassOfOne
<1> HIDE DEF s1, s2, p2
<1>3. s1 \in Snapshots /\ NodesAlike(s, s1) /\ AssetsAlike(s, s1) /\ ExitsAlike(s, s1) /\ SameTotals(s, s1)
  <2>1. s1 = Apply(s, [name |-> "committed", node |-> n, asset |-> a])
    BY <1>2
  <2> HIDE DEF a, c
  <2> QED BY <1>1, <2>1, PassNoted
<1>4. s2 \in Snapshots /\ NodesAlike(s1, s2) /\ AssetsAlike(s1, s2) /\ ExitsAlike(s1, s2) /\ SameTotals(s1, s2)
  BY <1>2, <1>3, ReleasePass
<1>5. /\ t \in Snapshots /\ NodesAlike(s2, t) /\ AssetsAlike(s2, t) /\ SameTotals(s2, t)
      /\ ShownAs(s2, t, <<a, id>>, [Shown(s2)[<<a, id>>] EXCEPT !.bestBid = v])
  <2>1. t = Apply(s2, [name |-> "bid", asset |-> a, exit_id |-> id, node |-> n, usdc_amount |-> v])
    BY <1>2
  <2>2. s2 \in Snapshots
    BY <1>4
  <2> HIDE DEF a, b, k
  <2> QED BY <1>1, <2>1, <2>2, PassBid
<1>6. Shown(s2) = Shown(s) /\ Known(s2) = Known(s)
  BY <1>3, <1>4 DEF ExitsAlike
<1>7. ShownAs(s, t, k, [Shown(s)[k] EXCEPT !.bestBid = v])
  BY <1>5, <1>6 DEF ShownAs
<1>8. NodesAlike(s, t) /\ AssetsAlike(s, t) /\ SameTotals(s, t)
  BY <1>3, <1>4, <1>5 DEF NodesAlike, AssetsAlike, SameTotals
<1> QED BY <1>5, <1>7, <1>8

\* An exit opens: the escrow and the opening, of an exit not shown before.
LEMMA OpenPass ==
  ASSUME NEW s \in Snapshots, next_id \in ExitIds, NEW a \in Assets, exits'[next_id].asset = a,
         NEW t, t = PassOf(s, OpenEvents)
  PROVE  /\ t \in Snapshots /\ NodesAlike(s, t) /\ AssetsAlike(s, t) /\ SameTotals(s, t)
         /\ ShownAfter(s, t, <<a, next_id>>, "opened")
<1> DEFINE id == next_id
           k == <<a, id>>
           ev(name) == [name |-> name, asset |-> a, exit_id |-> id]
           p == <<ev("escrowed")>>
           s1 == PassOf(s, p)
<1>1. s1 = Apply(s, ev("escrowed")) /\ t = Apply(s1, ev("opened"))
  <2> DEFINE X == {ev("escrowed"), ev("opened")}
             q == <<ev("opened")>>
  <2>1. OpenEvents = p \o q
    BY DEF OpenEvents, OfExit
  <2>2. ev("escrowed") \in X /\ ev("opened") \in X
    OBVIOUS
  <2> HIDE DEF ev, X
  <2>3. p \in Seq(X) /\ \E e \in X : q = <<e>>
    BY <2>2, Singletons
  <2>4. s1 = Apply(s, ev("escrowed"))
    BY PassOfOne
  <2>5. t = PassOf(s, p \o q)
    BY <2>1
  <2>6. q = <<ev("opened")>>
    OBVIOUS
  <2> HIDE DEF p, q
  <2>7. PassOf(s, p \o q) = PassOf(PassOf(s, p), q)
    BY <2>3, PassOfMore
  <2> HIDE DEF s1
  <2>8. t = PassOf(s1, q)
    BY <2>5, <2>7 DEF s1
  <2> QED BY <2>4, <2>6, <2>8, PassOfOne
<1> HIDE DEF s1
<1>2. id \in ExitIds /\ k \in ExitKeys
  BY DEF ExitKeys
<1>3. /\ s1 \in Snapshots /\ NodesAlike(s, s1) /\ AssetsAlike(s, s1) /\ SameTotals(s, s1)
      /\ ShownAfter(s, s1, <<a, id>>, "escrowed")
  <2>1. s1 = Apply(s, [name |-> "escrowed", asset |-> a, exit_id |-> id])
    BY <1>1
  <2> HIDE DEF id, ev, k
  <2> QED BY <1>2, <2>1, PassState
<1>4. /\ t \in Snapshots /\ NodesAlike(s1, t) /\ AssetsAlike(s1, t) /\ SameTotals(s1, t)
      /\ ShownAfter(s1, t, <<a, id>>, "opened")
  <2>1. t = Apply(s1, [name |-> "opened", asset |-> a, exit_id |-> id])
    BY <1>1
  <2>2. s1 \in Snapshots
    BY <1>3
  <2> HIDE DEF id, ev, k
  <2> QED BY <1>2, <2>1, <2>2, PassState
<1>5. ShownAfter(s, t, k, "opened")
  <2>1. Shown(s) \in [ExitKeys -> ExitEntries]
    BY ViewTypes
  <2>2. PICK w \in ExitEntries : ShownAs(s, s1, k, w) /\ w.bestBid = Shown(s)[k].bestBid
    BY <1>3 DEF ShownAfter
  <2>3. PICK x \in ExitEntries :
          ShownAs(s1, t, k, x) /\ x.bestBid = Shown(s1)[k].bestBid /\ x.state = "open"
    BY <1>4 DEF ShownAfter
  <2> HIDE DEF k
  <2>4. x.bestBid = Shown(s)[k].bestBid
    BY <1>2, <2>1, <2>2, <2>3 DEF ShownAs
  <2>5. ShownAs(s, t, k, x)
    BY <1>2, <2>1, <2>2, <2>3 DEF ShownAs
  <2> QED BY <2>3, <2>4, <2>5 DEF ShownAfter
<1> QED BY <1>3, <1>4, <1>5 DEF NodesAlike, AssetsAlike, SameTotals

-----------------------------------------------------------------------------
(* The snapshot and the contracts: the inductive invariant.                *)

\* An exit the auction has opened is shown in its status, a live one with its best bid;
\* one it has not opened is not shown.
ExitIsShown(id) ==
    LET ex == exits[id]  k == <<ex.asset, id>> IN
    IF ex.status = "None" THEN \A j \in Known(snap) : j[2] # id
    ELSE /\ k \in Known(snap)
         /\ Shown(snap)[k].state = StateNames[ex.status]
         /\ Live(ex) => Shown(snap)[k].bestBid = ex.best_usdc

\* What was paid out is what the vault has filled; what was reported last is what the
\* vault holds, or more by payments since.
NodeIsShown(n) ==
    /\ Paid(snap)[n] = nodes[n].filled
    /\ Reports(snap)[n] >= nodes[n].deposited
    /\ Reports(snap)[n] <= nodes[n].deposited + Paid(snap)[n]

SnapInv ==
    /\ LayerInv
    /\ snap \in Snapshots
    /\ Lines(snap) = queues
    /\ \A n \in Nodes : NodeIsShown(n)
    /\ \A id \in ExitIds : ExitIsShown(id)

\* A step that sells nothing, as the sums see it.
MoneyStill(s, t) == Paid(t) = Paid(s) /\ Sold(t) = Sold(s) /\ SameTotals(s, t)

\* A step that sells the exit id, as the sums see it.
SaleShown(id) ==
    /\ Live(exits[id]) /\ fill(id)
    /\ FilledAs(snap, snap', exits[id], id, protocol_fee(exits[id].best_usdc))

\* One exit changes, and the snapshot of that exit with it.
LEMMA ExitsShownStep ==
  ASSUME SnapInv, NEW id \in ExitIds, NEW a \in Assets, exits' \in [ExitIds -> ExitStates],
         \A x \in ExitIds : x # id => exits'[x] = exits[x],
         exits'[id].asset = a, exits'[id].status # "None",
         NEW y, ShownAs(snap, snap', <<a, id>>, y),
         y.state = StateNames[exits'[id].status],
         Live(exits'[id]) => y.bestBid = exits'[id].best_usdc
  PROVE  \A x \in ExitIds : ExitIsShown(x)'
<1>1. Shown(snap) \in [ExitKeys -> ExitEntries] /\ <<a, id>> \in ExitKeys
  BY ViewTypes DEF SnapInv, ExitKeys
<1>2. Known(snap') = Known(snap) \cup {<<a, id>>} /\ Shown(snap') = [Shown(snap) EXCEPT ![<<a, id>>] = y]
  BY DEF ShownAs
<1>3. ExitIsShown(id)'
  BY <1>1, <1>2 DEF ExitIsShown
<1>4. ASSUME NEW x \in ExitIds, x # id
      PROVE  ExitIsShown(x)'
  <2> DEFINE k == <<exits[x].asset, x>>
  <2>1. exits'[x] = exits[x] /\ ExitIsShown(x)
    BY <1>4 DEF SnapInv
  <2>2. CASE exits[x].status = "None"
    BY <1>2, <1>4, <2>1, <2>2 DEF ExitIsShown
  <2>3. CASE exits[x].status # "None"
    <3>1. k # <<a, id>>
      BY <1>4
    <3>2. k \in Known(snap')
      BY <1>2, <2>1, <2>3 DEF ExitIsShown
    <3>3. Shown(snap')[k] = Shown(snap)[k]
      <4>1. exits[x].asset \in Assets
        BY <2>3 DEF SnapInv, LayerInv, AuctionSlots, NoExit
      <4>2. k \in ExitKeys
        BY <4>1 DEF ExitKeys
      <4> HIDE DEF k
      <4> QED BY <1>1, <1>2, <3>1, <4>2
    <3> QED BY <2>1, <2>3, <3>2, <3>3 DEF ExitIsShown
  <2> QED BY <2>2, <2>3
<1> QED BY <1>3, <1>4

\* Nothing changes that the exits' part of the snapshot shows.
LEMMA ExitsShownStill ==
  ASSUME SnapInv, UNCHANGED exits, ExitsAlike(snap, snap')
  PROVE  \A x \in ExitIds : ExitIsShown(x)'
BY DEF SnapInv, ExitsAlike, ExitIsShown

LEMMA NodesShownStill ==
  ASSUME SnapInv, NodesAlike(snap, snap'),
         \A n \in Nodes : nodes'[n].deposited = nodes[n].deposited /\ nodes'[n].filled = nodes[n].filled
  PROVE  \A n \in Nodes : NodeIsShown(n)'
BY DEF SnapInv, NodesAlike, NodeIsShown

-----------------------------------------------------------------------------
(* Every step keeps it.                                                    *)

\* The steps of EventSpec are those of the layer.
LEMMA EventIsLayer == [EventNext]_eventVars => [LayerNext]_layerVars
<1>1. EventNext => LayerNext
  <2>1. ASSUME NEW n \in Nodes, NodeEvents(n), UNCHANGED <<routerStorage, queueVars, auctionStorage>>
        PROVE  LayerNext
    <3>1. NodeCalls
      BY <2>1 DEF NodeEvents, NodeCalls
    <3> QED BY <2>1, <3>1 DEF LayerNext
  <2> QED BY <2>1 DEF EventNext, LayerNext, SellerCalls
<1>2. UNCHANGED eventVars => UNCHANGED layerVars
  BY DEF eventVars
<1> QED BY <1>1, <1>2

\* A step that moves no exit, no line and no capital, and whose events show none of it.
LEMMA QuietKeepsInv ==
  ASSUME SnapInv, LayerInv', UNCHANGED <<exits, queues>>, snap' \in Snapshots,
         NodesAlike(snap, snap'), AssetsAlike(snap, snap'), ExitsAlike(snap, snap'),
         \A n \in Nodes : nodes'[n].deposited = nodes[n].deposited /\ nodes'[n].filled = nodes[n].filled
  PROVE  SnapInv'
<1>1. \A n \in Nodes : NodeIsShown(n)'
  BY NodesShownStill
<1>2. \A x \in ExitIds : ExitIsShown(x)'
  BY ExitsShownStill
<1>3. Lines(snap') = queues'
  BY DEF SnapInv, AssetsAlike
<1> QED BY <1>1, <1>2, <1>3 DEF SnapInv

\* A step that publishes nothing.
LEMMA SilentKeepsInv ==
  ASSUME SnapInv, LayerInv', UNCHANGED <<snap, nodes, exits, queues>>
  PROVE  SnapInv' /\ MoneyStill(snap, snap')
<1>1. SnapInv'
  BY QuietKeepsInv DEF SnapInv, NodesAlike, AssetsAlike, ExitsAlike
<1> QED BY <1>1 DEF MoneyStill, SameTotals

LEMMA AdminIsSilent ==
  ASSUME AdminCalls \/ LayerTick
  PROVE  UNCHANGED <<nodes, exits, queues, balance>>
<1>1. CASE LayerTick
  BY <1>1 DEF LayerTick, Tick, vaultStorage, queueVars, auctionStorage
<1>2. CASE VaultAdminCalls /\ UNCHANGED <<routerStorage, queueVars, auctionStorage>>
  BY <1>2 DEF VaultAdminCalls, vault_initialize, vault_set_auction, vault_set_router,
              vault_set_admin, set_max_single_fill_bps, queueVars, auctionStorage
<1>3. CASE RouterAdminCalls /\ UNCHANGED <<queueVars, auctionStorage>>
  BY <1>3 DEF RouterAdminCalls, router_initialize, router_set_auction, router_set_admin,
              set_treasury, set_protocol_fee_bps, vaultVars, vaultStorage, queueVars, auctionStorage
<1>4. CASE QueueAdminCalls /\ UNCHANGED <<routerVars, auctionStorage>>
  BY <1>4 DEF QueueAdminCalls, queue_initialize, queue_set_auction, routerVars, vaultVars,
              vaultStorage, auctionStorage
<1>5. CASE \E admin \in Admins : auction_initialize(admin)
  BY <1>5 DEF auction_initialize, routerVars, vaultVars, vaultStorage, queueVars
<1>6. CASE \E s, x \in Admins : auction_set_admin(s, x)
  BY <1>6 DEF auction_set_admin, routerVars, vaultVars, vaultStorage, queueVars
<1> QED BY <1>1, <1>2, <1>3, <1>4, <1>5, <1>6 DEF AdminCalls

\* Of the vault's records only the deposit of the node n moves.
OnlyDepositOf(n) ==
    /\ \A m \in Nodes : m # n => nodes'[m] = nodes[m]
    /\ nodes'[n].filled = nodes[n].filled

\* A deposit or a withdrawal reports the node's new total.
LEMMA ReportKeepsInv ==
  ASSUME SnapInv, LayerInv', UNCHANGED <<exits, queues>>, NEW n \in Nodes,
         NEW name \in {"deposit", "withdraw"}, Publish(WithTotal(name, n)),
         OnlyDepositOf(n)
  PROVE  SnapInv' /\ MoneyStill(snap, snap')
<1> DEFINE v == nodes'[n].deposited
<1>1. v \in Nat /\ snap \in Snapshots
  BY DEF SnapInv, LayerInv, RouterInv, VaultInv, VaultTypeOK, NodeStates
<1>2. snap' = Apply(snap, [name |-> name, node |-> n, total_deposited |-> v])
  <2>1. snap' = PassOf(snap, WithTotal(name, n))
    BY DEF Publish, PassOf
  <2> QED BY <2>1, PassOfOne DEF WithTotal
<1> HIDE DEF v
<1>3. /\ snap' \in Snapshots /\ AssetsAlike(snap, snap') /\ ExitsAlike(snap, snap')
      /\ Reports(snap') = [Reports(snap) EXCEPT ![n] = v] /\ Paid(snap') = Paid(snap)
      /\ SameTotals(snap, snap')
  <2>1. v \in Nat
    BY <1>1
  <2>2. snap \in Snapshots
    BY <1>1
  <2>3. snap' = Apply(snap, [name |-> name, node |-> n, total_deposited |-> v])
    BY <1>2
  <2>4. snap' \in Snapshots /\ AssetsAlike(snap, snap') /\ ExitsAlike(snap, snap')
        /\ SameTotals(snap, snap') /\ ReportedAs(snap, snap', n, v)
    BY <2>1, <2>2, <2>3, PassReport
  <2> QED BY <2>4 DEF ReportedAs
<1>4. ASSUME NEW m \in Nodes
      PROVE  NodeIsShown(m)'
  <2>1. Reports(snap) \in [Nodes -> Nat] /\ Paid(snap) \in [Nodes -> Nat]
    BY <1>1, ViewTypes
  <2>2. NodeIsShown(m)
    BY DEF SnapInv
  <2>3. CASE m = n
    BY <1>1, <1>3, <2>1, <2>2, <2>3 DEF NodeIsShown, OnlyDepositOf, v
  <2>4. CASE m # n
    BY <1>3, <2>1, <2>2, <2>4 DEF NodeIsShown, OnlyDepositOf
  <2> QED BY <2>3, <2>4
<1>5. \A x \in ExitIds : ExitIsShown(x)'
  BY <1>3, ExitsShownStill
<1>6. Lines(snap') = queues'
  BY <1>3 DEF SnapInv, AssetsAlike
<1>7. MoneyStill(snap, snap')
  BY <1>3 DEF MoneyStill, AssetsAlike
<1> QED BY <1>3, <1>4, <1>5, <1>6, <1>7 DEF SnapInv

LEMMA NodeEventsKeepInv ==
  ASSUME SnapInv, LayerInv', NEW n \in Nodes, NodeEvents(n),
         UNCHANGED <<routerStorage, queueVars, auctionStorage>>
  PROVE  SnapInv' /\ MoneyStill(snap, snap')
<1>1. UNCHANGED <<exits, queues>> /\ snap \in Snapshots /\ nodes \in [Nodes -> NodeStates]
  BY DEF queueVars, auctionStorage, SnapInv, LayerInv, RouterInv, VaultInv, VaultTypeOK
<1>2. CASE \E amt \in DepositAmounts : deposit(n, amt) /\ Publish(WithTotal("deposit", n))
  <2>1. PICK amt \in DepositAmounts : deposit(n, amt) /\ Publish(WithTotal("deposit", n))
    BY <1>2
  <2>2. OnlyDepositOf(n)
    BY <1>1, <2>1 DEF deposit, NodeStates, OnlyDepositOf
  <2> QED BY <1>1, <2>1, <2>2, ReportKeepsInv
<1>3. CASE execute_withdrawal(n) /\ Publish(WithTotal("withdraw", n))
  <2>1. OnlyDepositOf(n)
    BY <1>1, <1>3 DEF execute_withdrawal, NodeStates, OnlyDepositOf
  <2> QED BY <1>1, <1>3, <2>1, ReportKeepsInv
<1>4. ASSUME UNCHANGED nodes, NEW name \in {"withdraw_requested", "withdraw_cancelled"},
             Publish(OfNode(name, n))
      PROVE  SnapInv' /\ MoneyStill(snap, snap')
  <2>1. snap' = Apply(snap, [name |-> name, node |-> n])
    <3>1. snap' = PassOf(snap, OfNode(name, n))
      BY <1>4 DEF Publish, PassOf
    <3> QED BY <3>1, PassOfOne DEF OfNode
  <2>2. /\ snap' \in Snapshots /\ NodesAlike(snap, snap') /\ AssetsAlike(snap, snap')
        /\ ExitsAlike(snap, snap') /\ SameTotals(snap, snap')
    BY <1>1, <2>1, PassNoted
  <2>3. MoneyStill(snap, snap')
    BY <2>2 DEF MoneyStill, NodesAlike, AssetsAlike
  <2> QED BY <1>1, <1>4, <2>2, <2>3, QuietKeepsInv
<1>5. CASE \E amt \in WithdrawAmounts :
             request_withdrawal(n, amt) /\ Publish(OfNode("withdraw_requested", n))
  BY <1>4, <1>5 DEF request_withdrawal
<1>6. CASE cancel_withdrawal(n) /\ Publish(OfNode("withdraw_cancelled", n))
  BY <1>4, <1>6 DEF cancel_withdrawal
<1>7. CASE \E a \in Assets, m \in Ceilings, d \in Discounts, on \in BOOLEAN :
             set_appetite(n, a, m, d, on) /\ Publish(OnAsset("appetite_set", n, a))
  <2>1. PICK a \in Assets : UNCHANGED nodes /\ Publish(OnAsset("appetite_set", n, a))
    BY <1>7 DEF set_appetite
  <2>2. snap' = Apply(snap, [name |-> "appetite_set", node |-> n, asset |-> a])
    <3>1. snap' = PassOf(snap, OnAsset("appetite_set", n, a))
      BY <2>1 DEF Publish, PassOf
    <3> QED BY <3>1, PassOfOne DEF OnAsset
  <2>3. /\ snap' \in Snapshots /\ NodesAlike(snap, snap') /\ AssetsAlike(snap, snap')
        /\ ExitsAlike(snap, snap') /\ SameTotals(snap, snap')
    BY <1>1, <2>2, PassNoted
  <2>4. MoneyStill(snap, snap')
    BY <2>3 DEF MoneyStill, NodesAlike, AssetsAlike
  <2> QED BY <1>1, <2>1, <2>3, <2>4, QuietKeepsInv
<1>8. CASE \E a \in Assets, amt \in ReduceAmounts : reduce_exposure(n, a, amt) /\ UNCHANGED snap
  BY <1>1, <1>8, SilentKeepsInv DEF reduce_exposure
<1> QED BY <1>2, <1>3, <1>5, <1>6, <1>7, <1>8 DEF NodeEvents

\* An exit that leaves its line leaves it as the snapshot says.
LEMMA LeavingLine ==
  ASSUME LayerInv, NEW id \in ExitIds, Live(exits[id])
  PROVE  LET a == exits[id].asset IN
         /\ a \in Assets /\ Without(queues[a], id) \in Seq(ExitIds)
         /\ LeaveLine(id) => queues' = IF exits[id].status = "Queued"
                                       THEN [queues EXCEPT ![a] = Without(@, id)] ELSE queues
<1> DEFINE a == exits[id].asset
           q == queues[a]
           S == Range(q) \ {id}
<1>1. a \in Assets
  BY LiveExit
<1>2. q \in Seq(ExitIds) /\ NoDuplicates(q)
  BY <1>1 DEF LayerInv, QueueInv, QueueTypeOK, LineWellFormed, NoDuplicates
<1>3. \A j \in 1 .. Len(q) : q[j] \in S <=> q[j] # id
  BY <1>2 DEF Range
<1>4. ASSUME InLine(q, id)
      PROVE  Filter(q, S) = WithoutIndex(q, position_of(q, id)) /\ Filter(q, S) \in Seq(ExitIds)
  <2>1. PICK i \in 1 .. Len(q) : q[i] = id
    BY <1>4 DEF InLine
  <2>2. position_of(q, id) = i
    BY <1>2, <2>1, PositionOf
  <2>3. i \in 1 .. (Len(q) + 1) /\ \A j \in 1 .. Len(q) : q[j] \in S <=> j # i
    BY <1>2, <1>3, <2>1 DEF NoDuplicates
  <2> HIDE DEF S
  <2>4. /\ Filter(q, S) \in Seq(ExitIds)
        /\ Len(Filter(q, S)) = IF i <= Len(q) THEN Len(q) - 1 ELSE Len(q)
        /\ \A k \in 1 .. Len(Filter(q, S)) : Filter(q, S)[k] = q[IF k < i THEN k ELSE k + 1]
    BY <1>2, <2>3, FilterOut
  <2>5. /\ WithoutIndex(q, i) \in Seq(ExitIds) /\ Len(WithoutIndex(q, i)) = Len(q) - 1
        /\ \A k \in 1 .. Len(WithoutIndex(q, i)) :
              WithoutIndex(q, i)[k] = q[IF k < i THEN k ELSE k + 1]
    BY <1>2, <2>1, WithoutIndexEffect
  <2> HIDE DEF q
  <2> DEFINE f == Filter(q, S)
             g == WithoutIndex(q, i)
  <2>6. f \in Seq(ExitIds) /\ g \in Seq(ExitIds) /\ Len(f) = Len(g)
    BY <1>2, <2>1, <2>4, <2>5
  <2>7. \A k \in 1 .. Len(f) : f[k] = g[k]
    BY <2>4, <2>5, <2>6
  <2> HIDE DEF f, g
  <2>8. f = g
    BY <2>6, <2>7
  <2> QED BY <2>2, <2>6, <2>8 DEF f, g
<1>5. ASSUME ~InLine(q, id)
      PROVE  Filter(q, S) = q
  <2>1. \A j \in 1 .. Len(q) : q[j] \in S
    BY <1>3, <1>5 DEF InLine
  <2> HIDE DEF q, S
  <2> QED BY <1>2, <2>1, FilterAll
<1>6. Without(q, id) = Filter(q, S)
  BY DEF Without
<1>7. Without(q, id) \in Seq(ExitIds)
  BY <1>2, <1>4, <1>5, <1>6
<1>8. ASSUME LeaveLine(id), exits[id].status = "Queued"
      PROVE  queues' = [queues EXCEPT ![a] = Without(@, id)]
  <2>1. InLine(q, id) /\ queues' = [queues EXCEPT ![a] = WithoutIndex(@, position_of(@, id))]
    BY <1>8 DEF LeaveLine, dequeue
  <2> QED BY <1>4, <1>6, <2>1
<1>9. ASSUME LeaveLine(id), exits[id].status # "Queued"
      PROVE  queues' = queues
  BY <1>9 DEF LeaveLine
<1> QED BY <1>1, <1>7, <1>8, <1>9

\* The line of an exit that leaves it, in the snapshot and in the queue contract.
LEMMA LinesShownLeaving ==
  ASSUME SnapInv, NEW id \in ExitIds, Live(exits[id]), LeaveLine(id),
         Leaves(snap, snap', exits[id], id)
  PROVE  Lines(snap') = queues'
<1>1. LayerInv /\ Lines(snap) = queues
  BY DEF SnapInv
<1> QED BY <1>1, LeavingLine DEF Leaves

LEMMA FillKeepsSnap ==
  ASSUME SnapInv, LayerInv', NEW id \in ExitIds, Live(exits[id]), fill(id),
         Publish(FillEvents(id))
  PROVE  SnapInv' /\ SaleShown(id)
<1> DEFINE n == exits[id].best_node
           a == exits[id].asset
           u == exits[id].best_usdc
           fee == protocol_fee(u)
           y == [Shown(snap)[<<a, id>>] EXCEPT !.state = "settled"]
<1>1. LayerInv /\ snap \in Snapshots /\ Lines(snap) = queues
  BY DEF SnapInv
<1>2. /\ n \in Nodes /\ u \in Nat
      /\ nodes'[n].deposited = nodes[n].deposited - u
      /\ nodes'[n].filled = nodes[n].filled + u
      /\ \A m \in Nodes : m # n => nodes'[m] = nodes[m]
      /\ exits'[id] = [exits[id] EXCEPT !.status = "Settled"]
      /\ \A x \in ExitIds : x # id => exits'[x] = exits[x]
  BY <1>1, FillTakes
<1>3. exits[id] \in ExitStates /\ a \in Assets /\ exits[id].amount \in Nat
  BY <1>1, LiveExit
<1>4. /\ exits'[id].asset = a /\ exits'[id].status = "Settled"
      /\ exits' \in [ExitIds -> ExitStates] /\ ~Live(exits'[id])
  BY <1>2, <1>3 DEF ExitStates, Live, LayerInv, AuctionTypeOK
<1>5. fee \in 0 .. u
  <2>1. settle(AuctionAddr, id, n, exits[id].amount, u)
    BY DEF fill
  <2>2. u - fee > 0
    BY <2>1 DEF settle, PayOutAllowed
  <2>3. fee \in Nat
    BY <1>1, <1>2, FeeType DEF LayerInv, RouterInv, RouterTypeOK
  <2> HIDE DEF fee, u
  <2> QED BY <1>2, <2>2, <2>3
<1>6. Without(Lines(snap)[a], id) \in Seq(ExitIds)
  BY <1>1, LeavingLine
<1>7. snap' \in Snapshots /\ FilledAs(snap, snap', exits[id], id, fee)
  <2>1. snap' = PassOf(snap, FillEvents(id))
    BY DEF Publish, PassOf
  <2> QED BY <1>1, <1>2, <1>3, <1>4, <1>5, <1>6, <2>1, FillPass
<1>8. ASSUME NEW m \in Nodes
      PROVE  NodeIsShown(m)'
  <2>1. Reports(snap) \in [Nodes -> Nat] /\ Paid(snap) \in [Nodes -> Nat]
    BY <1>1, ViewTypes
  <2>2. NodeIsShown(m) /\ nodes[m].deposited \in Nat /\ nodes[m].filled \in Nat
    BY DEF SnapInv, LayerInv, RouterInv, VaultInv, VaultTypeOK, NodeStates
  <2>3. Reports(snap') = Reports(snap) /\ Paid(snap') = [Paid(snap) EXCEPT ![n] = @ + u]
    BY <1>7 DEF FilledAs
  <2> HIDE DEF n, u
  <2>4. CASE m = n
    BY <1>2, <2>1, <2>2, <2>3, <2>4 DEF NodeIsShown
  <2>5. CASE m # n
    BY <1>2, <2>1, <2>2, <2>3, <2>5 DEF NodeIsShown
  <2> QED BY <2>4, <2>5
<1>9. Lines(snap') = queues'
  BY <1>7, LinesShownLeaving DEF fill, FilledAs
<1>10. \A x \in ExitIds : ExitIsShown(x)'
  <2>1. y.state = StateNames[exits'[id].status]
    <3>1. Shown(snap)[<<a, id>>] \in ExitEntries
      BY <1>1, <1>3, ViewTypes DEF ExitKeys
    <3> QED BY <1>4, <3>1 DEF ExitEntries, StateNames
  <2>2. ShownAs(snap, snap', <<a, id>>, y)
    BY <1>7 DEF FilledAs
  <2>3. exits'[id].status # "None"
    BY <1>4
  <2> HIDE DEF y, a
  <2> QED BY <1>2, <1>3, <1>4, <2>1, <2>2, <2>3, ExitsShownStep
<1> QED BY <1>7, <1>8, <1>9, <1>10 DEF SnapInv, SaleShown

LEMMA CancelKeepsSnap ==
  ASSUME SnapInv, LayerInv', NEW id \in ExitIds, cancel(id), Publish(CancelEvents(id))
  PROVE  SnapInv' /\ MoneyStill(snap, snap')
<1> DEFINE a == exits[id].asset
           k == <<a, id>>
<1>1. LayerInv /\ snap \in Snapshots /\ Lines(snap) = queues
  BY DEF SnapInv
<1>2. Live(exits[id]) /\ LeaveLine(id) /\ release_best(nodes, appetites, exits[id])
      /\ exits' = [exits EXCEPT ![id].status = "Cancelled",
                                ![id].best_node = NoAddr, ![id].best_usdc = 0]
  BY DEF cancel
<1>3. /\ exits[id] \in ExitStates /\ a \in Assets /\ exits[id].best_node \in Nodes \cup {NoAddr}
      /\ exits \in [ExitIds -> ExitStates]
  BY <1>1, <1>2, LiveExit DEF LayerInv, AuctionTypeOK
<1>4. /\ exits'[id].asset = a /\ exits'[id].status = "Cancelled" /\ ~Live(exits'[id])
      /\ exits' \in [ExitIds -> ExitStates]
      /\ \A x \in ExitIds : x # id => exits'[x] = exits[x]
  <2>1. exits' \in [ExitIds -> ExitStates]
    BY DEF LayerInv, AuctionTypeOK
  <2> QED BY <1>2, <1>3, <2>1 DEF ExitStates, Live
<1>5. Without(Lines(snap)[a], id) \in Seq(ExitIds)
  BY <1>1, <1>2, LeavingLine
<1>6. snap' \in Snapshots /\ CancelledAs(snap, snap', exits[id], id)
  <2>1. snap' = PassOf(snap, CancelEvents(id))
    BY DEF Publish, PassOf
  <2> QED BY <1>1, <1>3, <1>4, <1>5, <2>1, CancelPass
<1>7. \A m \in Nodes : NodeIsShown(m)'
  <2>1. nodes \in [Nodes -> NodeStates] /\ appetites \in [Nodes -> [Assets -> AppetiteStates]]
    BY <1>1 DEF LayerInv, RouterInv, VaultInv, VaultTypeOK
  <2>2. \A m \in Nodes : nodes'[m].deposited = nodes[m].deposited /\ nodes'[m].filled = nodes[m].filled
    BY <1>2, <1>3, <2>1, ReleaseEffect
  <2> QED BY <1>6, <2>2, NodesShownStill DEF CancelledAs
<1>8. Lines(snap') = queues'
  BY <1>2, <1>6, LinesShownLeaving DEF CancelledAs
<1>9. \A x \in ExitIds : ExitIsShown(x)'
  <2>1. PICK y \in ExitEntries : ShownAs(snap, snap', k, y) /\ y.state = "cancelled"
    BY <1>6 DEF CancelledAs
  <2>2. y.state = StateNames[exits'[id].status] /\ exits'[id].status # "None"
    BY <1>4, <2>1 DEF StateNames
  <2> HIDE DEF a
  <2> QED BY <1>3, <1>4, <2>1, <2>2, ExitsShownStep
<1>10. MoneyStill(snap, snap')
  BY <1>6 DEF CancelledAs, MoneyStill, NodesAlike
<1> QED BY <1>6, <1>7, <1>8, <1>9, <1>10 DEF SnapInv

\* An exit that joins its line joins it at the end of the list in the snapshot.
LEMMA JoinKeepsSnap ==
  ASSUME SnapInv, LayerInv', NEW id \in ExitIds, Live(exits[id]),
         enqueue(AuctionAddr, exits[id].asset, id),
         exits' = [exits EXCEPT ![id].status = "Queued"], UNCHANGED nodes,
         Publish(OfExit("queued", id))
  PROVE  SnapInv' /\ MoneyStill(snap, snap')
<1> DEFINE a == exits[id].asset
           k == <<a, id>>
           y == [Shown(snap)[k] EXCEPT !.state = "queued"]
<1>1. LayerInv /\ snap \in Snapshots /\ Lines(snap) = queues
  BY DEF SnapInv
<1>2. /\ exits[id] \in ExitStates /\ a \in Assets /\ exits \in [ExitIds -> ExitStates]
      /\ queues \in [Assets -> Seq(ExitIds)]
  BY <1>1, LiveExit DEF LayerInv, AuctionTypeOK, QueueInv, QueueTypeOK
<1>3. /\ exits'[id].asset = a /\ exits'[id].status = "Queued"
      /\ exits'[id].best_usdc = exits[id].best_usdc
      /\ exits' \in [ExitIds -> ExitStates]
      /\ \A x \in ExitIds : x # id => exits'[x] = exits[x]
  <2>1. exits' \in [ExitIds -> ExitStates]
    BY DEF LayerInv, AuctionTypeOK
  <2> QED BY <1>2, <2>1 DEF ExitStates
<1>4. snap' = Apply(snap, [name |-> "queued", asset |-> a, exit_id |-> id])
  <2>1. snap' = PassOf(snap, OfExit("queued", id))
    BY DEF Publish, PassOf
  <2> QED BY <1>3, <2>1, PassOfOne DEF OfExit
<1>5. ~InLine(queues[a], id) /\ queues' = [queues EXCEPT ![a] = Append(@, id)]
  BY DEF enqueue
<1>6. \A i \in 1 .. Len(Lines(snap)[a]) : Lines(snap)[a][i] # id
  BY <1>1, <1>5 DEF InLine
<1>7. snap' \in Snapshots /\ QueuedAs(snap, snap', a, id)
  <2> HIDE DEF a
  <2> QED BY <1>1, <1>2, <1>4, <1>6, PassQueued
<1>8. \A m \in Nodes : NodeIsShown(m)'
  BY <1>7, NodesShownStill DEF QueuedAs
<1>9. Lines(snap') = queues'
  BY <1>1, <1>5, <1>7 DEF QueuedAs
<1>10. \A x \in ExitIds : ExitIsShown(x)'
  <2>1. k \in ExitKeys /\ Shown(snap)[k] \in ExitEntries
    BY <1>1, <1>2, ViewTypes DEF ExitKeys
  <2>2. ShownAs(snap, snap', k, y)
    BY <1>7 DEF QueuedAs
  <2>3. y.state = StateNames[exits'[id].status] /\ exits'[id].status # "None"
        /\ y.bestBid = Shown(snap)[k].bestBid
    BY <1>3, <2>1 DEF ExitEntries, StateNames
  <2>4. Shown(snap)[k].bestBid = exits[id].best_usdc
    BY DEF SnapInv, ExitIsShown, Live
  <2> HIDE DEF a, y
  <2> QED BY <1>2, <1>3, <2>2, <2>3, <2>4, ExitsShownStep
<1>11. MoneyStill(snap, snap')
  BY <1>7 DEF QueuedAs, MoneyStill, NodesAlike
<1> QED BY <1>7, <1>8, <1>9, <1>10, <1>11 DEF SnapInv

LEMMA CloseKeepsSnap ==
  ASSUME SnapInv, LayerInv', NEW id \in ExitIds, close(id), Publish(CloseEvents(id))
  PROVE  /\ SnapInv'
         /\ SaleShown(id) \/ (MoneyStill(snap, snap') /\ UNCHANGED balance)
<1>1. Live(exits[id]) /\ exits[id] \in ExitStates /\ exits \in [ExitIds -> ExitStates]
  BY LiveExit DEF close, Live, SnapInv, LayerInv, AuctionTypeOK
<1>2. CASE acceptable(exits[id]) /\ AtHead(exits[id].asset, id)
  <2>1. fill(id)
    BY <1>2 DEF close
  <2>2. exits'[id].status = "Settled"
    BY <1>1, <2>1 DEF fill, ExitStates
  <2>3. Publish(FillEvents(id))
    BY <2>2 DEF CloseEvents
  <2>4. SnapInv' /\ SaleShown(id)
    BY <1>1, <2>1, <2>3, FillKeepsSnap
  <2> QED BY <2>4
<1>3. CASE ~(acceptable(exits[id]) /\ AtHead(exits[id].asset, id))
  <2>1. /\ enqueue(AuctionAddr, exits[id].asset, id)
        /\ exits' = [exits EXCEPT ![id].status = "Queued"] /\ UNCHANGED <<nodes, balance>>
    BY <1>3 DEF close, routerVars, vaultVars, vaultStorage
  <2>2. exits'[id].status = "Queued"
    BY <1>1, <2>1 DEF ExitStates
  <2>3. Publish(OfExit("queued", id))
    BY <2>2 DEF CloseEvents
  <2> QED BY <1>1, <2>1, <2>3, JoinKeepsSnap
<1> QED BY <1>2, <1>3

LEMMA BidKeepsSnap ==
  ASSUME SnapInv, LayerInv', NEW n \in Nodes, NEW id \in ExitIds, NEW v \in Int,
         place_bid(n, id, v), Publish(BidEvents(n, id, v))
  PROVE  SnapInv' /\ MoneyStill(snap, snap')
<1> DEFINE a == exits[id].asset
           k == <<a, id>>
           locked == LockCapital(nodes, n, v)
           exposed == AddExposure(appetites, n, a, v)
           y == [Shown(snap)[k] EXCEPT !.bestBid = v]
<1>1. LayerInv /\ snap \in Snapshots /\ Lines(snap) = queues
  BY DEF SnapInv
<1>2. /\ Live(exits[id]) /\ release_best(locked, exposed, exits[id])
      /\ v > 0 /\ exits' = [exits EXCEPT ![id].best_node = n, ![id].best_usdc = v]
      /\ UNCHANGED queues
  BY DEF place_bid, CommitAllowed, queueVars
<1>3. /\ exits[id] \in ExitStates /\ a \in Assets /\ exits[id].best_node \in Nodes \cup {NoAddr}
      /\ exits \in [ExitIds -> ExitStates] /\ v \in Nat
  <2>1. /\ exits[id] \in ExitStates /\ a \in Assets
        /\ exits[id].best_node \in Nodes \cup {NoAddr}
    BY <1>1, <1>2, LiveExit
  <2> QED BY <1>1, <1>2, <2>1 DEF LayerInv, AuctionTypeOK
<1>4. /\ exits'[id].asset = a /\ exits'[id].status = exits[id].status
      /\ exits'[id].best_usdc = v
      /\ exits' \in [ExitIds -> ExitStates]
      /\ \A x \in ExitIds : x # id => exits'[x] = exits[x]
  <2>1. exits' \in [ExitIds -> ExitStates]
    BY DEF LayerInv, AuctionTypeOK
  <2> QED BY <1>2, <1>3, <2>1 DEF ExitStates
<1>5. /\ snap' \in Snapshots /\ NodesAlike(snap, snap') /\ AssetsAlike(snap, snap')
      /\ SameTotals(snap, snap') /\ ShownAs(snap, snap', k, y)
  <2>1. snap' = PassOf(snap, BidEvents(n, id, v))
    BY DEF Publish, PassOf
  <2> QED BY <1>1, <1>3, <2>1, BidPass
<1>6. \A m \in Nodes : NodeIsShown(m)'
  <2>1. nodes \in [Nodes -> NodeStates] /\ appetites \in [Nodes -> [Assets -> AppetiteStates]]
    BY <1>1 DEF LayerInv, RouterInv, VaultInv, VaultTypeOK
  <2>2. /\ locked \in [Nodes -> NodeStates]
        /\ \A m \in Nodes : /\ locked[m].deposited = nodes[m].deposited
                            /\ locked[m].filled = nodes[m].filled
    <3>1. v \in Int /\ nodes[n].committed + v \in Nat
      BY <1>3, <2>1 DEF NodeStates
    <3> QED BY <2>1, <3>1, LockEffect
  <2>3. exposed \in [Nodes -> [Assets -> AppetiteStates]]
    <3>1. appetites[n][a].exposure + v \in Nat
      BY <1>3, <2>1 DEF AppetiteStates
    <3> QED BY <1>3, <2>1, <3>1, ExposureType
  <2> HIDE DEF locked, exposed
  <2>4. \A m \in Nodes : /\ nodes'[m].deposited = locked[m].deposited
                         /\ nodes'[m].filled = locked[m].filled
    BY <1>2, <1>3, <2>2, <2>3, ReleaseEffect
  <2> QED BY <1>5, <2>2, <2>4, NodesShownStill
<1>7. Lines(snap') = queues'
  BY <1>1, <1>2, <1>5 DEF AssetsAlike
<1>8. \A x \in ExitIds : ExitIsShown(x)'
  <2>1. k \in ExitKeys /\ Shown(snap)[k] \in ExitEntries
    BY <1>1, <1>3, ViewTypes DEF ExitKeys
  <2>2. y.state = Shown(snap)[k].state /\ y.bestBid = v
    BY <1>3, <2>1 DEF ExitEntries
  <2>3. Shown(snap)[k].state = StateNames[exits[id].status] /\ exits[id].status # "None"
    BY <1>2 DEF SnapInv, ExitIsShown, Live
  <2> HIDE DEF a, y
  <2> QED BY <1>3, <1>4, <1>5, <2>2, <2>3, ExitsShownStep
<1>9. MoneyStill(snap, snap')
  BY <1>5 DEF MoneyStill, NodesAlike, AssetsAlike
<1> QED BY <1>5, <1>6, <1>7, <1>8, <1>9 DEF SnapInv

LEMMA OpenKeepsSnap ==
  ASSUME SnapInv, LayerInv', NEW p, NEW a \in Assets, NEW amount, NEW r, NEW m, NEW d,
         open_exit(p, a, amount, r, m, d), Publish(OpenEvents)
  PROVE  SnapInv' /\ MoneyStill(snap, snap')
<1> DEFINE id == next_id
           k == <<a, id>>
<1>1. LayerInv /\ snap \in Snapshots /\ Lines(snap) = queues
  BY DEF SnapInv
<1>2. id \in ExitIds /\ exits \in [ExitIds -> ExitStates] /\ exits[id] = NoExit
  BY <1>1, AddressAssumption DEF open_exit, LayerInv, AuctionTypeOK, AuctionSlots, ExitIds
<1>3. /\ exits'[id].asset = a /\ exits'[id].status = "Open" /\ exits'[id].best_usdc = 0
      /\ exits' \in [ExitIds -> ExitStates]
      /\ \A x \in ExitIds : x # id => exits'[x] = exits[x]
      /\ UNCHANGED <<nodes, queues>>
  <2>1. exits' \in [ExitIds -> ExitStates]
    BY DEF LayerInv, AuctionTypeOK
  <2> QED BY <1>2, <2>1 DEF open_exit, vaultStorage, queueVars
<1>4. /\ snap' \in Snapshots /\ NodesAlike(snap, snap') /\ AssetsAlike(snap, snap')
      /\ SameTotals(snap, snap') /\ ShownAfter(snap, snap', k, "opened")
  <2>1. snap' = PassOf(snap, OpenEvents)
    BY DEF Publish, PassOf
  <2> QED BY <1>1, <1>2, <1>3, <2>1, OpenPass
<1>5. \A n \in Nodes : NodeIsShown(n)'
  BY <1>3, <1>4, NodesShownStill
<1>6. Lines(snap') = queues'
  BY <1>1, <1>3, <1>4 DEF AssetsAlike
<1>7. \A x \in ExitIds : ExitIsShown(x)'
  <2>1. PICK y \in ExitEntries :
          ShownAs(snap, snap', k, y) /\ y.bestBid = Shown(snap)[k].bestBid /\ y.state = "open"
    BY <1>4 DEF ShownAfter
  <2>2. k \notin Known(snap)
    <3>1. ExitIsShown(id) /\ exits[id].status = "None"
      BY <1>2 DEF SnapInv, NoExit
    <3>2. \A j \in Known(snap) : j[2] # id
      BY <3>1 DEF ExitIsShown
    <3>3. k[2] = id
      OBVIOUS
    <3> HIDE DEF k, id
    <3> QED BY <3>2, <3>3
  <2>3. Shown(snap)[k].bestBid = 0
    <3>1. k \in ExitKeys
      BY <1>2 DEF ExitKeys
    <3> HIDE DEF k
    <3> QED BY <2>2, <3>1 DEF Shown, Known, ExitAt, Entry, BlankExit
  <2>4. y.state = StateNames[exits'[id].status] /\ exits'[id].status # "None"
    BY <1>3, <2>1 DEF StateNames
  <2> HIDE DEF id
  <2> QED BY <1>2, <1>3, <2>1, <2>3, <2>4, ExitsShownStep
<1>8. MoneyStill(snap, snap')
  BY <1>4 DEF MoneyStill, NodesAlike, AssetsAlike
<1> QED BY <1>4, <1>5, <1>6, <1>7, <1>8 DEF SnapInv

LEMMA SnapInvInit == EventInit => SnapInv
<1> SUFFICES ASSUME EventInit PROVE SnapInv
  OBVIOUS
<1>1. LayerInv /\ snap = EmptySnapshot
  BY LayerInvWired DEF EventInit
<1>2. snap \in Snapshots /\ Known(snap) = {}
  <2>1. \A R : <<>> \in [{} -> R]
    OBVIOUS
  <2>2. \A K, R : <<>> \in Maps(K, R)
    BY <2>1 DEF Maps
  <2> QED BY <1>1, <2>2 DEF EmptySnapshot, Snapshots, Known
<1>3. \A n \in Nodes : NodeOf(snap, n) = BlankNode
  BY <1>1 DEF NodeOf, Entry, EmptySnapshot
<1>4. \A a \in Assets : AssetOf(snap, a).queue = <<>>
  BY <1>1 DEF AssetOf, Entry, EmptySnapshot, BlankAsset
<1>5. Lines(snap) = queues
  BY <1>4 DEF Lines, EventInit, WiredInit
<1>6. \A n \in Nodes : NodeIsShown(n)
  <2>1. \A n \in Nodes : Reports(snap)[n] = 0 /\ Paid(snap)[n] = 0
    BY <1>3 DEF Reports, Paid, BlankNode
  <2>2. \A n \in Nodes : nodes[n].deposited = 0 /\ nodes[n].filled = 0
    BY DEF EventInit, WiredInit, EmptyVault, NoNode
  <2> QED BY <2>1, <2>2 DEF NodeIsShown
<1>7. \A id \in ExitIds : ExitIsShown(id)
  <2>1. \A id \in ExitIds : exits[id].status = "None"
    BY DEF EventInit, WiredInit, NothingOpened, NoExit
  <2> QED BY <1>2, <2>1 DEF ExitIsShown
<1> QED BY <1>1, <1>2, <1>5, <1>6, <1>7 DEF SnapInv

-----------------------------------------------------------------------------
(* The balances the sums are about.                                        *)

\* No fees reach the treasuries, and no tokens the nodes.
BooksStill ==
    /\ \A t \in Treasuries : balance'[Usdc][t] = balance[Usdc][t]
    /\ \A n \in Nodes, a \in Assets : balance'[a][n] = balance[a][n]

\* A transfer of USDC past the treasuries, or of another token past the nodes.
LEMMA MovedElsewhere ==
  ASSUME BooksApart, RouterInv, NEW u \in Tokens, NEW from \in Holders, NEW to \in Holders,
         from # to, NEW k \in Nat, CanTransfer(balance, u, from, k),
         balance' = Transfer(balance, u, from, to, k),
         \/ u = Usdc /\ from \notin Treasuries /\ to \notin Treasuries
         \/ u \in Assets /\ from \notin Nodes /\ to \notin Nodes
  PROVE  BooksStill
<1>1. /\ balance \in [Tokens -> [Holders -> Nat]]
      /\ Usdc \in Tokens /\ Assets \subseteq Tokens /\ Usdc \notin Assets
      /\ Nodes \subseteq Holders /\ Treasuries \subseteq Holders
  BY TokenAssumption, VaultAssumption, RouterAssumption
     DEF RouterInv, VaultInv, VaultTypeOK, TokenTypeOK, BooksApart
<1>2. \A v \in Tokens, h \in Holders :
         balance'[v][h] = balance[v][h] + (IF v = u /\ h = to THEN k ELSE 0)
                                        - (IF v = u /\ h = from THEN k ELSE 0)
  BY PartiesPaid
<1>3. ASSUME NEW v \in Tokens, NEW h \in Holders, v # u \/ (h # from /\ h # to)
      PROVE  balance'[v][h] = balance[v][h]
  <2>1. balance'[v][h] = balance[v][h] + 0 - 0
    BY <1>2, <1>3
  <2>2. balance[v][h] \in Nat
    BY <1>1
  <2> QED BY <2>1, <2>2
<1>4. ASSUME NEW t \in Treasuries
      PROVE  balance'[Usdc][t] = balance[Usdc][t]
  BY <1>1, <1>3
<1>5. ASSUME NEW n \in Nodes, NEW a \in Assets
      PROVE  balance'[a][n] = balance[a][n]
  BY <1>1, <1>3
<1> QED BY <1>4, <1>5 DEF BooksStill

\* Deposits and withdrawals go between nodes and vault, escrows between sellers and
\* router.
LEMMA NodesSpareBooks ==
  ASSUME BooksApart, RouterInv, NEW n \in Nodes, NodeEvents(n)
  PROVE  BooksStill
<1>1. /\ Usdc \in Tokens /\ n \in Holders /\ VaultAddr \in Holders /\ n # VaultAddr
      /\ n \notin Treasuries /\ VaultAddr \notin Treasuries
  BY TokenAssumption, VaultAssumption DEF BooksApart
<1>2. CASE \E amt \in DepositAmounts : deposit(n, amt)
  <2>1. PICK amt \in DepositAmounts : deposit(n, amt)
    BY <1>2
  <2>2. /\ amt \in Nat /\ CanTransfer(balance, Usdc, n, amt)
        /\ balance' = Transfer(balance, Usdc, n, VaultAddr, amt)
    BY <2>1, VaultAssumption DEF deposit
  <2> QED BY <1>1, <2>2, MovedElsewhere
<1>3. CASE execute_withdrawal(n)
  <2> DEFINE k == withdrawals[n].amount
  <2>1. /\ CanTransfer(balance, Usdc, VaultAddr, k)
        /\ balance' = Transfer(balance, Usdc, VaultAddr, n, k)
    BY <1>3 DEF execute_withdrawal
  <2>2. k \in Nat
    BY DEF RouterInv, VaultInv, VaultTypeOK, WithdrawRequests
  <2> HIDE DEF k
  <2> QED BY <1>1, <2>1, <2>2, MovedElsewhere
<1>4. CASE UNCHANGED balance
  BY <1>4 DEF BooksStill
<1> QED BY <1>2, <1>3, <1>4 DEF NodeEvents, request_withdrawal, cancel_withdrawal,
           set_appetite, reduce_exposure

LEMMA OpenSparesBooks ==
  ASSUME BooksApart, RouterInv, NEW p \in Sellers, NEW a \in Assets, NEW k \in Int,
         NEW c, NEW id, escrow(c, id, p, a, k)
  PROVE  BooksStill
<1>1. /\ k \in Nat /\ CanTransfer(balance, a, p, k)
      /\ balance' = Transfer(balance, a, p, RouterAddr, k)
  BY DEF escrow
<1>2. /\ a \in Tokens /\ p \in Holders /\ RouterAddr \in Holders /\ p # RouterAddr
      /\ p \notin Nodes /\ RouterAddr \notin Nodes
  BY TokenAssumption, VaultAssumption, RouterAssumption DEF BooksApart
<1> QED BY <1>1, <1>2, MovedElsewhere

LEMMA RefundSparesBooks ==
  ASSUME BooksApart, RouterInv, NEW c, NEW id \in ExitIds, refund(c, id)
  PROVE  BooksStill
<1> DEFINE a == escrows[id].asset
           p == escrows[id].seller
           k == escrows[id].amount
<1>1. /\ escrows[id].stored /\ CanTransfer(balance, a, RouterAddr, k)
      /\ balance' = Transfer(balance, a, RouterAddr, p, k)
  BY DEF refund
<1>2. p \in Sellers /\ a \in Assets /\ k \in Nat
  BY <1>1 DEF RouterInv, RouterSlots, RouterTypeOK, EscrowStates
<1>3. /\ a \in Tokens /\ p \in Holders /\ RouterAddr \in Holders /\ p # RouterAddr
      /\ p \notin Nodes /\ RouterAddr \notin Nodes
  BY <1>2, TokenAssumption, VaultAssumption, RouterAssumption DEF BooksApart
<1> HIDE DEF a, p, k
<1> QED BY <1>1, <1>2, <1>3, MovedElsewhere

\* Nothing is sold, or one exit is, and the snapshot shows which.
StepShown ==
    \/ MoneyStill(snap, snap') /\ (BooksApart => BooksStill)
    \/ \E id \in ExitIds : SaleShown(id)

LEMMA SnapStep ==
  ASSUME SnapInv, [EventNext]_eventVars
  PROVE  SnapInv' /\ StepShown
<1>1. LayerInv' /\ RouterInv
  BY EventIsLayer, LayerInvStep DEF SnapInv, LayerInv
<1>2. CASE (LayerTick \/ AdminCalls) /\ UNCHANGED snap
  BY <1>1, <1>2, AdminIsSilent, SilentKeepsInv DEF StepShown, BooksStill
<1>3. ASSUME NEW n \in Nodes, NodeEvents(n),
             UNCHANGED <<routerStorage, queueVars, auctionStorage>>
      PROVE  SnapInv' /\ StepShown
  <2>1. SnapInv' /\ MoneyStill(snap, snap')
    BY <1>1, <1>3, NodeEventsKeepInv
  <2>2. BooksApart => BooksStill
    BY <1>1, <1>3, NodesSpareBooks
  <2> QED BY <2>1, <2>2 DEF StepShown
<1>4. ASSUME NEW p \in Sellers, NEW a \in Assets, NEW amt \in SaleAmounts, NEW r \in References,
             NEW m \in Reserves, NEW d \in Durations,
             open_exit(p, a, amt, r, m, d), Publish(OpenEvents)
      PROVE  SnapInv' /\ StepShown
  <2>1. SnapInv' /\ MoneyStill(snap, snap')
    BY <1>1, <1>4, OpenKeepsSnap
  <2>2. BooksApart => BooksStill
    <3>1. amt \in Int /\ escrow(AuctionAddr, next_id, p, a, amt)
      BY <1>4, RouterAssumption DEF open_exit
    <3> QED BY <1>1, <3>1, OpenSparesBooks
  <2> QED BY <2>1, <2>2 DEF StepShown
<1>5. ASSUME NEW id \in ExitIds,
             \/ accept_bid(id) /\ Publish(FillEvents(id))
             \/ cancel(id) /\ Publish(CancelEvents(id))
             \/ close(id) /\ Publish(CloseEvents(id))
      PROVE  SnapInv' /\ StepShown
  <2>1. CASE accept_bid(id) /\ Publish(FillEvents(id))
    BY <1>1, <2>1, FillKeepsSnap DEF accept_bid, StepShown
  <2>2. CASE cancel(id) /\ Publish(CancelEvents(id))
    <3>1. SnapInv' /\ MoneyStill(snap, snap')
      BY <1>1, <2>2, CancelKeepsSnap
    <3>2. BooksApart => BooksStill
      BY <1>1, <2>2, RefundSparesBooks DEF cancel
    <3> QED BY <3>1, <3>2 DEF StepShown
  <2>3. CASE close(id) /\ Publish(CloseEvents(id))
    <3>1. SnapInv' /\ (SaleShown(id) \/ (MoneyStill(snap, snap') /\ UNCHANGED balance))
      BY <1>1, <2>3, CloseKeepsSnap
    <3> QED BY <3>1 DEF StepShown, BooksStill
  <2> QED BY <1>5, <2>1, <2>2, <2>3
<1>6. ASSUME NEW n \in Nodes, NEW id \in ExitIds, NEW amt \in BidAmounts,
             place_bid(n, id, amt), Publish(BidEvents(n, id, amt))
      PROVE  SnapInv' /\ StepShown
  <2>1. SnapInv' /\ MoneyStill(snap, snap')
    BY <1>1, <1>6, BidKeepsSnap, VaultAssumption
  <2>2. UNCHANGED balance
    BY <1>6 DEF place_bid
  <2> QED BY <2>1, <2>2 DEF StepShown, BooksStill
<1>7. CASE UNCHANGED eventVars
  <2>1. UNCHANGED <<snap, nodes, exits, queues, balance>>
    BY <1>7 DEF eventVars, layerVars, routerVars, vaultVars, vaultStorage, queueVars, auctionStorage
  <2> QED BY <1>1, <2>1, SilentKeepsInv DEF StepShown, BooksStill
<1> QED BY <1>2, <1>3, <1>4, <1>5, <1>6, <1>7 DEF EventNext

LEMMA SnapInvStep == SnapInv /\ [EventNext]_eventVars => SnapInv'
BY SnapStep

LEMMA SnapInvariance == EventSpec => []SnapInv
BY SnapInvInit, SnapInvStep, PTL DEF EventSpec

-----------------------------------------------------------------------------
(* The theorems.                                                           *)

\* Whatever is called in whatever order, the snapshot shows the exits that were opened
\* and no others, each in the status the auction has, a live one with the bid it stands at.
THEOREM SnapshotFollowsExits == EventSpec => []SnapshotShowsExits
<1>1. SnapInv => SnapshotShowsExits
  <2> SUFFICES ASSUME SnapInv, NEW id \in ExitIds
               PROVE  LET ex == exits[id]  key == <<ex.asset, id>> IN
                      IF ex.status = "None" THEN \A k \in DOMAIN snap.exits : k[2] # id
                      ELSE /\ key \in DOMAIN snap.exits
                           /\ snap.exits[key].state = StateNames[ex.status]
                           /\ Live(ex) => snap.exits[key].bestBid = ex.best_usdc
    BY DEF SnapshotShowsExits
  <2> DEFINE k == <<exits[id].asset, id>>
  <2>1. ExitIsShown(id)
    BY DEF SnapInv
  <2>2. CASE exits[id].status = "None"
    BY <2>1, <2>2 DEF ExitIsShown, Known
  <2>3. CASE exits[id].status # "None"
    <3>1. exits[id].asset \in Assets
      BY <2>3 DEF SnapInv, LayerInv, AuctionSlots, NoExit
    <3>2. k \in ExitKeys
      BY <3>1 DEF ExitKeys
    <3>3. /\ k \in Known(snap) /\ Shown(snap)[k].state = StateNames[exits[id].status]
          /\ Live(exits[id]) => Shown(snap)[k].bestBid = exits[id].best_usdc
      BY <2>1, <2>3 DEF ExitIsShown
    <3> HIDE DEF k
    <3>4. k \in DOMAIN snap.exits /\ Shown(snap)[k] = snap.exits[k]
      BY <3>2, <3>3 DEF Known, Shown, ExitAt, Entry
    <3>5. /\ snap.exits[k].state = StateNames[exits[id].status]
          /\ Live(exits[id]) => snap.exits[k].bestBid = exits[id].best_usdc
      BY <3>3, <3>4
    <3> QED BY <2>3, <3>4, <3>5 DEF k
  <2> QED BY <2>2, <2>3
<1> QED BY <1>1, SnapInvariance, PTL

\* The lines of the snapshot are the lines of the queue contract, in the same order.
THEOREM SnapshotFollowsLines == EventSpec => []SnapshotShowsLines
<1>1. SnapInv => SnapshotShowsLines
  <2> SUFFICES ASSUME SnapInv, NEW a \in Assets PROVE Line(snap, a) = queues[a]
    BY DEF SnapshotShowsLines
  <2> DEFINE q == queues[a]
             S == {id \in Range(q) : Entry(snap.exits, <<a, id>>, BlankExit).state = "queued"}
  <2>1. q \in Seq(ExitIds)
    BY DEF SnapInv, LayerInv, QueueInv, QueueTypeOK
  <2>2. Entry(snap.assets, a, BlankAsset).queue = q
    BY DEF SnapInv, Lines, AssetOf
  <2>3. ASSUME NEW j \in 1 .. Len(q)
        PROVE  q[j] \in S
    <3> DEFINE id == q[j]
    <3>1. id \in ExitIds /\ id \in Range(q) /\ InLine(q, id)
      BY <2>1 DEF Range, InLine
    <3>2. exits[id].status = "Queued" /\ exits[id].asset = a
      BY <3>1 DEF SnapInv, LayerInv, QueueMatches
    <3>3. Shown(snap)[<<a, id>>].state = "queued"
      <4>1. ExitIsShown(id)
        BY <3>1 DEF SnapInv
      <4> QED BY <3>2, <4>1 DEF ExitIsShown, StateNames
    <3>4. <<a, id>> \in ExitKeys
      BY <3>1 DEF ExitKeys
    <3>5. Entry(snap.exits, <<a, id>>, BlankExit).state = "queued"
      BY <3>3, <3>4 DEF Shown, ExitAt
    <3> QED BY <3>1, <3>5
  <2>4. Line(snap, a) = Filter(q, S)
    BY <2>2 DEF Line
  <2> HIDE DEF q, S
  <2>5. Filter(q, S) = q
    BY <2>1, <2>3, FilterAll
  <2> QED BY <2>4, <2>5 DEF q
<1> QED BY <1>1, SnapInvariance, PTL

\* A node's deposit is never under-reported, and over-reported by no more than what the
\* node has paid out.
THEOREM ReportStaysHigh == EventSpec => []ReportReadsHigh
<1>1. SnapInv => ReportReadsHigh
  <2> SUFFICES ASSUME SnapInv, NEW n \in Nodes
               PROVE  LET seen == Entry(snap.nodes, n, BlankNode)
                          excess == seen.depositedAtLastReport - nodes[n].deposited
                      IN  0 <= excess /\ excess <= seen.usdcPaidOut
    BY DEF ReportReadsHigh
  <2>1. NodeIsShown(n) /\ nodes[n].deposited \in Nat
    BY DEF SnapInv, LayerInv, RouterInv, VaultInv, VaultTypeOK, NodeStates
  <2>2. /\ Reports(snap)[n] = Entry(snap.nodes, n, BlankNode).depositedAtLastReport
        /\ Paid(snap)[n] = Entry(snap.nodes, n, BlankNode).usdcPaidOut
    BY DEF Reports, Paid, NodeOf
  <2>3. Reports(snap)[n] \in Nat /\ Paid(snap)[n] \in Nat
    BY ViewTypes DEF SnapInv
  <2> QED BY <2>1, <2>2, <2>3 DEF NodeIsShown
<1> QED BY <1>1, SnapInvariance, PTL

-----------------------------------------------------------------------------
(* The sums.                                                               *)

Charged == [t \in Treasuries |-> balance[Usdc][t]]
Bought(a) == [n \in Nodes |-> balance[a][n]]

\* The sums of the snapshot are the sums over what it shows of each node, over the
\* treasuries' balances, and over the nodes' balances of each asset.
SumsInv ==
    /\ SnapInv
    /\ snap.usdcTotal = Total(Paid(snap))
    /\ snap.feesTotal = Total(Charged)
    /\ \A a \in Assets : Sold(snap)[a] = Total(Bought(a))

\* A sum grows by what one of its terms grows.
LEMMA TotalGrows ==
  ASSUME NEW S, IsFiniteSet(S), NEW f \in [S -> Nat], NEW g \in [S -> Nat], NEW x \in S,
         NEW v \in Nat, g[x] = f[x] + v, \A y \in S : y # x => g[y] = f[y]
  PROVE  Total(g) = Total(f) + v
<1>1. Total(f) \in Nat /\ f[x] \in Nat
  BY TotalType
<1>2. Total(g) = Total(f) - f[x] + g[x]
  BY TotalChange
<1> HIDE DEF Total
<1> QED BY <1>1, <1>2

LEMMA BooksType ==
  ASSUME RouterInv
  PROVE  Charged \in [Treasuries -> Nat] /\ \A a \in Assets : Bought(a) \in [Nodes -> Nat]
<1>1. /\ balance \in [Tokens -> [Holders -> Nat]]
      /\ Usdc \in Tokens /\ Assets \subseteq Tokens
      /\ Nodes \subseteq Holders /\ Treasuries \subseteq Holders
  BY TokenAssumption, VaultAssumption, RouterAssumption
     DEF RouterInv, VaultInv, VaultTypeOK, TokenTypeOK
<1> QED BY <1>1 DEF Charged, Bought

\* What a sale does to the balances the sums are about.
LEMMA SaleOnBooks ==
  ASSUME BooksApart, LayerInv, NEW id \in ExitIds, Live(exits[id]), fill(id)
  PROVE  /\ routerConfig.treasury \in Treasuries
         /\ \A t \in Treasuries :
               balance'[Usdc][t] = balance[Usdc][t]
                 + (IF t = routerConfig.treasury THEN protocol_fee(exits[id].best_usdc) ELSE 0)
         /\ \A n \in Nodes, b \in Assets :
               balance'[b][n] = balance[b][n]
                 + (IF b = exits[id].asset /\ n = exits[id].best_node THEN exits[id].amount ELSE 0)
<1> DEFINE a == exits[id].asset
           p == exits[id].seller
           k == exits[id].amount
           u == exits[id].best_usdc
           m == exits[id].best_node
           tr == routerConfig.treasury
           fee == protocol_fee(u)
<1>1. /\ a \in Assets /\ p \in Sellers /\ k \in Nat /\ u \in Nat /\ m \in Nodes
      /\ escrows[id] = [stored |-> TRUE, seller |-> p, asset |-> a, amount |-> k]
      /\ RouterInv /\ routerConfig \in RouterConfigs
      /\ settle(AuctionAddr, id, m, k, u)
  BY LiveExit DEF LayerInv, RouterInv, RouterTypeOK, fill
<1>2. fee \in Nat
  BY <1>1, FeeType
<1>3. tr \in Treasuries
  BY <1>1 DEF settle, RouterFromAuction, RouterInv, RouterSlots
<1>4. escrows[id].asset = a /\ escrows[id].seller = p
  <2> HIDE DEF a, p, k
  <2> QED BY <1>1
<1>5. /\ Usdc \in Tokens /\ Assets \subseteq Tokens /\ Usdc \notin Assets
      /\ VaultAddr \notin Treasuries /\ RouterAddr \notin Nodes
      /\ Nodes \subseteq Holders \ {VaultAddr} /\ Treasuries \subseteq Holders \ {VaultAddr}
      /\ \A t \in Treasuries : t # p
  BY <1>1, TokenAssumption, VaultAssumption, RouterAssumption DEF BooksApart
<1> HIDE DEF a, p, k, u, m, tr
<1>6. \A t \in Tokens, h \in Holders \ {VaultAddr} :
         balance'[t][h] = balance[t][h]
           + (IF t = Usdc /\ h = escrows[id].seller THEN u - protocol_fee(u) ELSE 0)
           + (IF t = Usdc /\ h = routerConfig.treasury THEN protocol_fee(u) ELSE 0)
           + (IF t = escrows[id].asset /\ h = m THEN k ELSE 0)
           - (IF t = escrows[id].asset /\ h = RouterAddr THEN k ELSE 0)
  <2>1. /\ RouterInv /\ settle(AuctionAddr, id, m, k, u) /\ m \in Nodes /\ k \in Int /\ u \in Int
        /\ VaultAddr \notin Treasuries
    BY <1>1, <1>5
  <2> HIDE DEF fee
  <2>2. \A t \in Tokens, h \in Holders \ {VaultAddr} :
           balance'[t][h] = SettledBalance(id, m, k, u, t, h)
    BY <2>1, SettleBalances
  <2> QED BY <2>2 DEF SettledBalance
<1>7. balance \in [Tokens -> [Holders -> Nat]]
  BY <1>1 DEF RouterInv, VaultInv, VaultTypeOK, TokenTypeOK
<1>8. ASSUME NEW t \in Treasuries
      PROVE  balance'[Usdc][t] = balance[Usdc][t] + (IF t = tr THEN fee ELSE 0)
  <2>1. Usdc \in Tokens /\ t \in Holders \ {VaultAddr} /\ t # p /\ Usdc # a
    BY <1>1, <1>5
  <2>2. balance'[Usdc][t] = balance[Usdc][t] + 0 + (IF t = tr THEN fee ELSE 0) + 0 - 0
    BY <1>4, <1>6, <2>1 DEF tr
  <2>3. balance[Usdc][t] \in Nat
    BY <1>7, <2>1
  <2> HIDE DEF fee
  <2> QED BY <1>2, <2>2, <2>3
<1>9. ASSUME NEW n \in Nodes, NEW b \in Assets
      PROVE  balance'[b][n] = balance[b][n] + (IF b = a /\ n = m THEN k ELSE 0)
  <2>1. b \in Tokens /\ n \in Holders \ {VaultAddr} /\ b # Usdc /\ n # RouterAddr
    BY <1>5
  <2>2. balance'[b][n] = balance[b][n] + 0 + 0 + (IF b = a /\ n = m THEN k ELSE 0) - 0
    BY <1>4, <1>6, <2>1
  <2>3. balance[b][n] \in Nat
    BY <1>7, <2>1
  <2> QED BY <1>1, <2>2, <2>3
<1> QED BY <1>3, <1>8, <1>9 DEF a, k, u, m, tr, fee

LEMMA SumsInvInit == BooksApart /\ EventInit => SumsInv
<1> SUFFICES ASSUME BooksApart, EventInit PROVE SumsInv
  OBVIOUS
<1>1. SnapInv /\ RouterInv /\ snap \in Snapshots
  BY SnapInvInit DEF SnapInv, LayerInv
<1>2. snap = EmptySnapshot /\ balance = InitialBalance
  BY DEF EventInit, WiredInit, TokenInit
<1>3. \A n : NodeOf(snap, n) = BlankNode
  BY <1>2 DEF NodeOf, Entry, EmptySnapshot
<1>4. \A a : AssetOf(snap, a) = BlankAsset
  BY <1>2 DEF AssetOf, Entry, EmptySnapshot
<1>5. Total(Paid(snap)) = 0
  <2>1. Paid(snap) \in [Nodes -> Nat]
    BY <1>1, ViewTypes
  <2>2. \A n \in Nodes : Paid(snap)[n] = 0
    BY <1>3 DEF Paid, BlankNode
  <2> QED BY <2>1, <2>2, TotalZero
<1>6. Total(Charged) = 0
  <2>1. Charged \in [Treasuries -> Nat]
    BY <1>1, BooksType
  <2>2. \A t \in Treasuries : Charged[t] = 0
    BY <1>2 DEF Charged, BooksApart
  <2> QED BY <2>1, <2>2, TotalZero
<1>7. ASSUME NEW a \in Assets
      PROVE  Sold(snap)[a] = Total(Bought(a))
  <2>1. Bought(a) \in [Nodes -> Nat]
    BY <1>1, BooksType
  <2>2. \A n \in Nodes : Bought(a)[n] = 0
    BY <1>2 DEF Bought, BooksApart
  <2>3. Total(Bought(a)) = 0
    BY <2>1, <2>2, TotalZero
  <2>4. Sold(snap)[a] = 0
    BY <1>4 DEF Sold, BlankAsset
  <2> QED BY <2>3, <2>4
<1>8. snap.usdcTotal = 0 /\ snap.feesTotal = 0
  BY <1>2 DEF EmptySnapshot
<1> QED BY <1>1, <1>5, <1>6, <1>7, <1>8 DEF SumsInv

\* Nothing is sold.
LEMMA SumsStill ==
  ASSUME SumsInv, SnapInv', MoneyStill(snap, snap'), BooksStill
  PROVE  SumsInv'
<1>1. Charged' = Charged /\ \A a \in Assets : Bought(a)' = Bought(a)
  BY DEF Charged, Bought, BooksStill
<1>2. /\ Paid(snap') = Paid(snap) /\ Sold(snap') = Sold(snap)
      /\ snap'.usdcTotal = snap.usdcTotal /\ snap'.feesTotal = snap.feesTotal
  BY DEF MoneyStill, SameTotals
<1>3. snap'.usdcTotal = Total(Paid(snap'))
  BY <1>2 DEF SumsInv
<1>4. snap'.feesTotal = Total(Charged')
  BY <1>1, <1>2 DEF SumsInv
<1>5. \A a \in Assets : Sold(snap')[a] = Total(Bought(a)')
  BY <1>1, <1>2 DEF SumsInv
<1> QED BY <1>3, <1>4, <1>5 DEF SumsInv

\* An exit is sold: its bid, the fee and its tokens are added on both sides.
LEMMA SumsSale ==
  ASSUME BooksApart, SumsInv, SnapInv', NEW id \in ExitIds, SaleShown(id)
  PROVE  SumsInv'
<1> DEFINE a == exits[id].asset
           k == exits[id].amount
           u == exits[id].best_usdc
           m == exits[id].best_node
           tr == routerConfig.treasury
           fee == protocol_fee(u)
<1>1. /\ LayerInv /\ LayerInv' /\ Live(exits[id]) /\ fill(id)
      /\ FilledAs(snap, snap', exits[id], id, fee)
      /\ snap \in Snapshots /\ snap' \in Snapshots
  BY DEF SumsInv, SnapInv, SaleShown
<1>2. /\ a \in Assets /\ k \in Nat /\ u \in Nat /\ m \in Nodes
      /\ RouterInv /\ RouterInv' /\ routerConfig \in RouterConfigs
  BY <1>1, LiveExit DEF LayerInv, RouterInv, RouterTypeOK, fill
<1>3. fee \in Nat
  BY <1>2, FeeType
<1>4. /\ Paid(snap') = [Paid(snap) EXCEPT ![m] = @ + u]
      /\ Sold(snap') = [Sold(snap) EXCEPT ![a] = @ + k]
      /\ snap'.feesTotal = snap.feesTotal + fee
      /\ snap'.usdcTotal = snap.usdcTotal + u
  BY <1>1 DEF FilledAs
<1>5. /\ tr \in Treasuries
      /\ \A t \in Treasuries :
            balance'[Usdc][t] = balance[Usdc][t] + (IF t = tr THEN fee ELSE 0)
      /\ \A n \in Nodes, b \in Assets :
            balance'[b][n] = balance[b][n] + (IF b = a /\ n = m THEN k ELSE 0)
  BY <1>1, SaleOnBooks
<1>6. IsFiniteSet(Nodes) /\ IsFiniteSet(Treasuries)
  BY VaultAssumption DEF BooksApart
<1>7. /\ Paid(snap) \in [Nodes -> Nat] /\ Paid(snap') \in [Nodes -> Nat]
      /\ Sold(snap) \in [Assets -> Nat]
  BY <1>1, ViewTypes
<1>8. /\ Charged \in [Treasuries -> Nat] /\ Charged' \in [Treasuries -> Nat]
      /\ \A b \in Assets : Bought(b) \in [Nodes -> Nat] /\ Bought(b)' \in [Nodes -> Nat]
  <2>1. Charged \in [Treasuries -> Nat] /\ \A b \in Assets : Bought(b) \in [Nodes -> Nat]
    BY <1>2, BooksType
  <2>2. Charged' \in [Treasuries -> Nat] /\ \A b \in Assets : Bought(b)' \in [Nodes -> Nat]
    <3>1. balance' \in [Tokens -> [Holders -> Nat]]
      BY <1>2 DEF RouterInv, VaultInv, VaultTypeOK, TokenTypeOK
    <3>2. /\ Usdc \in Tokens /\ Assets \subseteq Tokens
          /\ Nodes \subseteq Holders /\ Treasuries \subseteq Holders
      BY TokenAssumption, VaultAssumption, RouterAssumption
    <3> QED BY <3>1, <3>2 DEF Charged, Bought
  <2> QED BY <2>1, <2>2
<1> HIDE DEF a, k, u, m, tr, fee
<1>9. snap'.usdcTotal = Total(Paid(snap'))
  <2>1. /\ Paid(snap')[m] = Paid(snap)[m] + u
        /\ \A n \in Nodes : n # m => Paid(snap')[n] = Paid(snap)[n]
    BY <1>2, <1>4, <1>7
  <2>2. Total(Paid(snap')) = Total(Paid(snap)) + u
    BY <1>2, <1>6, <1>7, <2>1, TotalGrows
  <2> QED BY <1>4, <2>2 DEF SumsInv
<1>10. snap'.feesTotal = Total(Charged')
  <2>1. Charged'[tr] = Charged[tr] + fee
    BY <1>5 DEF Charged
  <2>2. ASSUME NEW t \in Treasuries, t # tr
        PROVE  Charged'[t] = Charged[t]
    <3>1. Charged'[t] = Charged[t] + 0 /\ Charged[t] \in Nat
      BY <1>5, <1>8, <2>2 DEF Charged
    <3> QED BY <3>1
  <2>3. Total(Charged') = Total(Charged) + fee
    BY <1>3, <1>5, <1>6, <1>8, <2>1, <2>2, TotalGrows
  <2> QED BY <1>4, <2>3 DEF SumsInv
<1>11. ASSUME NEW b \in Assets
       PROVE  Sold(snap')[b] = Total(Bought(b)')
  <2>1. ASSUME NEW n \in Nodes
        PROVE  Bought(b)'[n] = Bought(b)[n] + (IF b = a /\ n = m THEN k ELSE 0)
    BY <1>5 DEF Bought
  <2>2. CASE b = a
    <3>1. ASSUME NEW n \in Nodes, n # m
          PROVE  Bought(b)'[n] = Bought(b)[n]
      <4>1. Bought(b)'[n] = Bought(b)[n] + 0 /\ Bought(b)[n] \in Nat
        BY <1>8, <2>1, <3>1
      <4> QED BY <4>1
    <3>2. Bought(b)'[m] = Bought(b)[m] + k
      BY <1>2, <2>1, <2>2
    <3>3. Total(Bought(b)') = Total(Bought(b)) + k
      BY <1>2, <1>6, <1>8, <3>1, <3>2, TotalGrows
    <3>4. Sold(snap')[b] = Sold(snap)[b] + k
      BY <1>2, <1>4, <1>7, <2>2
    <3> QED BY <3>3, <3>4 DEF SumsInv
  <2>3. CASE b # a
    <3>1. ASSUME NEW n \in Nodes
          PROVE  Bought(b)'[n] = Bought(b)[n]
      <4>1. Bought(b)'[n] = Bought(b)[n] + 0 /\ Bought(b)[n] \in Nat
        BY <1>8, <2>1, <2>3
      <4> QED BY <4>1
    <3>2. Bought(b)' = Bought(b)
      BY <1>8, <3>1
    <3>3. Sold(snap')[b] = Sold(snap)[b]
      BY <1>2, <1>4, <1>7, <2>3
    <3> QED BY <3>2, <3>3 DEF SumsInv
  <2> QED BY <2>2, <2>3
<1> QED BY <1>9, <1>10, <1>11 DEF SumsInv

LEMMA SumsInvStep == BooksApart /\ SumsInv /\ [EventNext]_eventVars => SumsInv'
<1> SUFFICES ASSUME BooksApart, SumsInv, [EventNext]_eventVars PROVE SumsInv'
  OBVIOUS
<1>1. SnapInv' /\ StepShown
  BY SnapStep DEF SumsInv
<1>2. CASE MoneyStill(snap, snap') /\ BooksStill
  BY <1>1, <1>2, SumsStill
<1>3. CASE \E id \in ExitIds : SaleShown(id)
  BY <1>1, <1>3, SumsSale
<1> QED BY <1>1, <1>2, <1>3 DEF StepShown

\* The snapshot's money is the money that moved, to the last unit and whatever the fee
\* was when each exit settled: its total is what the nodes paid, its fees are what the
\* treasuries hold, its tokens what the nodes hold.
THEOREM SnapshotSumsUp == BooksApart => (EventSpec => []SnapshotAddsUp)
<1> SUFFICES ASSUME BooksApart PROVE EventSpec => []SnapshotAddsUp
  OBVIOUS
<1>1. SumsInv => SnapshotAddsUp
  <2> SUFFICES ASSUME SumsInv PROVE SnapshotAddsUp
    OBVIOUS
  <2>1. \A n \in Nodes : /\ Entry(snap.nodes, n, BlankNode).usdcPaidOut = Paid(snap)[n]
                         /\ Paid(snap)[n] = nodes[n].filled
    BY DEF SumsInv, SnapInv, NodeIsShown, Paid, NodeOf
  <2>2. Paid(snap) = [n \in Nodes |-> nodes[n].filled]
    BY <2>1 DEF Paid
  <2>3. \A a \in Assets :
           Entry(snap.assets, a, BlankAsset).tokensSettled = Total([n \in Nodes |-> balance[a][n]])
    BY DEF SumsInv, Sold, AssetOf, Bought
  <2>4. /\ snap.usdcTotal = Total([n \in Nodes |-> nodes[n].filled])
        /\ snap.feesTotal = Total([t \in Treasuries |-> balance[Usdc][t]])
    BY <2>2 DEF SumsInv, Charged
  <2> QED BY <2>1, <2>3, <2>4 DEF SnapshotAddsUp
<1>2. EventSpec => []SumsInv
  BY SumsInvInit, SumsInvStep, PTL DEF EventSpec
<1> QED BY <1>1, <1>2, PTL
=============================================================================
