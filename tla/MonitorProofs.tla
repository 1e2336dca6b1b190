--------------------------- MODULE MonitorProofs ----------------------------
(***************************************************************************)
(* Proofs about the monitor's event collection, for a chain of any length, *)
(* any page size, scan window and page budget, any number of kills, torn   *)
(* appends, resets and refused cursors.                                    *)
(*                                                                         *)
(* That no event is logged twice holds of any chain.  The rest is proved   *)
(* for chains with at most one event per ledger: a position is then a      *)
(* ledger, whether or not it has a cursor.  With several events in a       *)
(* ledger a cursor can stand inside it, and re-entering at the next ledger *)
(* loses the remainder, as the run partial_ledger shows.                   *)
(***************************************************************************)
EXTENDS Monitor, FiniteSetTheorems, SequenceTheorems, WellFoundedInduction, TLAPS

Cursors == [ledger : Nat, after : Nat]
States ==
    [oldestRetainedAtStart : Nat, complete : BOOLEAN, cursor : Cursors \cup {NoCursor},
     lastLedger : Nat]
Snapshots == [events : SUBSET Nat, from : Nat, lastLedger : Nat, complete : BOOLEAN]

MonitorTypeOK ==
    /\ chain \in Seq(Nat) /\ tip \in Nat /\ floor \in Nat
    /\ log \in Seq(Nat) /\ tailOpen \in BOOLEAN
    /\ stateFile # NoState => stateFile \in States
    /\ snapFile # NoSnapshot => snapFile \in Snapshots
    /\ pc \in {"idle", "loop", "append", "save", "end", "snapshot"}
    /\ pc # "idle" => st \in States
    /\ pc \in {"append", "save"} => st.cursor # NoCursor
    /\ oldest \in Nat /\ seen \in SUBSET Nat /\ batch \in Seq(Nat)
    /\ tears \in Nat

\* The window is a window, it only moves forward, and the chain ends at the tip.
ChainOK ==
    /\ 1 <= floor /\ floor <= tip /\ oldest <= floor
    /\ \A e \in Events : chain[e] <= tip

\* No line stands in q twice.
NoRepeats(q) == \A i, j \in DOMAIN q : (i # j /\ q[i] = q[j]) => q[i] = Unreadable

\* What a pass knows is what the log holds and more; the page it is about to append is
\* none of it.
LogOK ==
    /\ readLog \subseteq Events
    /\ NoRepeats(log)
    /\ pc # "idle" => readLog \subseteq seen /\ seen \subseteq Events
    /\ pc = "append" => /\ batch # <<>>
                        /\ Range(batch) \subseteq seen /\ Range(batch) \cap readLog = {}
                        /\ \A i, j \in DOMAIN batch : i < j => batch[i] < batch[j]
    /\ tailOpen => tears > 0 /\ log # <<>>

CollectInv == MonitorTypeOK /\ ChainOK /\ LogOK

-----------------------------------------------------------------------------
(* Numbers and sets of numbers.                                            *)

\* A nonempty set of naturals has a least element.
LEMMA LeastNat ==
  ASSUME NEW S, S \subseteq Nat, S # {}
  PROVE  \E m \in S : \A k \in S : m <= k
<1> DEFINE R == {ss \in Nat \X Nat : ss[1] < ss[2]}
<1>1. OpToRel(<, Nat) = R
  BY DEF OpToRel
<1>2. IsWellFoundedOn(R, Nat)
  BY <1>1, NatLessThanWellFounded
<1> HIDE DEF R
<1>3. PICK m \in S : \A k \in S : <<k, m>> \notin R
  BY <1>2, WFMin
<1>4. \A k \in S : ~(k < m)
  BY <1>3 DEF R
<1> QED BY <1>3, <1>4

\* Max of a nonempty set of naturals with an upper bound is its greatest element.
LEMMA MaxNat ==
  ASSUME NEW S, S \subseteq Nat, S # {}, NEW n \in Nat, \A k \in S : k <= n
  PROVE  Max(S) \in S /\ \A k \in S : k <= Max(S)
<1> DEFINE U == {u \in Nat : \A k \in S : k <= u}
<1>1. U \subseteq Nat /\ n \in U
  OBVIOUS
<1>2. PICK m \in U : \A k \in U : m <= k
  <2> HIDE DEF U
  <2> QED BY <1>1, LeastNat
<1>3. m \in S
  <2> SUFFICES ASSUME m \notin S PROVE FALSE
    OBVIOUS
  <2>1. \A k \in S : k \in Nat /\ k # m /\ k <= m /\ k <= m - 1
    BY <1>2
  <2>2. PICK k0 \in S : TRUE
    OBVIOUS
  <2>3. m - 1 \in Nat
    BY <2>1, <2>2, <1>2
  <2>4. m - 1 \in U
    BY <2>1, <2>3
  <2> QED BY <2>4, <1>2
<1>4. \A k \in S : m >= k
  BY <1>2
<1> DEFINE G(x) == \A k \in S : x >= k
<1>5. Max(S) = CHOOSE x \in S : G(x)
  BY DEF Max
<1>6. \E x \in S : G(x)
  BY <1>3, <1>4
<1>7. (CHOOSE x \in S : G(x)) \in S /\ G(CHOOSE x \in S : G(x))
  <2> HIDE DEF G
  <2> QED BY <1>6
<1>8. Max(S) \in S /\ G(Max(S))
  BY <1>5, <1>7
<1> QED BY <1>8

-----------------------------------------------------------------------------
(* Appending to the log.                                                   *)

\* The members of a sequence.
LEMMA InRange ==
  ASSUME NEW q \in Seq(Nat)
  PROVE  /\ Len(q) \in Nat /\ DOMAIN q = 1 .. Len(q)
         /\ \A i \in 1 .. Len(q) : q[i] \in Range(q)
         /\ \A x \in Range(q) : \E i \in 1 .. Len(q) : q[i] = x
         /\ Range(q) \subseteq Nat
<1>1. Len(q) \in Nat /\ DOMAIN q = 1 .. Len(q) /\ \A i \in 1 .. Len(q) : q[i] \in Nat
  BY LenProperties
<1> QED BY <1>1 DEF Range

\* A listing of a set of events is a sequence of exactly its members, in order.
LEMMA Listing ==
  ASSUME NEW S, S \subseteq Nat, IsFiniteSet(S), NEW q \in InOrder(S)
  PROVE  /\ q \in Seq(Nat) /\ Range(q) = S
         /\ \A i, j \in DOMAIN q : i < j => q[i] < q[j]
         /\ q = <<>> <=> S = {}
<1>1. Cardinality(S) \in Nat
  BY FS_CardinalityType
<1>2. q \in [1 .. Cardinality(S) -> S] /\ Range(q) = S
  BY DEF InOrder
<1>3. q \in [1 .. Cardinality(S) -> Nat]
  BY <1>2
<1>4. q \in Seq(Nat)
  BY <1>1, <1>3, SeqDef
<1>5. q = <<>> <=> Len(q) = 0
  BY <1>4, EmptySeq
<1>6. S = {} <=> Len(q) = 0
  BY <1>2, <1>4, InRange
<1> QED BY <1>2, <1>4, <1>5, <1>6 DEF InOrder

\* Concatenation, and all but the last line.
LEMMA Joined ==
  ASSUME NEW s \in Seq(Nat), NEW t \in Seq(Nat)
  PROVE  /\ s \o t \in Seq(Nat) /\ Len(s \o t) = Len(s) + Len(t)
         /\ \A i \in 1 .. (Len(s) + Len(t)) :
                (s \o t)[i] = IF i <= Len(s) THEN s[i] ELSE t[i - Len(s)]
BY ConcatProperties

\* The first n lines of a log are its lines 1 .. n.
LEMMA FirstLines ==
  ASSUME NEW s \in Seq(Nat), NEW n \in 0 .. Len(s)
  PROVE  /\ SubSeq(s, 1, n) \in Seq(Nat) /\ Len(SubSeq(s, 1, n)) = n
         /\ \A i \in 1 .. n : SubSeq(s, 1, n)[i] = s[i]
<1> DEFINE f == SubSeq(s, 1, n)
<1>1. 1 \in Int /\ n \in Nat /\ n \in Int /\ Len(s) \in Nat
  BY LenProperties
<1>2. \A i \in 1 .. n : s[i] \in Nat
  BY <1>1
<1>3. /\ f \in Seq(Nat) /\ Len(f) = IF 1 <= n THEN n - 1 + 1 ELSE 0
      /\ \A i \in 1 .. (n - 1 + 1) : f[i] = s[1 + i - 1]
  BY <1>1, <1>2, SubSeqProperties
<1> HIDE DEF f
<1>4. Len(f) = n /\ n - 1 + 1 = n
  BY <1>1, <1>3
<1>5. \A i \in 1 .. n : 1 + i - 1 = i
  BY <1>1
<1>6. \A i \in 1 .. n : f[i] = s[i]
  BY <1>3, <1>4, <1>5
<1> QED BY <1>3, <1>4, <1>6 DEF f

\* Line by line, what the file holds after an append: with an unterminated last line,
\* that line and the first new one are one that does not parse.
LEMMA AppendedLines ==
  ASSUME log \in Seq(Nat), NEW q \in Seq(Nat)
  PROVE  /\ ~tailOpen => /\ Appended(q) \in Seq(Nat)
                         /\ Len(Appended(q)) = Len(log) + Len(q)
                         /\ \A i \in 1 .. Len(Appended(q)) :
                              Appended(q)[i] = IF i <= Len(log) THEN log[i]
                                               ELSE q[i - Len(log)]
         /\ (tailOpen /\ log # <<>> /\ q # <<>>) =>
                /\ Appended(q) \in Seq(Nat)
                /\ Len(Appended(q)) = Len(log) + Len(q) - 1
                /\ \A i \in 1 .. Len(Appended(q)) :
                     Appended(q)[i] = IF i < Len(log) THEN log[i]
                                      ELSE IF i = Len(log) THEN Unreadable
                                      ELSE q[i - Len(log) + 1]
<1>1. ASSUME ~tailOpen
      PROVE  /\ Appended(q) \in Seq(Nat)
             /\ Len(Appended(q)) = Len(log) + Len(q)
             /\ \A i \in 1 .. Len(Appended(q)) :
                  Appended(q)[i] = IF i <= Len(log) THEN log[i] ELSE q[i - Len(log)]
  <2>1. Appended(q) = log \o q
    BY <1>1 DEF Appended
  <2> QED BY <2>1
<1>2. ASSUME tailOpen, log # <<>>, q # <<>>
      PROVE  /\ Appended(q) \in Seq(Nat)
             /\ Len(Appended(q)) = Len(log) + Len(q) - 1
             /\ \A i \in 1 .. Len(Appended(q)) :
                  Appended(q)[i] = IF i < Len(log) THEN log[i]
                                   ELSE IF i = Len(log) THEN Unreadable
                                   ELSE q[i - Len(log) + 1]
  <2> DEFINE front == SubSeq(log, 1, Len(log) - 1)
             mid == front \o <<Unreadable>>
  <2>1. Appended(q) = mid \o Tail(q)
    BY <1>2 DEF Appended, Front
  <2>2. Len(log) \in Nat \ {0} /\ Len(q) \in Nat \ {0}
    BY <1>2
  <2>3. /\ front \in Seq(Nat) /\ Len(front) = Len(log) - 1
        /\ \A i \in 1 .. (Len(log) - 1) : front[i] = log[i]
    <3>1. Len(log) - 1 \in 0 .. Len(log)
      BY <2>2
    <3> QED BY <3>1, FirstLines
  <2> HIDE DEF front
  <2>4. /\ mid \in Seq(Nat) /\ Len(mid) = Len(log)
        /\ \A i \in 1 .. Len(log) : mid[i] = IF i < Len(log) THEN log[i] ELSE Unreadable
    BY <2>2, <2>3 DEF Unreadable
  <2>5. /\ Tail(q) \in Seq(Nat) /\ Len(Tail(q)) = Len(q) - 1
        /\ \A i \in 1 .. (Len(q) - 1) : Tail(q)[i] = q[i + 1]
    BY <1>2, <2>2
  <2> DEFINE tail == Tail(q)
  <2>6. /\ tail \in Seq(Nat) /\ Len(tail) = Len(q) - 1
        /\ \A i \in 1 .. (Len(q) - 1) : tail[i] = q[i + 1]
    BY <2>5
  <2>7. Appended(q) = mid \o tail
    BY <2>1
  <2> HIDE DEF mid, tail
  <2>8. /\ Appended(q) \in Seq(Nat) /\ Len(Appended(q)) = Len(mid) + Len(tail)
        /\ \A i \in 1 .. (Len(mid) + Len(tail)) :
            Appended(q)[i] = IF i <= Len(mid) THEN mid[i] ELSE tail[i - Len(mid)]
    <3> DEFINE J(g) == /\ g \in Seq(Nat) /\ Len(g) = Len(mid) + Len(tail)
                       /\ \A i \in 1 .. (Len(mid) + Len(tail)) :
                            g[i] = IF i <= Len(mid) THEN mid[i] ELSE tail[i - Len(mid)]
    <3>1. mid \in Seq(Nat) /\ tail \in Seq(Nat)
      BY <2>4, <2>6
    <3>2. J(mid \o tail)
      BY <3>1, Joined
    <3>3. J(Appended(q))
      <4> HIDE DEF J
      <4> QED BY <3>2, <2>7
    <3> QED BY <3>3
  <2>9. Len(Appended(q)) = Len(log) + Len(q) - 1
    BY <2>2, <2>4, <2>6, <2>8
  <2>10. ASSUME NEW i \in 1 .. (Len(log) + Len(q) - 1)
         PROVE  Appended(q)[i] = IF i < Len(log) THEN log[i]
                                 ELSE IF i = Len(log) THEN Unreadable
                                 ELSE q[i - Len(log) + 1]
    <3>1. CASE i <= Len(log)
      <4>1. i \in 1 .. Len(log) /\ i \in 1 .. (Len(mid) + Len(tail)) /\ i <= Len(mid)
        BY <3>1, <2>2, <2>4, <2>6
      <4>2. Appended(q)[i] = mid[i]
        BY <4>1, <2>8
      <4>3. mid[i] = IF i < Len(log) THEN log[i] ELSE Unreadable
        BY <4>1, <2>4
      <4>4. i < Len(log) \/ i = Len(log)
        BY <4>1, <2>2
      <4> QED BY <4>2, <4>3, <4>4
    <3>2. CASE i > Len(log)
      <4>1. i - Len(log) \in 1 .. (Len(q) - 1) /\ ~(i <= Len(log)) /\ i # Len(log)
        BY <3>2, <2>2
      <4>2. tail[i - Len(log)] = q[i - Len(log) + 1]
        BY <4>1, <2>6
      <4>3. Appended(q)[i] = tail[i - Len(log)]
        BY <4>1, <2>2, <2>4, <2>6, <2>8
      <4> QED BY <4>1, <4>2, <4>3, <2>2
    <3> QED BY <3>1, <3>2, <2>2
  <2> QED BY <2>8, <2>9, <2>10
<1> QED BY <1>1, <1>2

\* An append adds its lines, except that after a torn one it costs at most two: x, the
\* last line of the log, and y, the first of the page.
LEMMA AppendKeeps ==
  ASSUME log \in Seq(Nat), tailOpen \in BOOLEAN, tailOpen => log # <<>>, NoRepeats(log),
         NEW q \in Seq(Nat), q # <<>>, NoRepeats(q), Range(q) \cap readLog = {}
  PROVE  /\ Appended(q) \in Seq(Nat) /\ Appended(q) # <<>> /\ NoRepeats(Appended(q))
         /\ Range(Appended(q)) \subseteq Range(log) \cup Range(q) \cup {Unreadable}
         /\ ~tailOpen => Range(Appended(q)) = Range(log) \cup Range(q)
         /\ \E x, y \in Nat : Range(log) \cup Range(q) \subseteq Range(Appended(q)) \cup {x, y}
<1> DEFINE g == Appended(q)
           n == Len(log)
           m == Len(q)
<1>0. /\ \A i \in 1 .. n : log[i] \in Range(log)
      /\ \A i \in 1 .. m : q[i] \in Range(q)
      /\ \A x \in Range(log) : \E i \in 1 .. n : log[i] = x
      /\ \A x \in Range(q) : \E i \in 1 .. m : q[i] = x
  BY InRange
<1>1. n \in Nat /\ m \in Nat \ {0} /\ DOMAIN log = 1 .. n /\ DOMAIN q = 1 .. m
  OBVIOUS
<1>2. \A i \in 1 .. n, j \in 1 .. m : log[i] = q[j] => log[i] = Unreadable
  BY <1>0 DEF readLog
<1>3. \A i, j \in 1 .. n : (i # j /\ log[i] = log[j]) => log[i] = Unreadable
  BY <1>1 DEF NoRepeats
<1>4. \A i, j \in 1 .. m : (i # j /\ q[i] = q[j]) => q[i] = Unreadable
  BY <1>1 DEF NoRepeats
<1>5. CASE ~tailOpen
  <2>1. /\ g \in Seq(Nat) /\ Len(g) = n + m
        /\ \A i \in 1 .. (n + m) : g[i] = IF i <= n THEN log[i] ELSE q[i - n]
    BY <1>5, AppendedLines
  <2> HIDE DEF g, n, m
  <2>2. DOMAIN g = 1 .. (n + m) /\ g # <<>>
    BY <1>1, <2>1
  <2>3. NoRepeats(g)
    <3> SUFFICES ASSUME NEW i \in 1 .. (n + m), NEW j \in 1 .. (n + m), i # j, g[i] = g[j]
                 PROVE  g[i] = Unreadable
      BY <2>2 DEF NoRepeats
    <3>1. CASE i <= n /\ j <= n
      BY <3>1, <2>1, <1>1, <1>3
    <3>2. CASE i <= n /\ ~(j <= n)
      BY <3>2, <2>1, <1>1, <1>2
    <3>3. CASE ~(i <= n) /\ j <= n
      BY <3>3, <2>1, <1>1, <1>2
    <3>4. CASE ~(i <= n) /\ ~(j <= n)
      BY <3>4, <2>1, <1>1, <1>4
    <3> QED BY <3>1, <3>2, <3>3, <3>4
  <2>4. \A i \in 1 .. (n + m) : g[i] \in Range(log) \cup Range(q)
    <3> SUFFICES ASSUME NEW i \in 1 .. (n + m) PROVE g[i] \in Range(log) \cup Range(q)
      OBVIOUS
    <3>1. CASE i <= n
      <4>1. i \in 1 .. n /\ g[i] = log[i]
        BY <3>1, <2>1, <1>1
      <4> QED BY <4>1, <1>0
    <3>2. CASE ~(i <= n)
      <4>1. i - n \in 1 .. m /\ g[i] = q[i - n]
        BY <3>2, <2>1, <1>1
      <4> QED BY <4>1, <1>0
    <3> QED BY <3>1, <3>2
  <2>5. \A i \in 1 .. n : log[i] \in Range(g)
    <3> SUFFICES ASSUME NEW i \in 1 .. n PROVE log[i] \in Range(g)
      OBVIOUS
    <3>1. i \in DOMAIN g /\ g[i] = log[i]
      BY <2>1, <2>2, <1>1
    <3> QED BY <3>1 DEF Range
  <2>6. \A i \in 1 .. m : q[i] \in Range(g)
    <3> SUFFICES ASSUME NEW i \in 1 .. m PROVE q[i] \in Range(g)
      OBVIOUS
    <3>1. n + i \in DOMAIN g /\ g[n + i] = q[i]
      BY <2>1, <2>2, <1>1
    <3> QED BY <3>1 DEF Range
  <2>7. Range(g) = Range(log) \cup Range(q)
    <3>1. \A x \in Range(g) : x \in Range(log) \cup Range(q)
      BY <2>2, <2>4 DEF Range
    <3>2. \A x \in Range(log) \cup Range(q) : x \in Range(g)
      BY <2>5, <2>6, <1>0
    <3> QED BY <3>1, <3>2
  <2>8. Range(log) \cup Range(q) \subseteq Range(g) \cup {0, 0}
    BY <2>7
  <2> QED BY <2>1, <2>2, <2>3, <2>7, <2>8 DEF g
<1>6. CASE tailOpen
  <2>0. log # <<>> /\ n \in Nat \ {0}
    BY <1>6
  <2>1. /\ g \in Seq(Nat) /\ Len(g) = n + m - 1
        /\ \A i \in 1 .. (n + m - 1) :
             g[i] = IF i < n THEN log[i] ELSE IF i = n THEN Unreadable ELSE q[i - n + 1]
    BY <1>6, <2>0, AppendedLines
  <2>2. log[n] \in Nat /\ q[1] \in Nat
    BY <1>1, <2>0
  <2> HIDE DEF g, n, m
  <2>3. DOMAIN g = 1 .. (n + m - 1) /\ g # <<>>
    BY <1>1, <2>0, <2>1
  <2>4. NoRepeats(g)
    <3> SUFFICES ASSUME NEW i \in 1 .. (n + m - 1), NEW j \in 1 .. (n + m - 1),
                        i # j, g[i] = g[j], i # n, j # n
                 PROVE  g[i] = Unreadable
      BY <2>0, <2>1, <2>3, <1>1 DEF NoRepeats
    <3>1. CASE i < n /\ j < n
      BY <3>1, <2>1, <1>1, <1>3
    <3>2. CASE i < n /\ j > n
      <4>1. /\ i \in 1 .. n /\ g[i] = log[i]
            /\ j - n + 1 \in 1 .. m /\ g[j] = q[j - n + 1]
        BY <3>2, <2>0, <2>1, <1>1
      <4> QED BY <4>1, <1>2
    <3>3. CASE i > n /\ j < n
      <4>1. /\ j \in 1 .. n /\ g[j] = log[j]
            /\ i - n + 1 \in 1 .. m /\ g[i] = q[i - n + 1]
        BY <3>3, <2>0, <2>1, <1>1
      <4> QED BY <4>1, <1>2
    <3>4. CASE i > n /\ j > n
      <4>1. /\ i - n + 1 \in 1 .. m /\ g[i] = q[i - n + 1]
            /\ j - n + 1 \in 1 .. m /\ g[j] = q[j - n + 1] /\ i - n + 1 # j - n + 1
        BY <3>4, <2>0, <2>1, <1>1
      <4> QED BY <4>1, <1>4
    <3> QED BY <3>1, <3>2, <3>3, <3>4, <2>0, <1>1
  <2>5. \A i \in 1 .. (n + m - 1) : g[i] \in Range(log) \cup Range(q) \cup {Unreadable}
    <3> SUFFICES ASSUME NEW i \in 1 .. (n + m - 1)
                 PROVE  g[i] \in Range(log) \cup Range(q) \cup {Unreadable}
      OBVIOUS
    <3>1. CASE i <= n
      <4>1. i \in 1 .. n /\ (g[i] = log[i] \/ g[i] = Unreadable)
        <5>1. i \in 1 .. n /\ (i < n \/ i = n) /\ ~(n < n)
          BY <3>1, <2>0, <1>1
        <5> QED BY <5>1, <2>1
      <4> QED BY <4>1, <1>0
    <3>2. CASE i > n
      <4>1. i - n + 1 \in 1 .. m /\ g[i] = q[i - n + 1]
        BY <3>2, <2>0, <2>1, <1>1
      <4> QED BY <4>1, <1>0
    <3> QED BY <3>1, <3>2, <2>0
  <2>6. \A i \in 1 .. n : log[i] \in Range(g) \cup {log[n]}
    <3> SUFFICES ASSUME NEW i \in 1 .. n, i # n PROVE log[i] \in Range(g)
      OBVIOUS
    <3>1. i \in DOMAIN g /\ g[i] = log[i]
      BY <2>0, <2>1, <2>3, <1>1
    <3> QED BY <3>1 DEF Range
  <2>7. \A i \in 1 .. m : q[i] \in Range(g) \cup {q[1]}
    <3> SUFFICES ASSUME NEW i \in 1 .. m, i # 1 PROVE q[i] \in Range(g)
      OBVIOUS
    <3>1. n + i - 1 \in DOMAIN g /\ g[n + i - 1] = q[i]
      BY <2>0, <2>1, <2>3, <1>1
    <3> QED BY <3>1 DEF Range
  <2>8. Range(g) \subseteq Range(log) \cup Range(q) \cup {Unreadable}
    BY <2>3, <2>5 DEF Range
  <2>9. Range(log) \cup Range(q) \subseteq Range(g) \cup {log[n], q[1]}
    BY <2>6, <2>7, <1>0
  <2> QED BY <2>1, <2>2, <2>3, <2>4, <2>8, <2>9, <1>6 DEF g
<1> QED BY <1>5, <1>6

-----------------------------------------------------------------------------
(* A page.                                                                 *)

\* A page that is not empty is what was found up to its last event.
LEMMA PageIsPrefix ==
  ASSUME NEW n \in Nat, NEW F, F \subseteq 1 .. n, F # {}
  PROVE  /\ FirstPage(F) # {} /\ Max(FirstPage(F)) \in FirstPage(F)
         /\ FirstPage(F) = {e \in F : e <= Max(FirstPage(F))}
<1> DEFINE Upto(e) == {f \in F : f <= e}
           P == FirstPage(F)
<1>0. F \subseteq Nat /\ IsFiniteSet(F) /\ pageLimit \in Nat \ {0}
  <2>1. IsFiniteSet(1 .. n)
    BY FS_Interval
  <2>2. IsFiniteSet(F)
    BY <2>1, FS_Subset
  <2>3. \A f \in F : f \in 1 .. n /\ f \in Nat
    OBVIOUS
  <2> QED BY <2>2, <2>3, MonitorAssumption
<1>1. P = {e \in F : Cardinality(Upto(e)) <= pageLimit}
  BY DEF FirstPage
<1>2. \A e : Upto(e) \in SUBSET F /\ IsFiniteSet(Upto(e)) /\ Cardinality(Upto(e)) \in Nat
  <2> SUFFICES ASSUME NEW e
               PROVE  Upto(e) \in SUBSET F /\ IsFiniteSet(Upto(e))
                      /\ Cardinality(Upto(e)) \in Nat
    OBVIOUS
  <2>1. Upto(e) \in SUBSET F
    OBVIOUS
  <2> HIDE DEF Upto
  <2> QED BY <2>1, <1>0, FS_Subset, FS_CardinalityType
<1>3. P # {}
  <2>1. PICK m \in F : \A k \in F : m <= k
    BY <1>0, LeastNat
  <2>2. Upto(m) = {m}
    <3>1. \A f \in F : m <= f /\ f \in Nat /\ m \in Nat
      BY <2>1, <1>0
    <3>2. \A f \in F : f <= m => f = m
      BY <3>1
    <3>3. m <= m
      BY <3>1
    <3> QED BY <3>2, <3>3
  <2>3. Cardinality(Upto(m)) = 1
    BY <2>2, FS_Singleton
  <2>4. m \in P
    BY <2>1, <2>3, <1>0, <1>1
  <2> QED BY <2>4
<1>4. P \subseteq F /\ P \subseteq Nat /\ \A k \in P : k <= n
  <2>1. P \subseteq F
    BY DEF FirstPage
  <2>2. \A f \in F : f \in Nat /\ f <= n
    OBVIOUS
  <2> HIDE DEF P
  <2> QED BY <2>1, <2>2
<1>5. Max(P) \in P /\ \A k \in P : k <= Max(P)
  <2> HIDE DEF P
  <2> QED BY <1>3, <1>4, MaxNat
<1>6. ASSUME NEW e \in F, e <= Max(P)
      PROVE  e \in P
  <2>1. Max(P) \in Nat /\ e \in Nat
    BY <1>4, <1>5, <1>0
  <2>2. Upto(e) \in SUBSET Upto(Max(P))
    <3> DEFINE M == Max(P)
    <3>1. M \in Nat /\ e <= M
      BY <2>1, <1>6
    <3> HIDE DEF M
    <3>2. \A f \in F : f \in Nat
      BY <1>0
    <3>3. \A f \in F : f <= e => f <= M
      BY <2>1, <3>1, <3>2
    <3> QED BY <3>3 DEF M
  <2>3. Cardinality(Upto(e)) <= Cardinality(Upto(Max(P)))
    <3> HIDE DEF Upto, P
    <3> QED BY <2>2, <1>2, FS_Subset
  <2>4. Cardinality(Upto(Max(P))) <= pageLimit
    <3> HIDE DEF Upto
    <3>1. \A x \in P : Cardinality(Upto(x)) <= pageLimit
      BY <1>1
    <3> HIDE DEF P
    <3> QED BY <3>1, <1>5
  <2>5. Cardinality(Upto(e)) <= pageLimit
    <3> HIDE DEF Upto, P
    <3> QED BY <2>3, <2>4, <1>0, <1>2
  <2> QED BY <2>5, <1>1
<1>7. P = {e \in F : e <= Max(P)}
  <2> HIDE DEF P
  <2> QED BY <1>4, <1>5, <1>6
<1> QED BY <1>3, <1>5, <1>7 DEF P

\* A page that is not full is all that was found.
LEMMA PageIsAll ==
  ASSUME NEW n \in Nat, NEW F, F \subseteq 1 .. n, ~(Cardinality(F) >= pageLimit)
  PROVE  FirstPage(F) = F
<1> DEFINE Upto(e) == {f \in F : f <= e}
<1>1. IsFiniteSet(F) /\ Cardinality(F) \in Nat /\ pageLimit \in Nat
  <2>1. IsFiniteSet(1 .. n) /\ F \in SUBSET (1 .. n)
    BY FS_Interval
  <2> QED BY <2>1, FS_Subset, FS_CardinalityType, MonitorAssumption
<1>2. ASSUME NEW e \in F PROVE Cardinality(Upto(e)) <= pageLimit
  <2>1. Upto(e) \in SUBSET F
    OBVIOUS
  <2> HIDE DEF Upto
  <2>2. Cardinality(Upto(e)) \in Nat /\ Cardinality(Upto(e)) <= Cardinality(F)
    BY <2>1, <1>1, FS_Subset, FS_CardinalityType
  <2> QED BY <2>2, <1>1
<1> QED BY <1>2 DEF FirstPage

\* Where a request scans to.
LEMMA ScanEndIs ==
  ASSUME MonitorTypeOK, ChainOK, pc = "loop", Accepts(Request)
  PROVE  LET from == IF st.cursor # NoCursor THEN st.cursor.ledger
                     ELSE Later(st.lastLedger + 1, oldest)
         IN  /\ ScanEnd(Request) \in Nat /\ ScanEnd(Request) <= tip
             /\ from <= tip => from <= ScanEnd(Request)
             /\ st.cursor = NoCursor => floor <= from /\ from <= tip
             /\ st.cursor # NoCursor => floor <= from
<1> DEFINE from == IF st.cursor # NoCursor THEN st.cursor.ledger
                   ELSE Later(st.lastLedger + 1, oldest)
<1>1. st \in States /\ tip \in Nat /\ oldest \in Nat /\ floor \in Nat
  BY DEF MonitorTypeOK
<1>2. from \in Nat
  BY <1>1 DEF States, Cursors, Later
<1>3. Request.cursor = st.cursor /\ Request.startLedger = Later(st.lastLedger + 1, oldest)
  BY DEF Request
<1>4. ScanEnd(Request) = IF from + ScanWindow - 1 < tip THEN from + ScanWindow - 1 ELSE tip
  BY <1>3 DEF ScanEnd
<1>5. ScanWindow \in Nat \ {0, 1}
  BY MonitorAssumption
<1>6. /\ st.cursor = NoCursor => floor <= from /\ from <= tip
      /\ st.cursor # NoCursor => floor <= from
  BY <1>1, <1>2, <1>3 DEF Accepts
<1> HIDE DEF from
<1>7. /\ ScanEnd(Request) \in Nat /\ ScanEnd(Request) <= tip
      /\ from <= tip => from <= ScanEnd(Request)
  BY <1>1, <1>2, <1>4, <1>5
<1> QED BY <1>6, <1>7 DEF from

\* What a page is, whatever the chain.
LEMMA PageIs ==
  ASSUME MonitorTypeOK, ChainOK, pc = "loop", Accepts(Request)
  PROVE  LET found == Matches(Request)  res == getEvents(Request) IN
         /\ found \subseteq Events /\ res.events \subseteq found
         /\ res.cursor \in Cursors /\ res.cursor # NoCursor
         /\ Cardinality(found) >= pageLimit =>
              /\ res.cursor.after \in res.events
              /\ res.cursor.ledger = chain[res.cursor.after]
              /\ res.events = {e \in found : e <= res.cursor.after}
         /\ ~(Cardinality(found) >= pageLimit) =>
              /\ res.events = found
              /\ res.cursor.ledger = ScanEnd(Request)
              /\ res.cursor.after = Cardinality({e \in Events : chain[e] <= ScanEnd(Request)})
<1> DEFINE found == Matches(Request)
           res == getEvents(Request)
           n == Len(chain)
<1>1. n \in Nat /\ Events = 1 .. n /\ (\A e \in Events : chain[e] \in Nat) /\ Events \subseteq Nat
  BY DEF MonitorTypeOK, Events
<1>2. found \subseteq Events
  BY DEF Matches
<1>3. ScanEnd(Request) \in Nat
  BY ScanEndIs
<1>4. res.events = FirstPage(found)
  BY DEF getEvents
<1>5. res.cursor = IF Cardinality(found) >= pageLimit
                   THEN [ledger |-> chain[Max(FirstPage(found))], after |-> Max(FirstPage(found))]
                   ELSE [ledger |-> ScanEnd(Request),
                         after |-> Cardinality({e \in Events : chain[e] <= ScanEnd(Request)})]
  BY DEF getEvents
<1>6. NoCursor \notin Cursors
  BY MonitorAssumption DEF Cursors
<1>7. FirstPage(found) \subseteq found
  BY DEF FirstPage
<1> HIDE DEF found, res, n
<1>8. CASE Cardinality(found) >= pageLimit
  <2>1. found # {}
    BY <1>8, FS_EmptySet, MonitorAssumption
  <2>2. /\ Max(FirstPage(found)) \in FirstPage(found)
        /\ FirstPage(found) = {e \in found : e <= Max(FirstPage(found))}
    BY <2>1, <1>1, <1>2, PageIsPrefix
  <2> DEFINE M == Max(FirstPage(found))
  <2>3. res.cursor = [ledger |-> chain[M], after |-> M]
    BY <1>5, <1>8
  <2>4. M \in Events
    BY <2>2, <1>2, <1>7
  <2> HIDE DEF M
  <2>5. M \in Nat /\ chain[M] \in Nat
    BY <2>4, <1>1
  <2>6. res.cursor \in Cursors /\ res.cursor.after = M /\ res.cursor.ledger = chain[M]
    BY <2>3, <2>5 DEF Cursors
  <2>7. M \in res.events /\ res.events = {e \in found : e <= M}
    BY <2>2, <1>4 DEF M
  <2> QED BY <2>6, <2>7, <1>2, <1>4, <1>6, <1>7, <1>8 DEF found, res
<1>9. CASE ~(Cardinality(found) >= pageLimit)
  <2>1. FirstPage(found) = found
    BY <1>9, <1>1, <1>2, PageIsAll
  <2> DEFINE C == {e \in Events : chain[e] <= ScanEnd(Request)}
  <2>2. res.cursor = [ledger |-> ScanEnd(Request), after |-> Cardinality(C)]
    BY <1>5, <1>9
  <2>3. Cardinality(C) \in Nat
    <3>1. C \in SUBSET (1 .. n) /\ IsFiniteSet(1 .. n)
      BY <1>1, FS_Interval
    <3> HIDE DEF C
    <3> QED BY <3>1, FS_Subset, FS_CardinalityType
  <2>4. /\ res.cursor \in Cursors /\ res.cursor.ledger = ScanEnd(Request)
        /\ res.cursor.after = Cardinality(C)
    <3> HIDE DEF C
    <3> QED BY <2>2, <2>3, <1>3 DEF Cursors
  <2> QED BY <2>1, <2>4, <1>2, <1>4, <1>6, <1>9 DEF found, res
<1> QED BY <1>8, <1>9

-----------------------------------------------------------------------------
(* No event is logged twice.                                               *)

\* Giving up the claim to be complete and moving on.
LEMMA GiveUpType ==
  ASSUME NEW s \in States, NEW x \in Nat
  PROVE  LET t == [s EXCEPT !.complete = FALSE, !.lastLedger = x]
             u == [s EXCEPT !.cursor = NoCursor, !.complete = FALSE, !.lastLedger = x]
         IN  /\ t \in States /\ ~t.complete /\ t.cursor = s.cursor /\ t.lastLedger = x
             /\ u \in States /\ ~u.complete /\ u.cursor = NoCursor /\ u.lastLedger = x
<1> DEFINE t == [s EXCEPT !.complete = FALSE, !.lastLedger = x]
           u == [s EXCEPT !.cursor = NoCursor, !.complete = FALSE, !.lastLedger = x]
<1> DEFINE a == [s EXCEPT !.complete = FALSE]
           b == [a EXCEPT !.lastLedger = x]
<1>1. a \in States /\ a.complete = FALSE /\ a.cursor = s.cursor
  BY DEF States
<1>2. t = b /\ u = [b EXCEPT !.cursor = NoCursor]
  OBVIOUS
<1> HIDE DEF a
<1>3. b \in States /\ b.complete = FALSE /\ b.cursor = s.cursor /\ b.lastLedger = x
  BY <1>1 DEF States
<1> HIDE DEF b, t, u
<1>4. u \in States /\ u.complete = FALSE /\ u.cursor = NoCursor /\ u.lastLedger = x
  BY <1>2, <1>3 DEF States
<1> QED BY <1>2, <1>3, <1>4 DEF t, u

\* The start of a pass reads a position from the file or makes one.
LEMMA ResumeType ==
  ASSUME CollectInv
  PROVE  Resume(stateFile) \in States
<1>1. floor \in Nat /\ 1 <= floor /\ EXIT_START_LEDGER \in Nat
  BY MonitorAssumption DEF CollectInv, MonitorTypeOK, ChainOK
<1>2. ColdStart \in States
  BY <1>1 DEF ColdStart, States
<1>3. stateFile # NoState => stateFile \in States
  BY DEF CollectInv, MonitorTypeOK
<1>4. ASSUME NEW s \in States
      PROVE  [s EXCEPT !.complete = FALSE, !.lastLedger = floor - 1] \in States
  <2>1. floor - 1 \in Nat
    BY <1>1
  <2> QED BY <2>1, GiveUpType
<1> QED BY <1>2, <1>3, <1>4 DEF Resume

\* A pass that is refused keeps a position, at the oldest ledger it knew at its start.
LEMMA DropType ==
  ASSUME NEW s \in States, oldest \in Nat
  PROVE  DropCursor(s) \in States
<1>1. [s EXCEPT !.cursor = NoCursor] \in States
  BY DEF States
<1>2. s.lastLedger < oldest - 1 =>
        [s EXCEPT !.cursor = NoCursor, !.complete = FALSE, !.lastLedger = oldest - 1] \in States
  <2>1. s.lastLedger < oldest - 1 => oldest - 1 \in Nat
    BY DEF States
  <2> QED BY <2>1, GiveUpType
<1> QED BY <1>1, <1>2 DEF DropCursor

\* What fetching a page does, apart from where it is.
LEMMA FetchType ==
  ASSUME CollectInv, FetchPage
  PROVE  LET new == getEvents(Request).events \ seen IN
         /\ new \subseteq Events /\ new \cap seen = {} /\ IsFiniteSet(new)
         /\ batch' \in Seq(Nat) /\ Range(batch') = new
         /\ \A i, j \in DOMAIN batch' : i < j => batch'[i] < batch'[j]
         /\ batch' = <<>> <=> new = {}
         /\ seen' = seen \cup new
         /\ st' \in States /\ st'.cursor = getEvents(Request).cursor
         /\ st'.complete = st.complete /\ st'.oldestRetainedAtStart = st.oldestRetainedAtStart
         /\ new = {} => st'.lastLedger = st.lastLedger
         /\ new # {} => \E e \in new : st'.lastLedger = Later(st.lastLedger, chain[e])
         /\ pc' = IF new = {} THEN "save" ELSE "append"
<1> DEFINE res == getEvents(Request)
           new == res.events \ seen
           next == IF new = {} THEN st.lastLedger ELSE Later(st.lastLedger, chain[Max(new)])
<1>1. pc = "loop" /\ Accepts(Request) /\ MonitorTypeOK /\ ChainOK
  BY DEF FetchPage, CollectInv
<1>2. res.events \subseteq Events /\ res.cursor \in Cursors
  BY <1>1, PageIs
<1>3. Unseen(res.events) = new
  BY DEF Unseen
<1>4. /\ batch' \in InOrder(new) /\ seen' = seen \cup new
      /\ st' = [st EXCEPT !.lastLedger = next, !.cursor = res.cursor]
      /\ pc' = IF new = {} THEN "save" ELSE "append"
  BY <1>3 DEF FetchPage
<1>5. Len(chain) \in Nat /\ Events = 1 .. Len(chain) /\ \A e \in Events : chain[e] \in Nat
  BY <1>1 DEF MonitorTypeOK, Events
<1>6. new \subseteq Events /\ new \cap seen = {}
  BY <1>2
<1> HIDE DEF res, new
<1>7. IsFiniteSet(new) /\ new \subseteq Nat /\ \A e \in new : e <= Len(chain)
  <2>1. IsFiniteSet(new)
    <3>1. IsFiniteSet(Events) /\ new \in SUBSET Events
      BY <1>5, <1>6, FS_Interval
    <3> QED BY <3>1, FS_Subset
  <2>2. \A e \in new : e \in 1 .. Len(chain)
    BY <1>5, <1>6
  <2>3. \A e \in new : e \in Nat /\ e <= Len(chain)
    BY <2>2, <1>5
  <2> QED BY <2>1, <2>3
<1>8. /\ batch' \in Seq(Nat) /\ Range(batch') = new
      /\ \A i, j \in DOMAIN batch' : i < j => batch'[i] < batch'[j]
      /\ batch' = <<>> <=> new = {}
  BY <1>4, <1>7, Listing
<1>9. new # {} => Max(new) \in new
  BY <1>5, <1>7, MaxNat
<1>10. st \in States
  BY <1>1 DEF MonitorTypeOK
<1>11. next \in Nat
  <2>1. st.lastLedger \in Nat
    BY <1>10 DEF States
  <2>2. new # {} => chain[Max(new)] \in Nat
    BY <1>9, <1>6, <1>5
  <2> QED BY <2>1, <2>2 DEF Later
<1>12. /\ new = {} => next = st.lastLedger
       /\ new # {} => \E e \in new : next = Later(st.lastLedger, chain[e])
  BY <1>9
<1> HIDE DEF next
<1>13. /\ st' \in States /\ st'.cursor = res.cursor /\ st'.lastLedger = next
       /\ st'.complete = st.complete /\ st'.oldestRetainedAtStart = st.oldestRetainedAtStart
  BY <1>2, <1>4, <1>10, <1>11 DEF States
<1> QED BY <1>4, <1>6, <1>7, <1>8, <1>12, <1>13 DEF res, new

\* The log and the pass after an append, whole or torn: q is what was written of the page.
LEMMA AppendLog ==
  ASSUME CollectInv, pc = "append",
         NEW q \in Seq(Nat), q # <<>>, NoRepeats(q),
         Range(q) \subseteq Range(batch) \cup {Unreadable}, log' = Appended(q)
  PROVE  /\ log' \in Seq(Nat) /\ log' # <<>> /\ NoRepeats(log')
         /\ readLog' \subseteq readLog \cup Range(batch)
         /\ ~tailOpen => readLog' = readLog \cup (Range(q) \ {Unreadable})
         /\ \E x, y \in Nat :
              readLog \cup (Range(q) \ {Unreadable}) \subseteq readLog' \cup {x, y}
<1>1. /\ log \in Seq(Nat) /\ tailOpen \in BOOLEAN /\ (tailOpen => log # <<>>)
      /\ NoRepeats(log) /\ Range(batch) \cap readLog = {}
  BY DEF CollectInv, MonitorTypeOK, LogOK
<1>2. Range(q) \cap readLog = {}
  BY <1>1 DEF readLog
<1>3. /\ Appended(q) \in Seq(Nat) /\ Appended(q) # <<>> /\ NoRepeats(Appended(q))
      /\ Range(Appended(q)) \subseteq Range(log) \cup Range(q) \cup {Unreadable}
      /\ ~tailOpen => Range(Appended(q)) = Range(log) \cup Range(q)
      /\ \E x, y \in Nat : Range(log) \cup Range(q) \subseteq Range(Appended(q)) \cup {x, y}
  BY <1>1, <1>2, AppendKeeps
<1>4. readLog' = Range(log') \ {Unreadable} /\ readLog = Range(log) \ {Unreadable}
  BY DEF readLog, Unreadable
<1>5. PICK x \in Nat, y \in Nat : Range(log) \cup Range(q) \subseteq Range(log') \cup {x, y}
  BY <1>3
<1>6. readLog \cup (Range(q) \ {Unreadable}) \subseteq readLog' \cup {x, y}
  BY <1>4, <1>5
<1>7. /\ log' \in Seq(Nat) /\ log' # <<>> /\ NoRepeats(log')
      /\ Range(log') \subseteq Range(log) \cup Range(q) \cup {Unreadable}
      /\ ~tailOpen => Range(log') = Range(log) \cup Range(q)
  BY <1>3
<1>8. /\ readLog' \subseteq readLog \cup Range(batch)
      /\ ~tailOpen => readLog' = readLog \cup (Range(q) \ {Unreadable})
  BY <1>4, <1>7
<1> QED BY <1>6, <1>7, <1>8

\* The page as it is appended, and what a torn append leaves of it.
LEMMA PageToAppend ==
  ASSUME CollectInv, pc = "append"
  PROVE  /\ batch \in Seq(Nat) /\ batch # <<>> /\ NoRepeats(batch)
         /\ Range(batch) \subseteq Events /\ Unreadable \notin Range(batch)
<1>1. /\ batch \in Seq(Nat) /\ batch # <<>> /\ Range(batch) \subseteq Events
      /\ \A i, j \in DOMAIN batch : i < j => batch[i] < batch[j]
      /\ chain \in Seq(Nat)
  BY DEF CollectInv, MonitorTypeOK, LogOK
<1>2. Len(batch) \in Nat /\ DOMAIN batch = 1 .. Len(batch) /\ \A i \in 1 .. Len(batch) : batch[i] \in Nat
  BY <1>1
<1>3. NoRepeats(batch)
  BY <1>1, <1>2 DEF NoRepeats
<1>4. Unreadable \notin Events
  BY <1>1 DEF Events, Unreadable
<1> QED BY <1>1, <1>3, <1>4

\* What a torn append writes repeats nothing and brings no event that the page does not
\* hold: whole lines, then one that is cut.
LEMMA TornPage ==
  ASSUME CollectInv, pc = "append", NEW whole \in 0 .. (Len(batch) - 1),
         NEW cut \in {Unreadable, batch[whole + 1]}
  PROVE  LET q == SubSeq(batch, 1, whole) \o <<cut>> IN
         /\ q \in Seq(Nat) /\ q # <<>> /\ NoRepeats(q)
         /\ Range(q) \subseteq Range(batch) \cup {Unreadable}
<1> DEFINE f == SubSeq(batch, 1, whole)
           q == f \o <<cut>>
<1>1. batch \in Seq(Nat) /\ NoRepeats(batch)
  BY PageToAppend
<1>2. /\ Len(batch) \in Nat /\ DOMAIN batch = 1 .. Len(batch)
      /\ \A i \in 1 .. Len(batch) : batch[i] \in Range(batch)
  BY <1>1, InRange
<1>3. whole \in Nat /\ whole + 1 \in 1 .. Len(batch) /\ whole \in 0 .. Len(batch)
  BY <1>2
<1>4. cut \in Nat /\ <<cut>> \in Seq(Nat) /\ Len(<<cut>>) = 1 /\ <<cut>>[1] = cut
  BY <1>1, <1>3 DEF Unreadable
<1>5. /\ f \in Seq(Nat) /\ Len(f) = whole /\ \A i \in 1 .. whole : f[i] = batch[i]
  BY <1>1, <1>3, FirstLines
<1> HIDE DEF f
<1>6. /\ q \in Seq(Nat) /\ Len(q) = whole + 1
      /\ \A i \in 1 .. (whole + 1) : q[i] = IF i <= whole THEN f[i] ELSE <<cut>>[i - whole]
  BY <1>4, <1>5, Joined
<1> HIDE DEF q
<1>7. \A i \in 1 .. (whole + 1) :
         (q[i] = batch[i] \/ q[i] = Unreadable) /\ i \in 1 .. Len(batch)
  <2> SUFFICES ASSUME NEW i \in 1 .. (whole + 1)
               PROVE  (q[i] = batch[i] \/ q[i] = Unreadable) /\ i \in 1 .. Len(batch)
    OBVIOUS
  <2>1. CASE i <= whole
    BY <2>1, <1>3, <1>5, <1>6
  <2>2. CASE ~(i <= whole)
    <3>1. i = whole + 1 /\ i - whole = 1
      BY <2>2, <1>3
    <3> QED BY <2>2, <3>1, <1>3, <1>4, <1>6
  <2> QED BY <2>1, <2>2
<1>8. DOMAIN q = 1 .. (whole + 1) /\ q # <<>>
  BY <1>3, <1>6
<1>9. NoRepeats(q)
  BY <1>1, <1>2, <1>7, <1>8 DEF NoRepeats
<1>10. Range(q) \subseteq Range(batch) \cup {Unreadable}
  BY <1>2, <1>7, <1>8 DEF Range
<1> QED BY <1>6, <1>8, <1>9, <1>10 DEF q, f

\* A ledger that closes puts its events, all of one ledger, after those of the chain.
LEMMA ClosedLedger ==
  ASSUME CollectInv, CloseLedger
  PROVE  /\ tip' = tip + 1 /\ chain' \in Seq(Nat)
         /\ Events = 1 .. Len(chain) /\ Events' = 1 .. Len(chain') /\ Len(chain) \in Nat
         /\ Events \subseteq Events' /\ Len(chain) <= Len(chain')
         /\ Len(chain') <= Len(chain) + EventsPerLedger
         /\ \A e \in Events : chain'[e] = chain[e]
         /\ \A e \in Events' \ Events : chain'[e] = tip + 1 /\ e > Len(chain)
<1>1. chain \in Seq(Nat) /\ tip \in Nat /\ EventsPerLedger \in Nat
  BY MonitorAssumption DEF CollectInv, MonitorTypeOK
<1>2. PICK k \in 0 .. EventsPerLedger : chain' = chain \o [i \in 1 .. k |-> tip + 1]
  BY DEF CloseLedger
<1> DEFINE new == [i \in 1 .. k |-> tip + 1]
<1>3. k \in Nat /\ k <= EventsPerLedger
  BY <1>1
<1>4. new \in [1 .. k -> Nat] /\ DOMAIN new = 1 .. k /\ \A i \in 1 .. k : new[i] = tip + 1
  BY <1>1
<1> HIDE DEF new
<1>5. new \in Seq(Nat) /\ Len(new) = k
  <2>1. new \in Seq(Nat)
    BY <1>3, <1>4, SeqDef
  <2>2. Len(new) \in Nat /\ DOMAIN new = 1 .. Len(new)
    BY <2>1, LenProperties
  <2>3. \A i \in Nat \ {0} : i <= Len(new) <=> i <= k
    BY <2>2, <1>3, <1>4
  <2>4. (Len(new) > k => Len(new) <= k) /\ (k > Len(new) => k <= Len(new))
    BY <2>2, <2>3, <1>3
  <2>5. Len(new) = k
    <3> DEFINE n == Len(new)
    <3>1. n \in Nat /\ k \in Nat /\ (n > k => n <= k) /\ (k > n => k <= n)
      BY <2>2, <2>4, <1>3
    <3> HIDE DEF n
    <3>2. n = k
      BY <3>1
    <3> QED BY <3>2 DEF n
  <2> QED BY <2>1, <2>5
<1>6. chain' = chain \o new
  BY <1>2 DEF new
<1>7. /\ chain' \in Seq(Nat) /\ Len(chain') = Len(chain) + k /\ Len(chain) \in Nat
      /\ \A i \in 1 .. (Len(chain) + k) :
           chain'[i] = IF i <= Len(chain) THEN chain[i] ELSE new[i - Len(chain)]
  <2> DEFINE J(g) == /\ g \in Seq(Nat) /\ Len(g) = Len(chain) + Len(new)
                     /\ \A i \in 1 .. (Len(chain) + Len(new)) :
                          g[i] = IF i <= Len(chain) THEN chain[i] ELSE new[i - Len(chain)]
  <2>1. J(chain \o new)
    BY <1>1, <1>5, Joined
  <2>2. J(chain')
    <3> HIDE DEF J
    <3> QED BY <2>1, <1>6
  <2> QED BY <2>2, <1>1, <1>5, LenProperties
<1>8. Events = 1 .. Len(chain) /\ Events' = 1 .. Len(chain')
  BY <1>1, <1>7 DEF Events
<1>9. \A e \in Events : chain'[e] = chain[e]
  BY <1>3, <1>7, <1>8
<1>10. ASSUME NEW e \in Events' \ Events
       PROVE  chain'[e] = tip + 1 /\ e > Len(chain)
  <2>1. e \in 1 .. (Len(chain) + k) /\ ~(e <= Len(chain)) /\ e - Len(chain) \in 1 .. k
    BY <1>3, <1>7, <1>8
  <2> QED BY <2>1, <1>4, <1>7
<1>11. Events \subseteq Events' /\ Len(chain) <= Len(chain') /\ Len(chain') <= Len(chain) + EventsPerLedger
  BY <1>1, <1>3, <1>7, <1>8
<1> QED BY <1>7, <1>8, <1>9, <1>10, <1>11 DEF CloseLedger

\* A position that is moved up to the ledger its cursor has scanned.
LEMMA SaveType ==
  ASSUME CollectInv, SavePage
  PROVE  /\ st' \in States /\ st'.cursor = st.cursor /\ st'.complete = st.complete
         /\ st'.oldestRetainedAtStart = st.oldestRetainedAtStart
         /\ st'.lastLedger = st.lastLedger \/ st'.lastLedger = Later(st.lastLedger, st.cursor.ledger)
         /\ stateFile' = st /\ st \in States /\ st.cursor \in Cursors
<1> DEFINE x == Later(st.lastLedger, st.cursor.ledger)
<1>1. st \in States /\ st.cursor # NoCursor
  BY DEF CollectInv, MonitorTypeOK, SavePage
<1>2. st.cursor \in Cursors /\ x \in Nat
  BY <1>1 DEF States, Cursors, Later
<1>3. st' = st \/ st' = [st EXCEPT !.lastLedger = x]
  BY DEF SavePage, scanned
<1>4. stateFile' = st
  BY DEF SavePage, saveState
<1> HIDE DEF x
<1>5. CASE st' = [st EXCEPT !.lastLedger = x]
  <2>1. /\ st' \in States /\ st'.cursor = st.cursor /\ st'.complete = st.complete
        /\ st'.oldestRetainedAtStart = st.oldestRetainedAtStart /\ st'.lastLedger = x
    BY <1>1, <1>2, <1>5 DEF States
  <2> QED BY <2>1, <1>1, <1>2, <1>4 DEF x
<1> QED BY <1>1, <1>2, <1>3, <1>4, <1>5

\* An empty chain and no files satisfy the invariant.
LEMMA CollectInit ==
  ASSUME MonitorInit
  PROVE  CollectInv
<1>1. MonitorTypeOK
  <2>1. <<>> \in Seq(Nat)
    BY EmptySeq
  <2> QED BY <2>1 DEF MonitorInit, MonitorTypeOK
<1>2. ChainOK
  BY DEF MonitorInit, ChainOK, Events
<1>3. readLog = {} /\ NoRepeats(log)
  BY DEF MonitorInit, readLog, Range, NoRepeats
<1> QED BY <1>1, <1>2, <1>3 DEF MonitorInit, CollectInv, LogOK

\* The inductive step, action by action.
LEMMA CollectStep ==
  ASSUME CollectInv, [MonitorNext]_monitorVars
  PROVE  CollectInv'
<1>1. MonitorTypeOK /\ ChainOK /\ LogOK
  BY DEF CollectInv
<1>2. UNCHANGED log => UNCHANGED readLog
  BY DEF readLog
<1>3. UNCHANGED chain => UNCHANGED Events
  BY DEF Events
<1>4. UNCHANGED log => (NoRepeats(log) <=> NoRepeats(log)')
  BY DEF NoRepeats
<1>5. CASE UNCHANGED monitorVars
  <2>1. UNCHANGED <<chain, tip, floor, log, tailOpen, stateFile, snapFile, pc, st, oldest,
                    seen, pages, batch, atTip, resets, tears>>
    BY <1>5 DEF monitorVars, rpcVars, logVars, passVars, counters
  <2>2. MonitorTypeOK'
    BY <2>1, <1>1 DEF MonitorTypeOK
  <2>3. ChainOK'
    BY <2>1, <1>1, <1>3 DEF ChainOK
  <2>4. LogOK'
    BY <2>1, <1>1, <1>2, <1>3, <1>4 DEF LogOK
  <2> QED BY <2>2, <2>3, <2>4 DEF CollectInv
<1>6. CASE BeginPass
  <2>1. Resume(stateFile) \in States
    BY ResumeType
  <2>2. MonitorTypeOK'
    <3>1. seen' \in SUBSET Nat
      <4>1. readLog \subseteq Nat
        BY <1>1, InRange DEF readLog, MonitorTypeOK
      <4> QED BY <4>1, <1>6 DEF BeginPass
    <3> QED BY <2>1, <3>1, <1>6, <1>1 DEF BeginPass, MonitorTypeOK, rpcVars, logVars, counters
  <2>3. ChainOK'
    BY <1>6, <1>1, <1>3 DEF BeginPass, ChainOK, MonitorTypeOK, rpcVars
  <2>4. LogOK'
    BY <1>6, <1>1, <1>2, <1>3, <1>4 DEF BeginPass, LogOK, rpcVars, logVars, counters
  <2> QED BY <2>2, <2>3, <2>4 DEF CollectInv
<1>7. CASE FetchPage
  <2> DEFINE new == getEvents(Request).events \ seen
  <2>1. /\ new \subseteq Events /\ new \cap seen = {}
        /\ batch' \in Seq(Nat) /\ Range(batch') = new
        /\ \A i, j \in DOMAIN batch' : i < j => batch'[i] < batch'[j]
        /\ batch' = <<>> <=> new = {}
        /\ seen' = seen \cup new
        /\ st' \in States /\ st'.cursor = getEvents(Request).cursor
        /\ pc' = IF new = {} THEN "save" ELSE "append"
    BY <1>7, FetchType
  <2>2. st'.cursor # NoCursor
    BY <2>1, <1>1, <1>7, PageIs DEF FetchPage
  <2> HIDE DEF new
  <2>3. Events \subseteq Nat
    BY <1>1 DEF MonitorTypeOK, Events
  <2>4. UNCHANGED <<chain, tip, floor, log, tailOpen, stateFile, snapFile, oldest, tears>>
    BY <1>7 DEF FetchPage, rpcVars, logVars, counters
  <2>5. MonitorTypeOK'
    <3>1. seen' \in SUBSET Nat
      BY <2>1, <2>3, <1>1 DEF MonitorTypeOK
    <3>2. pc' \in {"save", "append"}
      BY <2>1
    <3> QED BY <2>1, <2>2, <2>4, <3>1, <3>2, <1>1 DEF MonitorTypeOK
  <2>6. ChainOK'
    BY <2>4, <1>1, <1>3 DEF ChainOK
  <2>7. LogOK'
    <3>1. pc = "loop"
      BY <1>7 DEF FetchPage
    <3>2. readLog \subseteq seen /\ seen \subseteq Events
      BY <3>1, <1>1 DEF LogOK
    <3>3. readLog' \subseteq seen' /\ seen' \subseteq Events'
      BY <2>1, <2>4, <3>2, <1>2, <1>3
    <3>4. pc' = "append" => new # {}
      BY <2>1
    <3>5. Range(batch') \subseteq seen' /\ Range(batch') \cap readLog' = {}
      BY <2>1, <2>4, <3>2, <1>2
    <3>6. /\ readLog' \subseteq Events' /\ NoRepeats(log)'
          /\ (tailOpen => tears > 0 /\ log # <<>>)'
      BY <2>4, <1>1, <1>2, <1>3, <1>4 DEF LogOK
    <3> QED BY <2>1, <3>3, <3>4, <3>5, <3>6 DEF LogOK
  <2> QED BY <2>5, <2>6, <2>7 DEF CollectInv
<1>8. CASE RefusedPage
  <2>1. pc = "loop" /\ st \in States /\ oldest \in Nat
    BY <1>8, <1>1 DEF RefusedPage, MonitorTypeOK
  <2>2. st' \in States /\ stateFile' = st'
    BY <2>1, <1>8, DropType DEF RefusedPage
  <2>3. UNCHANGED <<chain, tip, floor, log, tailOpen, snapFile, pc, oldest, seen, batch, tears>>
    BY <1>8 DEF RefusedPage, rpcVars, logVars, counters
  <2>4. MonitorTypeOK'
    BY <2>1, <2>2, <2>3, <1>1 DEF MonitorTypeOK
  <2>5. ChainOK'
    BY <2>3, <1>1, <1>3 DEF ChainOK
  <2>6. LogOK'
    BY <2>1, <2>3, <1>1, <1>2, <1>3, <1>4 DEF LogOK
  <2> QED BY <2>4, <2>5, <2>6 DEF CollectInv
<1>9. CASE AppendBatch
  <2>1. pc = "append" /\ log' = Appended(batch) /\ tailOpen' = FALSE /\ pc' = "save"
    BY <1>9 DEF AppendBatch
  <2>2. UNCHANGED <<chain, tip, floor, stateFile, snapFile, st, oldest, seen, batch, tears>>
    BY <1>9 DEF AppendBatch, rpcVars, counters
  <2>3. log' \in Seq(Nat) /\ NoRepeats(log') /\ readLog' \subseteq readLog \cup Range(batch)
    BY <2>1, PageToAppend, AppendLog
  <2>4. MonitorTypeOK'
    BY <2>1, <2>2, <2>3, <1>1 DEF MonitorTypeOK
  <2>5. ChainOK'
    BY <2>2, <1>1, <1>3 DEF ChainOK
  <2>6. readLog \subseteq seen /\ Range(batch) \subseteq seen /\ seen \subseteq Events
    BY <2>1, <1>1 DEF LogOK
  <2>7. readLog' \subseteq seen' /\ seen' \subseteq Events' /\ readLog' \subseteq Events'
    BY <2>2, <2>3, <2>6, <1>3
  <2>8. LogOK'
    BY <2>1, <2>3, <2>7 DEF LogOK
  <2> QED BY <2>4, <2>5, <2>8 DEF CollectInv
<1>10. CASE SavePage
  <2>1. st' \in States /\ stateFile' = st /\ st \in States
    BY <1>10, SaveType
  <2>2. UNCHANGED <<chain, tip, floor, log, tailOpen, snapFile, oldest, seen, tears>>
    BY <1>10 DEF SavePage, rpcVars, logVars, counters
  <2>3. pc = "save" /\ pc' \in {"end", "loop"} /\ batch' = <<>>
    BY <1>10 DEF SavePage
  <2>4. MonitorTypeOK'
    BY <2>1, <2>2, <2>3, <1>1 DEF MonitorTypeOK
  <2>5. ChainOK'
    BY <2>2, <1>1, <1>3 DEF ChainOK
  <2>6. LogOK'
    BY <2>2, <2>3, <1>1, <1>2, <1>3, <1>4 DEF LogOK
  <2> QED BY <2>4, <2>5, <2>6 DEF CollectInv
<1>11. CASE EndPass
  <2>1. UNCHANGED <<chain, tip, floor, log, tailOpen, snapFile, st, oldest, seen, batch, tears>>
    BY <1>11 DEF EndPass, rpcVars, logVars, counters
  <2>2. pc \in {"end", "loop"} /\ pc' = "snapshot" /\ stateFile' = st
    BY <1>11 DEF EndPass
  <2>3. MonitorTypeOK'
    BY <2>1, <2>2, <1>1 DEF MonitorTypeOK
  <2>4. ChainOK'
    BY <2>1, <1>1, <1>3 DEF ChainOK
  <2>5. LogOK'
    BY <2>1, <2>2, <1>1, <1>2, <1>3, <1>4 DEF LogOK
  <2> QED BY <2>3, <2>4, <2>5 DEF CollectInv
<1>12. CASE WriteSnapshot
  <2>1. UNCHANGED <<chain, tip, floor, log, tailOpen, stateFile, tears>>
    BY <1>12 DEF WriteSnapshot, rpcVars, logVars, counters
  <2>2. pc' = "idle" /\ oldest' = 0 /\ seen' = {} /\ batch' = <<>>
    BY <1>12 DEF WriteSnapshot, Idle
  <2>3. snapFile' \in Snapshots
    <3>1. st \in States
      BY <1>12, <1>1 DEF WriteSnapshot, MonitorTypeOK
    <3>2. readLog \subseteq Nat
      BY <1>1, InRange DEF readLog, MonitorTypeOK
    <3>3. st.oldestRetainedAtStart \in Nat /\ st.lastLedger \in Nat /\ st.complete \in BOOLEAN
      BY <3>1 DEF States
    <3> QED BY <3>2, <3>3, <1>12 DEF WriteSnapshot, Snapshots
  <2>4. MonitorTypeOK'
    BY <2>1, <2>2, <2>3, <1>1 DEF MonitorTypeOK
  <2>5. ChainOK'
    BY <2>1, <2>2, <1>1, <1>3 DEF ChainOK, MonitorTypeOK
  <2>6. LogOK'
    BY <2>1, <2>2, <1>1, <1>2, <1>3, <1>4 DEF LogOK
  <2> QED BY <2>4, <2>5, <2>6 DEF CollectInv
<1>13. CASE TearBatch
  <2>1. PICK whole \in 0 .. (Len(batch) - 1) :
          \E cut \in {Unreadable, batch[whole + 1]} :
            log' = Appended(SubSeq(batch, 1, whole) \o <<cut>>)
    BY <1>13 DEF TearBatch
  <2>2. PICK cut \in {Unreadable, batch[whole + 1]} :
            log' = Appended(SubSeq(batch, 1, whole) \o <<cut>>)
    BY <2>1
  <2> DEFINE q == SubSeq(batch, 1, whole) \o <<cut>>
  <2>3. pc = "append"
    BY <1>13 DEF TearBatch
  <2>4. /\ q \in Seq(Nat) /\ q # <<>> /\ NoRepeats(q)
        /\ Range(q) \subseteq Range(batch) \cup {Unreadable}
    BY <2>3, TornPage
  <2>5. log' = Appended(q)
    BY <2>2
  <2> HIDE DEF q
  <2>6. /\ log' \in Seq(Nat) /\ log' # <<>> /\ NoRepeats(log')
        /\ readLog' \subseteq readLog \cup Range(batch)
    BY <2>3, <2>4, <2>5, AppendLog
  <2>7. UNCHANGED <<chain, tip, floor, stateFile, snapFile>> /\ tears' = tears + 1
    BY <1>13 DEF TearBatch, rpcVars
  <2>8. pc' = "idle" /\ oldest' = 0 /\ seen' = {} /\ batch' = <<>> /\ tailOpen' = TRUE
    BY <1>13 DEF TearBatch, Idle
  <2>9. MonitorTypeOK'
    BY <2>6, <2>7, <2>8, <1>1 DEF MonitorTypeOK
  <2>10. ChainOK'
    BY <2>7, <2>8, <1>1, <1>3 DEF ChainOK, MonitorTypeOK
  <2>11. readLog' \subseteq Events'
    BY <2>3, <2>6, <2>7, <1>1, <1>3 DEF LogOK
  <2>12. tears' > 0
    BY <2>7, <1>1 DEF MonitorTypeOK
  <2>13. LogOK'
    BY <2>6, <2>8, <2>11, <2>12 DEF LogOK
  <2> QED BY <2>9, <2>10, <2>13 DEF CollectInv
<1>14. CASE Die
  <2>1. UNCHANGED <<chain, tip, floor, log, tailOpen, stateFile, snapFile, tears>>
    BY <1>14 DEF Die, rpcVars, logVars, counters
  <2>2. pc' = "idle" /\ oldest' = 0 /\ seen' = {} /\ batch' = <<>>
    BY <1>14 DEF Die, Idle
  <2>3. MonitorTypeOK'
    BY <2>1, <2>2, <1>1 DEF MonitorTypeOK
  <2>4. ChainOK'
    BY <2>1, <2>2, <1>1, <1>3 DEF ChainOK, MonitorTypeOK
  <2>5. LogOK'
    BY <2>1, <2>2, <1>1, <1>2, <1>3, <1>4 DEF LogOK
  <2> QED BY <2>3, <2>4, <2>5 DEF CollectInv
<1>15. CASE Reset
  <2>1. UNCHANGED <<chain, tip, floor, log, tailOpen, pc, st, oldest, seen, batch, tears>>
    BY <1>15 DEF Reset, rpcVars, logVars, passVars
  <2>2. stateFile' = NoState /\ snapFile' = NoSnapshot
    BY <1>15 DEF Reset
  <2>3. MonitorTypeOK'
    BY <2>1, <2>2, <1>1 DEF MonitorTypeOK
  <2>4. ChainOK'
    BY <2>1, <1>1, <1>3 DEF ChainOK
  <2>5. LogOK'
    BY <2>1, <1>1, <1>2, <1>3, <1>4 DEF LogOK
  <2> QED BY <2>3, <2>4, <2>5 DEF CollectInv
<1>16. CASE CloseLedger
  <2>1. UNCHANGED <<floor, log, tailOpen, stateFile, snapFile, pc, st, oldest, seen, batch, tears>>
    BY <1>16 DEF CloseLedger, logVars, passVars, counters
  <2>2. /\ tip' = tip + 1 /\ chain' \in Seq(Nat)
        /\ Events \subseteq Events'
        /\ \A e \in Events : chain'[e] = chain[e]
        /\ \A e \in Events' \ Events : chain'[e] = tip + 1
    BY <1>16, ClosedLedger
  <2>3. MonitorTypeOK'
    BY <2>1, <2>2, <1>1 DEF MonitorTypeOK
  <2>4. ChainOK'
    <3>1. \A e \in Events' : chain'[e] <= tip'
      <4> SUFFICES ASSUME NEW e \in Events' PROVE chain'[e] <= tip'
        OBVIOUS
      <4>1. tip \in Nat /\ tip + 1 <= tip'
        BY <2>2, <1>1 DEF MonitorTypeOK
      <4>2. CASE e \in Events
        <5>1. chain'[e] = chain[e] /\ chain[e] <= tip /\ chain[e] \in Nat
          BY <4>2, <2>2, <1>1 DEF ChainOK, MonitorTypeOK, Events
        <5> QED BY <5>1, <4>1, <2>2
      <4>3. CASE e \notin Events
        BY <4>1, <4>3, <2>2
      <4> QED BY <4>2, <4>3
    <3> QED BY <2>1, <2>2, <3>1, <1>1 DEF ChainOK, MonitorTypeOK
  <2>5. LogOK'
    BY <2>1, <2>2, <1>1, <1>2, <1>4 DEF LogOK
  <2> QED BY <2>3, <2>4, <2>5 DEF CollectInv
<1>17. CASE ForgetLedger
  <2>1. UNCHANGED <<chain, tip, log, tailOpen, stateFile, snapFile, pc, st, oldest, seen, batch, tears>>
    BY <1>17 DEF ForgetLedger, logVars, passVars, counters
  <2>2. floor' = floor + 1 /\ floor < tip
    BY <1>17 DEF ForgetLedger
  <2>3. MonitorTypeOK'
    BY <2>1, <2>2, <1>1 DEF MonitorTypeOK
  <2>4. ChainOK'
    BY <2>1, <2>2, <1>1, <1>3 DEF ChainOK, MonitorTypeOK
  <2>5. LogOK'
    BY <2>1, <1>1, <1>2, <1>3, <1>4 DEF LogOK
  <2> QED BY <2>3, <2>4, <2>5 DEF CollectInv
<1> QED BY <1>5, <1>6, <1>7, <1>8, <1>9, <1>10, <1>11, <1>12, <1>13, <1>14, <1>15, <1>16, <1>17
        DEF MonitorNext, PassStep

\* No line of the log repeats another.
LoggedOnce == NoRepeats(log)

\* However many events share a ledger, and whatever is killed, torn, refused or reset, no
\* event stands in the log of src/monitor/index.js twice.
THEOREM NoEventLoggedTwice == MonitorSpec => []LoggedOnce
<1>1. MonitorInit => CollectInv
  BY CollectInit
<1>2. CollectInv /\ [MonitorNext]_monitorVars => CollectInv'
  BY CollectStep
<1>3. CollectInv => LoggedOnce
  BY DEF CollectInv, LogOK, LoggedOnce
<1> QED BY <1>1, <1>2, <1>3, PTL DEF MonitorSpec

-----------------------------------------------------------------------------
(* Positions, when no ledger has more than one event.                      *)

OneEach == \A e, f \in Events : e < f => chain[e] < chain[f]

\* The last ledger that a position has left behind.
Reached(s) == IF s.cursor = NoCursor THEN s.lastLedger ELSE s.cursor.ledger

\* A cursor names the end of a ledger, and lastLedger does not lead it.  Only a start
\* ledger that the chain has not reached yet is ahead of the tip.
PositionOK(s) ==
    /\ s.lastLedger >= EXIT_START_LEDGER - 1
    /\ \/ s.lastLedger <= tip
       \/ ~s.complete /\ s.cursor = NoCursor /\ s.lastLedger = EXIT_START_LEDGER - 1
    /\ s.cursor # NoCursor =>
          /\ s.lastLedger <= s.cursor.ledger /\ s.cursor.ledger <= tip
          /\ s.cursor.after <= Len(chain)
          /\ \A e \in Events : e > s.cursor.after <=> chain[e] > s.cursor.ledger

\* A position without a cursor that claims to be complete is not behind the ledger the
\* pass enters at, unless its claim only begins there.
EntryOK(s) ==
    (s.complete /\ s.cursor = NoCursor) =>
        s.lastLedger >= oldest - 1 \/ s.oldestRetainedAtStart >= oldest

\* The events no request can bring any more.
Dead(e) == chain[e] < floor \/ chain[e] < EXIT_START_LEDGER

\* What the log holds once the page in hand is appended.
Held == readLog \cup (IF pc = "append" THEN Range(batch) ELSE {})

Missing(s) ==
    {e \in Events \ readLog : s.oldestRetainedAtStart <= chain[e] /\ chain[e] <= Reached(s)}

\* What a pass will not log: it was seen and its line was lost, or it is behind.
Gone ==
    {e \in Events \ Held :
        e \in seen \/ (st.oldestRetainedAtStart <= chain[e] /\ chain[e] <= Reached(st))}

\* An unterminated last line can still cost two events.
Owed == IF tailOpen THEN 2 ELSE 0

\* The files: what is not in the log and lies behind another line or behind the saved
\* position is dead, unless an append was torn; what is missing is paid for by tears.
FileInv ==
    /\ OneEach
    /\ stateFile # NoState => PositionOK(stateFile)
    /\ tears = 0 => \A i, j \in DOMAIN log : i < j => log[i] < log[j]
    /\ tears = 0 => \A e \in Events \ readLog :
                      \/ \E f \in readLog : e < f
                      \/ stateFile # NoState /\ chain[e] <= Reached(stateFile)
                      => Dead(e)
    /\ (stateFile # NoState /\ stateFile.complete) =>
           Cardinality(Missing(stateFile)) + Owed <= 2 * tears

\* The same of a pass that is under way and the position it works with.
PassInv ==
    pc # "idle" =>
      /\ PositionOK(st) /\ EntryOK(st)
      /\ pc = "append" => \A e \in Range(batch) : chain[e] <= Reached(st)
      /\ tears = 0 => /\ seen \subseteq Held
                      /\ \A e \in Events \ Held : chain[e] <= Reached(st) => Dead(e)
                      /\ pc = "append" => \A e \in readLog, f \in Range(batch) : e < f
      /\ st.complete => Cardinality(Gone) + Owed <= 2 * tears

\* The snapshot is no newer than the chain.
SnapshotInv ==
    (snapFile # NoSnapshot /\ snapFile.complete) => snapFile.lastLedger <= tip /\ SnapshotIsCensus

CensusInv == CollectInv /\ FileInv /\ PassInv /\ SnapshotInv

\* Where a position is known, an event is ahead of it when its ledger is.
LEMMA AheadIsLater ==
  ASSUME NEW s, PositionOK(s), NEW e \in Events
  PROVE  Ahead(s, e) <=> chain[e] > Reached(s)
BY DEF PositionOK, Ahead, Reached

\* The events of a chain up to a ledger are its first ones, so counting them is naming
\* the last of them.
LEMMA CountIsLast ==
  ASSUME CollectInv, OneEach, NEW L \in Nat
  PROVE  LET C == {e \in Events : chain[e] <= L} IN
         /\ Cardinality(C) \in Nat /\ Cardinality(C) <= Len(chain)
         /\ \A e \in Events : e > Cardinality(C) <=> chain[e] > L
<1> DEFINE C == {e \in Events : chain[e] <= L}
           A == {e \in Events : chain[e] > L}
           n == Len(chain)
<1>1. n \in Nat /\ Events = 1 .. n /\ Events \subseteq Nat /\ \A e \in Events : chain[e] \in Nat
  BY DEF CollectInv, MonitorTypeOK, Events
<1>2. \A e, f \in Events : e < f => chain[e] < chain[f]
  BY DEF OneEach
<1> HIDE DEF n
<1>3. CASE A = {}
  <2>1. \A e \in Events : chain[e] <= L
    BY <1>1, <1>3
  <2>2. C = 1 .. n
    BY <2>1, <1>1
  <2> HIDE DEF C
  <2>3. Cardinality(C) = n
    BY <2>2, <1>1, FS_Interval
  <2>4. \A e \in Events : ~(e > n) /\ ~(chain[e] > L)
    BY <2>1, <1>1
  <2>5. /\ Cardinality(C) \in Nat /\ Cardinality(C) <= n
        /\ \A e \in Events : e > Cardinality(C) <=> chain[e] > L
    <3>1. n <= n
      BY <1>1
    <3> QED BY <2>3, <2>4, <3>1, <1>1
  <2> QED BY <2>5 DEF n, C
<1>4. CASE A # {}
  <2>1. A \subseteq Nat
    BY <1>1
  <2>2. PICK m \in A : \A k \in A : m <= k
    <3> HIDE DEF A
    <3> QED BY <2>1, <1>4, LeastNat
  <2>3. m \in 1 .. n /\ m \in Nat /\ chain[m] > L
    BY <2>2, <1>1
  <2>4. \A e \in Events : e > m - 1 <=> chain[e] > L
    <3> SUFFICES ASSUME NEW e \in Events PROVE e > m - 1 <=> chain[e] > L
      OBVIOUS
    <3>1. e \in Nat /\ chain[e] \in Nat /\ m \in Events /\ chain[m] \in Nat
      BY <2>3, <1>1
    <3>2. chain[e] > L => m <= e
      BY <2>2
    <3>3. m < e => chain[m] < chain[e]
      BY <3>1, <1>2
    <3> QED BY <3>1, <3>2, <3>3, <2>3
  <2>5. C = 1 .. (m - 1)
    <3>1. \A e \in C : e \in 1 .. (m - 1)
      BY <2>3, <2>4, <1>1
    <3>2. \A e \in 1 .. (m - 1) : e \in Events /\ ~(e > m - 1)
      BY <2>3, <1>1
    <3>3. \A e \in 1 .. (m - 1) : e \in C
      BY <3>2, <2>4, <1>1
    <3> QED BY <3>1, <3>3
  <2> HIDE DEF C
  <2>6. Cardinality(C) = m - 1
    <3>1. m - 1 \in Int /\ 1 \in Int /\ m - 1 >= 0
      BY <2>3
    <3>2. Cardinality(1 .. (m - 1)) = IF 1 > m - 1 THEN 0 ELSE m - 1 - 1 + 1
      BY <3>1, FS_Interval
    <3> QED BY <3>1, <3>2, <2>5
  <2>7. m - 1 \in Nat /\ m - 1 <= n
    BY <2>3, <1>1
  <2> QED BY <2>4, <2>6, <2>7 DEF n, C
<1> QED BY <1>3, <1>4

\* A page is the events of consecutive ledgers, from where the position was, or the
\* window begins, to where it is then.
LEMMA PageIsLedgers ==
  ASSUME CollectInv, OneEach, pc = "loop", PositionOK(st), Accepts(Request)
  PROVE  LET c == getEvents(Request).cursor
             lo == IF st.cursor # NoCursor THEN st.cursor.ledger
                   ELSE Later(st.lastLedger + 1, oldest) - 1
         IN  /\ c \in Cursors /\ c # NoCursor /\ lo \in Nat
             /\ lo <= c.ledger /\ c.ledger <= tip /\ c.after <= Len(chain)
             /\ \A e \in Events : e > c.after <=> chain[e] > c.ledger
             /\ \A e \in Events :
                  e \in getEvents(Request).events <=> lo < chain[e] /\ chain[e] <= c.ledger
             /\ floor - 1 <= lo /\ st.lastLedger <= lo /\ Reached(st) <= lo
<1> DEFINE res == getEvents(Request)
           c == res.cursor
           found == Matches(Request)
           E == ScanEnd(Request)
           lo == IF st.cursor # NoCursor THEN st.cursor.ledger
                 ELSE Later(st.lastLedger + 1, oldest) - 1
<1>1. MonitorTypeOK /\ ChainOK /\ st \in States /\ oldest \in Nat /\ tip \in Nat /\ floor \in Nat
      /\ 1 <= floor
  BY DEF CollectInv, MonitorTypeOK, ChainOK
<1>2. /\ Len(chain) \in Nat /\ Events = 1 .. Len(chain) /\ Events \subseteq Nat
      /\ \A e \in Events : chain[e] \in Nat
  BY <1>1 DEF MonitorTypeOK, Events
<1>3. /\ st.lastLedger \in Nat
      /\ st.cursor # NoCursor => st.cursor.ledger \in Nat /\ st.cursor.after \in Nat
  BY <1>1 DEF States, Cursors
<1>4. Request.cursor = st.cursor /\ Request.startLedger = Later(st.lastLedger + 1, oldest)
  BY DEF Request
<1>5. /\ E \in Nat /\ E <= tip /\ lo \in Nat /\ lo <= E /\ floor - 1 <= lo
      /\ st.lastLedger <= lo /\ Reached(st) <= lo
  <2>1. CASE st.cursor # NoCursor
    <3>1. lo = st.cursor.ledger /\ lo <= tip /\ st.lastLedger <= lo /\ Reached(st) = lo
      BY <2>1 DEF PositionOK, Reached
    <3>2. E \in Nat /\ E <= tip /\ (lo <= tip => lo <= E) /\ floor <= lo
      BY <2>1, <3>1, <1>1, ScanEndIs
    <3> HIDE DEF lo, E
    <3> QED BY <2>1, <3>1, <3>2, <1>1, <1>3
  <2>2. CASE st.cursor = NoCursor
    <3> DEFINE from == Later(st.lastLedger + 1, oldest)
    <3>1. from \in Nat /\ st.lastLedger + 1 <= from
      BY <1>1, <1>3 DEF Later
    <3>2. E \in Nat /\ E <= tip /\ (from <= tip => from <= E) /\ floor <= from /\ from <= tip
      BY <2>2, <1>1, ScanEndIs
    <3>3. lo = from - 1 /\ Reached(st) = st.lastLedger
      BY <2>2 DEF Reached
    <3> HIDE DEF lo, E, from
    <3> QED BY <3>1, <3>2, <3>3, <1>1, <1>3
  <2> QED BY <2>1, <2>2
<1>6. \A e \in Events : e \in found <=> lo < chain[e] /\ chain[e] <= E
  <2> SUFFICES ASSUME NEW e \in Events
               PROVE  e \in found <=> lo < chain[e] /\ chain[e] <= E
    OBVIOUS
  <2>1. e \in found <=> /\ chain[e] <= E
                        /\ IF st.cursor # NoCursor THEN e > st.cursor.after
                           ELSE chain[e] >= Later(st.lastLedger + 1, oldest)
    BY <1>4 DEF Matches
  <2>2. CASE st.cursor # NoCursor
    <3>1. e > st.cursor.after <=> chain[e] > st.cursor.ledger
      BY <2>2 DEF PositionOK
    <3>2. lo = st.cursor.ledger
      BY <2>2
    <3> HIDE DEF lo, E, found
    <3> QED BY <2>1, <2>2, <3>1, <3>2, <1>2, <1>3
  <2>3. CASE st.cursor = NoCursor
    <3> DEFINE from == Later(st.lastLedger + 1, oldest)
    <3>1. lo = from - 1 /\ from \in Nat /\ chain[e] \in Nat
      BY <2>3, <1>1, <1>2, <1>3 DEF Later
    <3>2. e \in found <=> chain[e] <= E /\ chain[e] >= from
      BY <2>1, <2>3
    <3> HIDE DEF lo, E, found, from
    <3> QED BY <3>1, <3>2
  <2> QED BY <2>2, <2>3
<1>7. /\ found \subseteq Events /\ res.events \subseteq found
      /\ c \in Cursors /\ c # NoCursor
      /\ Cardinality(found) >= pageLimit =>
           /\ c.after \in res.events /\ c.ledger = chain[c.after]
           /\ res.events = {e \in found : e <= c.after}
      /\ ~(Cardinality(found) >= pageLimit) =>
           /\ res.events = found /\ c.ledger = E
           /\ c.after = Cardinality({e \in Events : chain[e] <= E})
  BY <1>1, PageIs
<1>8. \A e, f \in Events : e < f => chain[e] < chain[f]
  BY DEF OneEach
<1> HIDE DEF found, E, lo
<1>9. /\ lo <= c.ledger /\ c.ledger <= tip /\ c.after <= Len(chain)
      /\ \A e \in Events : e > c.after <=> chain[e] > c.ledger
      /\ \A e \in Events : e \in res.events <=> lo < chain[e] /\ chain[e] <= c.ledger
  <2>1. CASE Cardinality(found) >= pageLimit
    <3> DEFINE M == c.after
    <3>1. /\ M \in Events /\ M \in found /\ c.ledger = chain[M]
          /\ res.events = {e \in found : e <= M}
      BY <2>1, <1>7
    <3> HIDE DEF M, res
    <3>2. M \in Nat /\ chain[M] \in Nat /\ M <= Len(chain) /\ lo < chain[M] /\ chain[M] <= E
      BY <3>1, <1>2, <1>6
    <3>3. \A e \in Events : e > M <=> chain[e] > chain[M]
      <4> SUFFICES ASSUME NEW e \in Events PROVE e > M <=> chain[e] > chain[M]
        OBVIOUS
      <4>1. /\ e \in Nat /\ chain[e] \in Nat /\ (e < M => chain[e] < chain[M])
            /\ (M < e => chain[M] < chain[e])
        BY <3>1, <1>2, <1>8
      <4>2. e < M \/ e = M \/ M < e
        BY <4>1, <3>2
      <4> QED BY <4>1, <4>2, <3>2
    <3>4. \A e \in Events : e \in res.events <=> lo < chain[e] /\ chain[e] <= chain[M]
      <4> SUFFICES ASSUME NEW e \in Events
                   PROVE  e \in res.events <=> lo < chain[e] /\ chain[e] <= chain[M]
        OBVIOUS
      <4>1. e \in res.events <=> e \in found /\ e <= M
        BY <3>1
      <4>2. e \in Nat /\ chain[e] \in Nat /\ (e > M <=> chain[e] > chain[M])
        BY <3>3, <1>2
      <4>3. e <= M <=> chain[e] <= chain[M]
        BY <4>2, <3>2
      <4>4. e \in found <=> lo < chain[e] /\ chain[e] <= E
        BY <1>6
      <4>5. chain[e] <= chain[M] => chain[e] <= E
        BY <4>2, <3>2, <1>5
      <4> QED BY <4>1, <4>3, <4>4, <4>5
    <3>5. lo <= chain[M] /\ chain[M] <= tip
      BY <3>2, <1>5, <1>1
    <3> QED BY <3>1, <3>2, <3>3, <3>4, <3>5 DEF M
  <2>2. CASE ~(Cardinality(found) >= pageLimit)
    <3>1. res.events = found /\ c.ledger = E
          /\ c.after = Cardinality({e \in Events : chain[e] <= E})
      BY <2>2, <1>7
    <3> HIDE DEF res
    <3>2. c.after <= Len(chain) /\ \A e \in Events : e > c.after <=> chain[e] > E
      BY <3>1, <1>5, CountIsLast
    <3> QED BY <3>1, <3>2, <1>5, <1>6
  <2> QED BY <2>1, <2>2
<1> QED BY <1>5, <1>7, <1>9 DEF lo

-----------------------------------------------------------------------------
(* What is missing can be counted.                                         *)

\* Every set of events of the chain has a cardinality.
LEMMA EventsFinite ==
  ASSUME CollectInv
  PROVE  /\ \A A : A \subseteq Events => IsFiniteSet(A) /\ Cardinality(A) \in Nat
         /\ \A s : Missing(s) \subseteq Events
         /\ Gone \subseteq Events
<1>1. IsFiniteSet(Events)
  <2>1. Events = 1 .. Len(chain) /\ Len(chain) \in Nat
    BY DEF CollectInv, MonitorTypeOK, Events
  <2> QED BY <2>1, FS_Interval
<1>2. \A A : A \subseteq Events => IsFiniteSet(A) /\ Cardinality(A) \in Nat
  BY <1>1, FS_Subset, FS_CardinalityType
<1> QED BY <1>2 DEF Missing, Gone

\* A part of a finite set has no more members than the whole.
LEMMA FewerCount ==
  ASSUME NEW B, IsFiniteSet(B), NEW A, A \subseteq B
  PROVE  IsFiniteSet(A) /\ Cardinality(A) \in Nat /\ Cardinality(B) \in Nat
         /\ Cardinality(A) <= Cardinality(B)
BY FS_Subset, FS_CardinalityType

\* Two members more add at most two to the count.
LEMMA TwoMoreCount ==
  ASSUME NEW B, IsFiniteSet(B), NEW x, NEW y, NEW A, A \subseteq B \cup {x, y}
  PROVE  IsFiniteSet(A) /\ Cardinality(A) \in Nat /\ Cardinality(B) \in Nat
         /\ Cardinality(A) <= Cardinality(B) + 2
<1> DEFINE B1 == B \cup {x}
           B2 == B1 \cup {y}
<1>1. Cardinality(B) \in Nat
  BY FS_CardinalityType
<1>2. IsFiniteSet(B1) /\ Cardinality(B1) = IF x \in B THEN Cardinality(B) ELSE Cardinality(B) + 1
  BY FS_AddElement
<1> HIDE DEF B1
<1>3. IsFiniteSet(B2) /\ Cardinality(B2) = IF y \in B1 THEN Cardinality(B1) ELSE Cardinality(B1) + 1
  BY <1>2, FS_AddElement
<1>4. A \subseteq B2
  BY DEF B1
<1> HIDE DEF B2
<1>5. IsFiniteSet(A) /\ Cardinality(A) \in Nat /\ Cardinality(A) <= Cardinality(B2)
  BY <1>3, <1>4, FewerCount
<1> QED BY <1>1, <1>2, <1>3, <1>5

-----------------------------------------------------------------------------
(* Keeping the invariant.                                                  *)

fileVars == <<chain, tip, floor, log, tailOpen, tears>>

\* The position s has nothing behind it that t has not, but for what is dead.
NotPast(s, t) ==
    /\ PositionOK(s)
    /\ \A e \in Events : chain[e] <= Reached(s) => chain[e] <= Reached(t) \/ Dead(e)
    /\ s.complete => /\ t.complete /\ s.oldestRetainedAtStart = t.oldestRetainedAtStart
                     /\ \A e \in Events : chain[e] <= Reached(s) => chain[e] <= Reached(t)

\* A step that leaves chain, window and log alone changes nothing that is said about a
\* position in them.
LEMMA FileSteps ==
  ASSUME UNCHANGED fileVars
  PROVE  /\ UNCHANGED <<chain, tip, floor, log, tailOpen, tears>>
         /\ UNCHANGED <<Events, readLog, Owed>>
         /\ OneEach => OneEach'
         /\ (\A i, j \in DOMAIN log : i < j => log[i] < log[j])
              => (\A i, j \in DOMAIN log : i < j => log[i] < log[j])'
         /\ \A e : Dead(e) => Dead(e)'
         /\ \A s : /\ PositionOK(s) => PositionOK(s)'
                   /\ Missing(s)' = Missing(s)
<1>1. UNCHANGED <<chain, tip, floor, log, tailOpen, tears>>
  BY DEF fileVars
<1>2. UNCHANGED <<Events, readLog, Owed>>
  BY <1>1 DEF Events, readLog, Owed
<1>3. OneEach => OneEach'
  BY <1>1, <1>2 DEF OneEach
<1>4. \A e : Dead(e) => Dead(e)'
  BY <1>1 DEF Dead
<1>5. \A s : PositionOK(s) => PositionOK(s)'
  BY <1>1, <1>2 DEF PositionOK
<1>6. \A s : Missing(s)' = Missing(s)
  BY <1>1, <1>2 DEF Missing
<1> QED BY <1>1, <1>2, <1>3, <1>4, <1>5, <1>6

\* Steps that leave the files alone.
LEMMA FileStays ==
  ASSUME FileInv, UNCHANGED fileVars, UNCHANGED stateFile
  PROVE  FileInv'
<1>1. /\ UNCHANGED <<chain, tip, floor, log, tailOpen, tears>>
      /\ UNCHANGED <<Events, readLog, Owed>>
      /\ OneEach => OneEach'
      /\ (\A i, j \in DOMAIN log : i < j => log[i] < log[j])
           => (\A i, j \in DOMAIN log : i < j => log[i] < log[j])'
      /\ \A e : Dead(e) => Dead(e)'
      /\ \A s : PositionOK(s) => PositionOK(s)'
      /\ \A s : Missing(s)' = Missing(s)
  BY FileSteps
<1>2. OneEach'
  BY <1>1 DEF FileInv
<1>3. (stateFile # NoState => PositionOK(stateFile))'
  <2>1. stateFile' # NoState => PositionOK(stateFile)
    BY DEF FileInv
  <2> QED BY <2>1, <1>1 DEF PositionOK
<1>4. (tears = 0 => \A i, j \in DOMAIN log : i < j => log[i] < log[j])'
  BY <1>1 DEF FileInv
<1>5. (tears = 0 => \A e \in Events \ readLog :
                      \/ \E f \in readLog : e < f
                      \/ stateFile # NoState /\ chain[e] <= Reached(stateFile)
                      => Dead(e))'
  BY <1>1 DEF FileInv
<1>6. ((stateFile # NoState /\ stateFile.complete) =>
           Cardinality(Missing(stateFile)) + Owed <= 2 * tears)'
  <2>1. Missing(stateFile)' = Missing(stateFile)
    BY <1>1 DEF Missing
  <2> QED BY <2>1, <1>1 DEF FileInv
<1> QED BY <1>2, <1>3, <1>4, <1>5, <1>6 DEF FileInv

\* Steps that save the position of the pass, or one that claims less.
LEMMA FileSaved ==
  ASSUME CollectInv, FileInv, PassInv, pc \in {"loop", "save", "end"},
         UNCHANGED fileVars, NotPast(stateFile', st)
  PROVE  FileInv'
<1> DEFINE s == stateFile'
<1>1. /\ UNCHANGED <<chain, tip, floor, log, tailOpen, tears>>
      /\ UNCHANGED <<Events, readLog, Owed>>
      /\ OneEach => OneEach'
      /\ (\A i, j \in DOMAIN log : i < j => log[i] < log[j])
           => (\A i, j \in DOMAIN log : i < j => log[i] < log[j])'
      /\ \A e : Dead(e) => Dead(e)'
  BY FileSteps
<1>2. OneEach'
  BY <1>1 DEF FileInv
<1>3. (stateFile # NoState => PositionOK(stateFile))'
  BY <1>1 DEF NotPast, PositionOK
<1>4. (tears = 0 => \A i, j \in DOMAIN log : i < j => log[i] < log[j])'
  BY <1>1 DEF FileInv
<1>5. Held = readLog
  BY DEF Held
<1>6. (tears = 0 => \A e \in Events \ readLog :
                      \/ \E f \in readLog : e < f
                      \/ stateFile # NoState /\ chain[e] <= Reached(stateFile)
                      => Dead(e))'
  <2>1. tears = 0 => \A e \in Events \ readLog : chain[e] <= Reached(st) => Dead(e)
    BY <1>5 DEF PassInv
  <2>2. tears = 0 => \A e \in Events \ readLog : chain[e] <= Reached(s) => Dead(e)
    BY <2>1 DEF NotPast
  <2>3. tears = 0 => \A e \in Events \ readLog : (\E f \in readLog : e < f) => Dead(e)
    BY DEF FileInv
  <2> QED BY <2>2, <2>3, <1>1
<1>7. s.complete => Cardinality(Missing(s)) + Owed <= 2 * tears
  <2> SUFFICES ASSUME s.complete PROVE Cardinality(Missing(s)) + Owed <= 2 * tears
    OBVIOUS
  <2>1. Missing(s) \subseteq Gone
    BY <1>5 DEF NotPast, Missing, Gone
  <2>2. Cardinality(Gone) + Owed <= 2 * tears
    BY DEF NotPast, PassInv
  <2>3. IsFiniteSet(Gone)
    BY EventsFinite
  <2> HIDE DEF s
  <2>4. Cardinality(Missing(s)) \in Nat /\ Cardinality(Gone) \in Nat
        /\ Cardinality(Missing(s)) <= Cardinality(Gone)
    BY <2>1, <2>3, FewerCount
  <2>5. Owed \in Nat /\ tears \in Nat
    BY DEF Owed, CollectInv, MonitorTypeOK
  <2> QED BY <2>2, <2>4, <2>5
<1>8. ((stateFile # NoState /\ stateFile.complete) =>
           Cardinality(Missing(stateFile)) + Owed <= 2 * tears)'
  <2>1. Missing(stateFile)' = Missing(s)
    BY <1>1 DEF Missing
  <2> QED BY <2>1, <1>1, <1>7
<1> QED BY <1>2, <1>3, <1>4, <1>6, <1>8 DEF FileInv

\* Steps that leave the pass alone.
LEMMA PassStays ==
  ASSUME PassInv, UNCHANGED fileVars, UNCHANGED <<pc, st, oldest, seen, batch>>
  PROVE  PassInv'
<1>1. UNCHANGED <<chain, tip, floor, log, tailOpen, tears>> /\ UNCHANGED <<Events, readLog, Owed>>
  BY FileSteps
<1>2. UNCHANGED Held
  BY <1>1 DEF Held
<1>3. UNCHANGED Gone
  BY <1>1, <1>2 DEF Gone
<1>4. PositionOK(st) => PositionOK(st)'
  BY <1>1 DEF PositionOK
<1>5. EntryOK(st) => EntryOK(st)'
  BY <1>1 DEF EntryOK
<1>6. \A e : Dead(e) => Dead(e)'
  BY <1>1 DEF Dead
<1> QED BY <1>1, <1>2, <1>3, <1>4, <1>5, <1>6 DEF PassInv

\* Steps by which a pass goes on with a position that claims no more.
LEMMA PassGoesOn ==
  ASSUME CollectInv, PassInv, pc \in {"loop", "save", "end"}, pc' # "append",
         UNCHANGED fileVars, UNCHANGED <<oldest, seen>>,
         NotPast(st', st), EntryOK(st')
  PROVE  PassInv'
<1> DEFINE s == st'
<1>1. /\ UNCHANGED <<chain, tip, floor, log, tailOpen, tears>>
      /\ UNCHANGED <<Events, readLog, Owed>>
      /\ \A e : Dead(e) => Dead(e)'
  BY FileSteps
<1>2. Held = readLog /\ Held' = readLog
  BY <1>1 DEF Held
<1>3. PositionOK(st)' /\ EntryOK(st)'
  BY <1>1 DEF NotPast, PositionOK, EntryOK
<1>4. tears = 0 => seen \subseteq readLog
  BY <1>2 DEF PassInv
<1>5. tears = 0 => \A e \in Events \ readLog : chain[e] <= Reached(s) => Dead(e)
  <2>1. tears = 0 => \A e \in Events \ readLog : chain[e] <= Reached(st) => Dead(e)
    BY <1>2 DEF PassInv
  <2> QED BY <2>1 DEF NotPast
<1>6. s.complete => Cardinality(Gone') + Owed <= 2 * tears
  <2> SUFFICES ASSUME s.complete PROVE Cardinality(Gone') + Owed <= 2 * tears
    OBVIOUS
  <2>1. Gone' \subseteq Gone
    <3>1. /\ st.oldestRetainedAtStart = s.oldestRetainedAtStart
          /\ \A e \in Events : chain[e] <= Reached(s) => chain[e] <= Reached(st)
      BY DEF NotPast
    <3>2. \A e \in Gone' : e \in Gone
      BY <3>1, <1>1, <1>2 DEF Gone
    <3> QED BY <3>2
  <2>2. Cardinality(Gone) + Owed <= 2 * tears
    BY DEF NotPast, PassInv
  <2>3. IsFiniteSet(Gone)
    BY EventsFinite
  <2>4. Cardinality(Gone') \in Nat /\ Cardinality(Gone) \in Nat
        /\ Cardinality(Gone') <= Cardinality(Gone)
    BY <2>1, <2>3, FewerCount
  <2>5. Owed \in Nat /\ tears \in Nat
    BY DEF Owed, CollectInv, MonitorTypeOK
  <2> QED BY <2>2, <2>4, <2>5
<1> QED BY <1>1, <1>2, <1>3, <1>4, <1>5, <1>6 DEF PassInv

\* Steps that leave the snapshot and the chain alone.
LEMMA SnapshotStays ==
  ASSUME SnapshotInv, UNCHANGED <<chain, tip, snapFile>>, tears' = tears \/ tears' > 0
  PROVE  SnapshotInv'
<1>1. UNCHANGED Events
  BY DEF Events
<1> QED BY <1>1 DEF SnapshotInv, SnapshotIsCensus

-----------------------------------------------------------------------------
(* The steps of a pass.                                                    *)

\* A position without a history, at the start ledger or at the edge of the window.
LEMMA ColdStartOK ==
  ASSUME CollectInv
  PROVE  /\ PositionOK(ColdStart)
         /\ \A e \in Events : chain[e] <= Reached(ColdStart) => Dead(e)
         /\ ColdStart.complete => \A e \in Events : chain[e] <= Reached(ColdStart)
                                    => ~(ColdStart.oldestRetainedAtStart <= chain[e])
         /\ ColdStart.complete /\ ColdStart.cursor = NoCursor
              => ColdStart.oldestRetainedAtStart = floor
<1>1. /\ floor \in Nat /\ tip \in Nat /\ 1 <= floor /\ floor <= tip /\ EXIT_START_LEDGER \in Nat
      /\ \A e \in Events : chain[e] \in Nat
  BY MonitorAssumption DEF CollectInv, MonitorTypeOK, ChainOK, Events
<1> DEFINE from == IF EXIT_START_LEDGER = 0 THEN floor ELSE EXIT_START_LEDGER
<1>2. /\ ColdStart.oldestRetainedAtStart = floor /\ ColdStart.complete = (from <= floor)
      /\ ColdStart.cursor = NoCursor /\ ColdStart.lastLedger = from - 1
  BY DEF ColdStart
<1>3. from \in Nat /\ from >= 1 /\ (from = floor \/ from = EXIT_START_LEDGER) /\ from >= EXIT_START_LEDGER
  BY <1>1
<1> HIDE DEF from
<1>4. Reached(ColdStart) = from - 1
  BY <1>2 DEF Reached
<1>5. PositionOK(ColdStart)
  <2>1. ColdStart.lastLedger >= EXIT_START_LEDGER - 1
    BY <1>1, <1>2, <1>3
  <2>2. from - 1 <= tip \/ (~(from <= floor) /\ from - 1 = EXIT_START_LEDGER - 1)
    BY <1>1, <1>3
  <2> QED BY <1>2, <2>1, <2>2 DEF PositionOK
<1>6. \A e \in Events : chain[e] <= Reached(ColdStart) => Dead(e)
  BY <1>1, <1>3, <1>4 DEF Dead
<1>7. ColdStart.complete => \A e \in Events : chain[e] <= Reached(ColdStart)
                              => ~(ColdStart.oldestRetainedAtStart <= chain[e])
  <2> SUFFICES ASSUME ColdStart.complete, NEW e \in Events, chain[e] <= from - 1
               PROVE  ~(floor <= chain[e])
    BY <1>2, <1>4
  <2>1. from <= floor
    BY <1>2
  <2> QED BY <2>1, <1>1, <1>3
<1> QED BY <1>2, <1>5, <1>6, <1>7

\* A new pass starts from the position in the state file, with the log read back.
LEMMA BeginPassKeeps ==
  ASSUME CensusInv, BeginPass
  PROVE  FileInv' /\ PassInv' /\ SnapshotInv'
<1> DEFINE s == st'
<1>1. /\ CollectInv /\ FileInv /\ SnapshotInv
      /\ UNCHANGED fileVars /\ UNCHANGED <<stateFile, snapFile>>
      /\ s = Resume(stateFile) /\ seen' = readLog /\ oldest' = floor /\ pc' = "loop"
  BY DEF CensusInv, BeginPass, fileVars, rpcVars, logVars, counters
<1>2. FileInv'
  BY <1>1, FileStays
<1>3. SnapshotInv'
  BY <1>1, SnapshotStays, FileSteps
<1>4. /\ UNCHANGED <<chain, tip, floor, log, tailOpen, tears>>
      /\ UNCHANGED <<Events, readLog, Owed>>
      /\ \A e : Dead(e) => Dead(e)'
  BY <1>1, FileSteps
<1>5. Held' = readLog
  BY <1>1, <1>4 DEF Held
<1>6. /\ floor \in Nat /\ tip \in Nat /\ tears \in Nat /\ Owed \in Nat
      /\ 1 <= floor /\ floor <= tip
      /\ \A e \in Events : chain[e] \in Nat
  BY <1>1 DEF CollectInv, MonitorTypeOK, ChainOK, Events, Owed
<1>7. /\ PositionOK(s)
      /\ s.complete /\ s.cursor = NoCursor => s.lastLedger >= floor - 1 \/ s.oldestRetainedAtStart >= floor
      /\ tears = 0 => \A e \in Events \ readLog : chain[e] <= Reached(s) => Dead(e)
      /\ s.complete => \/ Missing(s) = {}
                       \/ Cardinality(Missing(s)) + Owed <= 2 * tears
  <2>1. CASE stateFile = NoState
    <3>1. s = ColdStart
      BY <1>1, <2>1 DEF Resume
    <3>2. /\ PositionOK(s)
          /\ \A e \in Events : chain[e] <= Reached(s) => Dead(e)
          /\ s.complete => \A e \in Events : chain[e] <= Reached(s)
                                               => ~(s.oldestRetainedAtStart <= chain[e])
          /\ s.complete /\ s.cursor = NoCursor => s.oldestRetainedAtStart = floor
      BY <1>1, <3>1, ColdStartOK
    <3> HIDE DEF s
    <3>3. s.complete => Missing(s) = {}
      BY <3>2 DEF Missing
    <3>4. floor >= floor
      BY <1>6
    <3> QED BY <3>2, <3>3, <3>4
  <2>2. CASE stateFile # NoState /\ stateFile.cursor = NoCursor /\ stateFile.lastLedger < floor
    <3>1. s = [stateFile EXCEPT !.complete = FALSE, !.lastLedger = floor - 1]
      BY <1>1, <2>2 DEF Resume
    <3>2. stateFile \in States /\ floor - 1 \in Nat
      BY <1>1, <1>6, <2>2 DEF CollectInv, MonitorTypeOK
    <3>3. ~s.complete /\ s.cursor = NoCursor /\ s.lastLedger = floor - 1
      BY <2>2, <3>1, <3>2, GiveUpType
    <3> HIDE DEF s
    <3>4. Reached(s) = floor - 1
      BY <3>3 DEF Reached
    <3>5. PositionOK(s)
      <4>1. stateFile.lastLedger >= EXIT_START_LEDGER - 1 /\ stateFile.lastLedger \in Nat
            /\ EXIT_START_LEDGER \in Nat
        BY <1>1, <2>2, <3>2, MonitorAssumption DEF FileInv, PositionOK, States
      <4>2. s.lastLedger >= EXIT_START_LEDGER - 1 /\ s.lastLedger <= tip
        BY <4>1, <1>6, <2>2, <3>3
      <4> QED BY <4>2, <3>3 DEF PositionOK
    <3>6. \A e \in Events : chain[e] <= Reached(s) => Dead(e)
      BY <3>4, <1>6 DEF Dead
    <3> QED BY <3>3, <3>5, <3>6
  <2>3. CASE stateFile # NoState /\ ~(stateFile.cursor = NoCursor /\ stateFile.lastLedger < floor)
    <3>1. s = stateFile
      BY <1>1, <2>3 DEF Resume
    <3>2. PositionOK(s)
      BY <1>1, <2>3, <3>1 DEF FileInv
    <3>3. s.cursor = NoCursor => s.lastLedger >= floor - 1
      <4>1. stateFile.lastLedger \in Nat
        BY <1>1, <2>3 DEF CollectInv, MonitorTypeOK, States
      <4> QED BY <4>1, <2>3, <3>1, <1>6
    <3>4. tears = 0 => \A e \in Events \ readLog : chain[e] <= Reached(s) => Dead(e)
      BY <1>1, <2>3, <3>1 DEF FileInv
    <3>5. s.complete => Cardinality(Missing(s)) + Owed <= 2 * tears
      BY <1>1, <2>3, <3>1 DEF FileInv
    <3> QED BY <3>2, <3>3, <3>4, <3>5
  <2> QED BY <2>1, <2>2, <2>3
<1>8. Gone' = Missing(s)
  <2>1. readLog \subseteq Events
    BY <1>1 DEF CollectInv, LogOK
  <2>2. \A e : e \in Gone' <=> e \in Missing(s)
    BY <1>1, <1>4, <1>5 DEF Gone, Missing
  <2> QED BY <2>2
<1>9. s.complete => Cardinality(Gone') + Owed <= 2 * tears
  <2>1. Cardinality({}) = 0
    BY FS_EmptySet
  <2>2. Owed <= 2 * tears
    BY <1>1, <1>6 DEF CollectInv, LogOK, Owed
  <2> HIDE DEF s
  <2>3. Missing(s) = {} => Cardinality(Missing(s)) + Owed <= 2 * tears
    BY <2>1, <2>2, <1>6
  <2> QED BY <2>3, <1>7, <1>8
<1>10. PositionOK(st)' /\ EntryOK(st)'
  <2>1. PositionOK(st)'
    BY <1>4, <1>7 DEF PositionOK
  <2>2. EntryOK(st)'
    BY <1>1, <1>7 DEF EntryOK
  <2> QED BY <2>1, <2>2
<1>11. PassInv'
  BY <1>1, <1>4, <1>5, <1>7, <1>9, <1>10 DEF PassInv
<1> QED BY <1>2, <1>3, <1>11

\* A page: its events join the batch, and the position moves to what the page scanned.
LEMMA FetchPageKeeps ==
  ASSUME CensusInv, FetchPage
  PROVE  FileInv' /\ PassInv' /\ SnapshotInv'
<1> DEFINE s == st'
           page == getEvents(Request).events
           new == page \ seen
           c == getEvents(Request).cursor
           lo == IF st.cursor # NoCursor THEN st.cursor.ledger
                 ELSE Later(st.lastLedger + 1, oldest) - 1
<1>1. /\ CollectInv /\ FileInv /\ PassInv /\ SnapshotInv
      /\ UNCHANGED fileVars /\ UNCHANGED <<stateFile, snapFile, oldest>>
      /\ pc = "loop" /\ Accepts(Request)
  BY DEF CensusInv, FetchPage, fileVars, rpcVars, logVars, counters
<1>2. FileInv' /\ SnapshotInv'
  BY <1>1, FileStays, SnapshotStays, FileSteps
<1>3. /\ UNCHANGED <<chain, tip, floor, log, tailOpen, tears>>
      /\ UNCHANGED <<Events, readLog, Owed>>
      /\ \A e : Dead(e) => Dead(e)'
  BY <1>1, FileSteps
<1>4. PositionOK(st) /\ EntryOK(st) /\ OneEach /\ st \in States
  BY <1>1 DEF PassInv, FileInv, CollectInv, MonitorTypeOK
<1>5. /\ c \in Cursors /\ c # NoCursor /\ lo \in Nat
      /\ lo <= c.ledger /\ c.ledger <= tip /\ c.after <= Len(chain)
      /\ \A e \in Events : e > c.after <=> chain[e] > c.ledger
      /\ \A e \in Events : e \in page <=> lo < chain[e] /\ chain[e] <= c.ledger
      /\ floor - 1 <= lo /\ st.lastLedger <= lo /\ Reached(st) <= lo
  BY <1>1, <1>4, PageIsLedgers
<1>6. /\ new \subseteq Events /\ new \cap seen = {} /\ Range(batch') = new
      /\ seen' = seen \cup new
      /\ s \in States /\ s.cursor = c
      /\ s.complete = st.complete /\ s.oldestRetainedAtStart = st.oldestRetainedAtStart
      /\ new = {} => s.lastLedger = st.lastLedger
      /\ new # {} => \E e \in new : s.lastLedger = Later(st.lastLedger, chain[e])
      /\ pc' = IF new = {} THEN "save" ELSE "append"
  BY <1>1, FetchType
<1>7. /\ floor \in Nat /\ tip \in Nat /\ tears \in Nat /\ Owed \in Nat /\ oldest \in Nat
      /\ oldest <= floor /\ EXIT_START_LEDGER \in Nat
      /\ \A e \in Events : e \in Nat /\ chain[e] \in Nat
      /\ st.lastLedger \in Nat /\ c.ledger \in Nat /\ s.lastLedger \in Nat
  <2>1. /\ floor \in Nat /\ tip \in Nat /\ tears \in Nat /\ Owed \in Nat /\ oldest \in Nat
        /\ oldest <= floor /\ EXIT_START_LEDGER \in Nat
        /\ \A e \in Events : e \in Nat /\ chain[e] \in Nat
    BY <1>1, MonitorAssumption DEF CollectInv, MonitorTypeOK, ChainOK, Events, Owed
  <2>2. \A t \in States : t.lastLedger \in Nat
    BY DEF States
  <2>3. \A d \in Cursors : d.ledger \in Nat
    BY DEF Cursors
  <2> HIDE DEF s, c, lo, page, new
  <2> QED BY <2>1, <2>2, <2>3, <1>4, <1>5, <1>6
<1>8. lo = st.lastLedger \/ lo <= oldest - 1 \/ (st.cursor # NoCursor /\ lo = Reached(st))
  <2>1. st.cursor = NoCursor => lo = st.lastLedger \/ lo = oldest - 1
    BY <1>7 DEF Later
  <2>2. st.cursor # NoCursor => lo = Reached(st)
    BY DEF Reached
  <2>3. lo = oldest - 1 => lo <= oldest - 1
    BY <1>5, <1>7
  <2> QED BY <2>1, <2>2, <2>3
<1>9. /\ Held = readLog /\ Held' = readLog \cup new
  BY <1>1, <1>3, <1>6 DEF Held
<1>10. readLog \subseteq seen /\ seen \subseteq Events
  BY <1>1 DEF CollectInv, LogOK
<1>11. Reached(s) = c.ledger
  BY <1>5, <1>6 DEF Reached
<1>12. st.lastLedger >= EXIT_START_LEDGER - 1
  BY <1>4 DEF PositionOK
<1>13. Reached(st) = st.lastLedger \/ st.cursor # NoCursor
  BY DEF Reached
<1>14. st.complete /\ st.cursor = NoCursor =>
          st.lastLedger >= oldest - 1 \/ st.oldestRetainedAtStart >= oldest
  BY <1>4 DEF EntryOK
<1>15. lo <= Reached(st) \/ (st.cursor = NoCursor /\ lo <= oldest - 1 /\ st.lastLedger < oldest - 1)
  <2>1. CASE st.cursor # NoCursor
    <3>1. lo = Reached(st)
      BY <2>1 DEF Reached
    <3> HIDE DEF lo
    <3> QED BY <3>1, <1>5
  <2>2. CASE st.cursor = NoCursor
    <3>1. Reached(st) = st.lastLedger
      BY <2>2 DEF Reached
    <3>2. lo = st.lastLedger \/ lo <= oldest - 1
      BY <1>8, <2>2
    <3> HIDE DEF lo
    <3> QED BY <2>2, <3>1, <3>2, <1>5, <1>7
  <2> QED BY <2>1, <2>2
<1>16. st.oldestRetainedAtStart \in Nat /\ Reached(st) \in Nat
  BY <1>4 DEF States, Cursors, Reached
\* An event up to where the position is now was behind it, or is in the page, or is
\* behind the window and before the claim of the pass.
<1>17. \A e \in Events : chain[e] <= c.ledger =>
          \/ chain[e] <= Reached(st)
          \/ e \in page
          \/ chain[e] < floor /\ (st.complete => chain[e] < st.oldestRetainedAtStart)
  <2> SUFFICES ASSUME NEW e \in Events, chain[e] <= c.ledger, e \notin page,
                      ~(chain[e] <= Reached(st))
               PROVE  chain[e] < floor /\ (st.complete => chain[e] < st.oldestRetainedAtStart)
    OBVIOUS
  <2>1. e \in page <=> lo < chain[e] /\ chain[e] <= c.ledger
    BY <1>5
  <2> DEFINE x == chain[e]
             r == Reached(st)
  <2>2. x \in Nat /\ r \in Nat /\ ~(lo < x) /\ ~(x <= r) /\ lo \in Nat
    BY <2>1, <1>5, <1>7, <1>16
  <2>3. lo <= r \/ (st.cursor = NoCursor /\ lo <= oldest - 1 /\ st.lastLedger < oldest - 1)
    BY <1>15
  <2> HIDE DEF x, r, lo
  <2>4. st.cursor = NoCursor /\ x <= oldest - 1 /\ st.lastLedger < oldest - 1
    BY <2>2, <2>3, <1>7
  <2>5. st.complete => st.oldestRetainedAtStart >= oldest
    BY <2>4, <1>14, <1>7
  <2>6. x < floor /\ (st.complete => x < st.oldestRetainedAtStart)
    BY <2>2, <2>4, <2>5, <1>7, <1>16
  <2> QED BY <2>6 DEF x
<1> HIDE DEF lo, c
<1>18. PositionOK(s) /\ s.lastLedger >= st.lastLedger /\ s.lastLedger <= c.ledger
  <2>1. s.lastLedger >= st.lastLedger /\ s.lastLedger <= c.ledger
    <3>1. CASE new = {}
      <4>1. s.lastLedger = st.lastLedger
        BY <3>1, <1>6
      <4> HIDE DEF s, new
      <4> QED BY <4>1, <1>5, <1>7
    <3>2. CASE new # {}
      <4>1. PICK e \in new : s.lastLedger = Later(st.lastLedger, chain[e])
        BY <3>2, <1>6
      <4>2. e \in Events /\ e \in page
        BY <1>6
      <4>3. chain[e] <= c.ledger /\ chain[e] \in Nat
        BY <4>2, <1>5, <1>7
      <4> HIDE DEF s, new
      <4> QED BY <4>1, <4>3, <1>5, <1>7 DEF Later
    <3> QED BY <3>1, <3>2
  <2> HIDE DEF s
  <2>2. s.lastLedger >= EXIT_START_LEDGER - 1 /\ s.lastLedger <= tip
    BY <2>1, <1>5, <1>7, <1>12
  <2> QED BY <2>1, <2>2, <1>5, <1>6 DEF PositionOK
<1>19. PositionOK(st)' /\ EntryOK(st)'
  <2>1. PositionOK(st)'
    BY <1>3, <1>18 DEF PositionOK
  <2>2. EntryOK(st)'
    BY <1>5, <1>6 DEF EntryOK
  <2> QED BY <2>1, <2>2
<1>20. \A e \in Range(batch') : chain'[e] <= Reached(s)
  BY <1>3, <1>5, <1>6, <1>11
<1>21. tears' = 0 => /\ seen' \subseteq Held'
                     /\ \A e \in Events' \ Held' : chain'[e] <= Reached(s) => Dead(e)'
                     /\ \A e \in readLog', f \in Range(batch') : e < f
  <2> SUFFICES ASSUME tears = 0
               PROVE  /\ seen' \subseteq Held'
                      /\ \A e \in Events \ Held' : chain[e] <= c.ledger => Dead(e)
                      /\ \A e \in readLog, f \in new : e < f
    BY <1>3, <1>6, <1>11
  <2>1. seen \subseteq readLog
    BY <1>1, <1>9 DEF PassInv
  <2>2. seen' \subseteq Held'
    BY <2>1, <1>6, <1>9
  <2>3. ASSUME NEW e \in Events \ Held', chain[e] <= c.ledger
        PROVE  Dead(e)
    <3>1. e \notin readLog /\ e \notin page
      BY <2>1, <2>3, <1>9
    <3>2. chain[e] <= Reached(st) => Dead(e)
      BY <3>1, <1>1, <1>9 DEF PassInv
    <3>3. chain[e] < floor => Dead(e)
      BY DEF Dead
    <3> QED BY <3>1, <3>2, <3>3, <2>3, <1>17
  <2>4. ASSUME NEW e \in readLog, NEW f \in new
        PROVE  e < f
    <3>1. f \in Events /\ f \notin readLog /\ f \in page /\ e \in Events /\ e # f
      BY <1>6, <1>10
    <3>2. f < e => Dead(f)
      BY <3>1, <1>1 DEF FileInv
    <3>3. lo < chain[f] /\ floor - 1 <= lo /\ st.lastLedger <= lo
      BY <3>1, <1>5
    <3>4. ~Dead(f)
      <4>1. chain[f] \in Nat /\ lo \in Nat
        BY <3>1, <1>5, <1>7
      <4>2. floor <= chain[f] /\ EXIT_START_LEDGER <= chain[f]
        BY <4>1, <3>3, <1>7, <1>12
      <4> QED BY <4>1, <4>2, <1>7 DEF Dead
    <3>5. e \in Nat /\ f \in Nat
      BY <3>1, <1>7
    <3> QED BY <3>1, <3>2, <3>4, <3>5
  <2> QED BY <2>2, <2>3, <2>4
<1>22. s.complete => Cardinality(Gone') + Owed <= 2 * tears
  <2> SUFFICES ASSUME st.complete PROVE Cardinality(Gone') + Owed <= 2 * tears
    BY <1>6
  <2>1. ASSUME NEW e \in Gone' PROVE e \in Gone
    <3>1. /\ e \in Events /\ e \notin readLog /\ e \notin new
          /\ e \in seen \/ e \in new
             \/ (st.oldestRetainedAtStart <= chain[e] /\ chain[e] <= c.ledger)
      BY <2>1, <1>3, <1>6, <1>9, <1>11 DEF Gone
    <3>2. CASE e \in seen
      BY <3>1, <3>2, <1>9 DEF Gone
    <3>3. CASE e \notin seen
      <4>1. st.oldestRetainedAtStart <= chain[e] /\ chain[e] <= c.ledger /\ e \notin page
        BY <3>1, <3>3
      <4>2. ~(chain[e] < st.oldestRetainedAtStart)
        BY <4>1, <3>1, <1>7, <1>16
      <4>3. chain[e] <= Reached(st)
        BY <4>1, <4>2, <3>1, <1>17
      <4> QED BY <4>1, <4>3, <3>1, <1>9 DEF Gone
    <3> QED BY <3>2, <3>3
  <2>2. Cardinality(Gone) + Owed <= 2 * tears
    BY <1>1 DEF PassInv
  <2>3. IsFiniteSet(Gone) /\ Gone' \subseteq Gone
    BY <2>1, <1>1, EventsFinite
  <2>4. Cardinality(Gone') \in Nat /\ Cardinality(Gone) \in Nat
        /\ Cardinality(Gone') <= Cardinality(Gone)
    BY <2>3, FewerCount
  <2> QED BY <2>2, <2>4, <1>7
<1>23. PassInv'
  BY <1>3, <1>19, <1>20, <1>21, <1>22 DEF PassInv
<1> QED BY <1>2, <1>23

\* A refused request: the cursor goes, and a gap makes the state incomplete.
LEMMA RefusedPageKeeps ==
  ASSUME CensusInv, RefusedPage
  PROVE  FileInv' /\ PassInv' /\ SnapshotInv'
<1> DEFINE s == st'
<1>1. /\ CollectInv /\ FileInv /\ PassInv /\ SnapshotInv
      /\ UNCHANGED fileVars /\ UNCHANGED <<snapFile, pc, oldest, seen>>
      /\ pc = "loop" /\ s = DropCursor(st) /\ stateFile' = s
  BY DEF CensusInv, RefusedPage, fileVars, rpcVars, logVars, counters
<1>2. PositionOK(st) /\ st \in States
  BY <1>1 DEF PassInv, CollectInv, MonitorTypeOK
<1>3. /\ floor \in Nat /\ tip \in Nat /\ oldest \in Nat /\ oldest <= floor /\ floor <= tip
      /\ EXIT_START_LEDGER \in Nat /\ \A e \in Events : chain[e] \in Nat
  BY <1>1, MonitorAssumption DEF CollectInv, MonitorTypeOK, ChainOK, Events
<1>4. /\ st.lastLedger \in Nat /\ Reached(st) \in Nat /\ st.lastLedger <= Reached(st)
      /\ st.lastLedger >= EXIT_START_LEDGER - 1
      /\ \/ st.lastLedger <= tip
         \/ ~st.complete /\ st.cursor = NoCursor /\ st.lastLedger = EXIT_START_LEDGER - 1
  <2>1. st.lastLedger \in Nat /\ (st.cursor # NoCursor => st.cursor.ledger \in Nat)
    BY <1>2 DEF States, Cursors
  <2> QED BY <2>1, <1>2 DEF PositionOK, Reached
<1>5. CASE st.lastLedger < oldest - 1
  <2>1. s = [st EXCEPT !.cursor = NoCursor, !.complete = FALSE, !.lastLedger = oldest - 1]
    BY <1>1, <1>5 DEF DropCursor
  <2>2. oldest - 1 \in Nat
    BY <1>3, <1>4, <1>5
  <2>3. ~s.complete /\ s.cursor = NoCursor /\ s.lastLedger = oldest - 1
    BY <2>1, <2>2, <1>2, GiveUpType
  <2> HIDE DEF s
  <2>4. Reached(s) = oldest - 1
    BY <2>3 DEF Reached
  <2>5. s.lastLedger >= EXIT_START_LEDGER - 1 /\ s.lastLedger <= tip
    BY <2>3, <1>3, <1>4, <1>5
  <2>6. PositionOK(s)
    BY <2>3, <2>5 DEF PositionOK
  <2>7. \A e \in Events : chain[e] <= Reached(s) => Dead(e)
    BY <2>4, <1>3 DEF Dead
  <2>8. NotPast(s, st) /\ EntryOK(s)
    BY <2>3, <2>6, <2>7 DEF NotPast, EntryOK
  <2>9. FileInv'
    BY <2>8, <1>1, FileSaved DEF s
  <2>10. PassInv'
    BY <2>8, <1>1, PassGoesOn DEF s
  <2> QED BY <2>9, <2>10, <1>1, SnapshotStays, FileSteps
<1>6. CASE ~(st.lastLedger < oldest - 1)
  <2>1. s = [st EXCEPT !.cursor = NoCursor]
    BY <1>1, <1>6 DEF DropCursor
  <2>2. /\ s.cursor = NoCursor /\ s.lastLedger = st.lastLedger /\ s.complete = st.complete
        /\ s.oldestRetainedAtStart = st.oldestRetainedAtStart
    BY <2>1, <1>2 DEF States
  <2> HIDE DEF s
  <2>3. Reached(s) = st.lastLedger
    BY <2>2 DEF Reached
  <2>4. s.lastLedger <= tip
        \/ (~s.complete /\ s.cursor = NoCursor /\ s.lastLedger = EXIT_START_LEDGER - 1)
    BY <2>2, <1>4
  <2>5. PositionOK(s)
    BY <2>2, <2>4, <1>4 DEF PositionOK
  <2>6. \A e \in Events : chain[e] <= Reached(s) => chain[e] <= Reached(st)
    BY <2>3, <1>3, <1>4
  <2>7. s.lastLedger >= oldest - 1
    BY <2>2, <1>3, <1>4, <1>6
  <2>8. NotPast(s, st) /\ EntryOK(s)
    BY <2>2, <2>5, <2>6, <2>7 DEF NotPast, EntryOK
  <2>9. FileInv'
    BY <2>8, <1>1, FileSaved DEF s
  <2>10. PassInv'
    BY <2>8, <1>1, PassGoesOn DEF s
  <2> QED BY <2>9, <2>10, <1>1, SnapshotStays, FileSteps
<1> QED BY <1>5, <1>6

\* The position is saved after the batch has been appended, so it is not past the log.
LEMMA SavePageKeeps ==
  ASSUME CensusInv, SavePage
  PROVE  FileInv' /\ PassInv' /\ SnapshotInv'
<1> DEFINE s == st'
<1>1. /\ CollectInv /\ FileInv /\ PassInv /\ SnapshotInv
      /\ UNCHANGED fileVars /\ UNCHANGED <<snapFile, oldest, seen>>
      /\ pc = "save" /\ pc' # "append"
  BY DEF CensusInv, SavePage, fileVars, rpcVars, logVars, counters
<1>2. /\ s.cursor = st.cursor /\ s.complete = st.complete
      /\ s.oldestRetainedAtStart = st.oldestRetainedAtStart
      /\ s.lastLedger = st.lastLedger \/ s.lastLedger = Later(st.lastLedger, st.cursor.ledger)
      /\ stateFile' = st /\ st \in States /\ st.cursor \in Cursors
  BY <1>1, SaveType
<1>3. PositionOK(st) /\ st.cursor # NoCursor
  BY <1>1, <1>2 DEF PassInv, CollectInv, MonitorTypeOK
<1>4. /\ st.lastLedger \in Nat /\ st.cursor.ledger \in Nat /\ tip \in Nat
      /\ EXIT_START_LEDGER \in Nat
  BY <1>1, <1>2, MonitorAssumption DEF States, Cursors, CollectInv, MonitorTypeOK
<1> HIDE DEF s
<1>5. Reached(s) = Reached(st)
  BY <1>2, <1>3 DEF Reached
<1>6. PositionOK(s)
  <2>1. /\ st.lastLedger <= st.cursor.ledger /\ st.cursor.ledger <= tip
        /\ st.lastLedger >= EXIT_START_LEDGER - 1
    BY <1>3 DEF PositionOK
  <2>2. /\ s.lastLedger <= st.cursor.ledger /\ s.lastLedger <= tip
        /\ s.lastLedger >= EXIT_START_LEDGER - 1
    BY <2>1, <1>2, <1>4 DEF Later
  <2> QED BY <2>2, <1>2, <1>3 DEF PositionOK
<1>7. NotPast(s, st) /\ NotPast(st, st) /\ EntryOK(s)
  BY <1>2, <1>3, <1>5, <1>6 DEF NotPast, EntryOK
<1>8. FileInv'
  BY <1>1, <1>2, <1>7, FileSaved
<1>9. PassInv'
  BY <1>1, <1>7, PassGoesOn DEF s
<1> QED BY <1>8, <1>9, <1>1, SnapshotStays, FileSteps

\* The end of the pages: the position is saved as it is.
LEMMA EndPassKeeps ==
  ASSUME CensusInv, EndPass
  PROVE  FileInv' /\ PassInv' /\ SnapshotInv'
<1>1. /\ CollectInv /\ FileInv /\ PassInv /\ SnapshotInv
      /\ UNCHANGED fileVars /\ UNCHANGED <<snapFile, st, oldest, seen>>
      /\ pc \in {"loop", "end"} /\ pc' # "append" /\ stateFile' = st
  BY DEF CensusInv, EndPass, fileVars, rpcVars, logVars, counters
<1>2. NotPast(st, st) /\ EntryOK(st)
  BY <1>1 DEF PassInv, NotPast
<1>3. FileInv'
  BY <1>1, <1>2, FileSaved
<1>4. PassInv'
  BY <1>1, <1>2, PassGoesOn
<1> QED BY <1>3, <1>4, <1>1, SnapshotStays, FileSteps

\* A pass that has nothing missing writes a census.
LEMMA WriteSnapshotKeeps ==
  ASSUME CensusInv, WriteSnapshot
  PROVE  FileInv' /\ PassInv' /\ SnapshotInv'
<1>1. /\ CollectInv /\ FileInv /\ PassInv
      /\ UNCHANGED fileVars /\ UNCHANGED stateFile
      /\ pc = "snapshot" /\ pc' = "idle"
      /\ snapFile' = [events |-> readLog, from |-> st.oldestRetainedAtStart,
                      lastLedger |-> st.lastLedger, complete |-> st.complete]
  BY DEF CensusInv, WriteSnapshot, Idle, fileVars, rpcVars, logVars, counters
<1>2. FileInv' /\ PassInv'
  BY <1>1, FileStays DEF PassInv
<1>3. UNCHANGED <<chain, tip, floor, log, tailOpen, tears>> /\ UNCHANGED Events
  BY <1>1, FileSteps
<1>4. /\ snapFile'.events = readLog /\ snapFile'.from = st.oldestRetainedAtStart
      /\ snapFile'.lastLedger = st.lastLedger /\ snapFile'.complete = st.complete
  BY <1>1
<1>5. PositionOK(st) /\ st \in States /\ Held = readLog
  BY <1>1 DEF PassInv, CollectInv, MonitorTypeOK, Held
<1>6. st.complete => st.lastLedger <= tip
  BY <1>5 DEF PositionOK
<1>7. ASSUME st.complete, tears = 0, NEW e \in Events,
             st.oldestRetainedAtStart <= chain[e], chain[e] <= st.lastLedger
      PROVE  e \in readLog
  <2>1. Cardinality(Gone) + Owed <= 2 * tears
    BY <1>1, <1>7 DEF PassInv
  <2>2. IsFiniteSet(Gone) /\ Cardinality(Gone) \in Nat /\ Owed \in Nat
    BY <1>1, EventsFinite DEF Owed
  <2>3. Cardinality(Gone) = 0
    BY <2>1, <2>2, <1>7
  <2>4. Gone = {}
    BY <2>2, <2>3, FS_EmptySet
  <2>5. chain[e] \in Nat /\ st.lastLedger \in Nat /\ st.lastLedger <= Reached(st)
        /\ Reached(st) \in Nat
    <3>1. chain[e] \in Nat /\ st.lastLedger \in Nat
          /\ (st.cursor # NoCursor => st.cursor.ledger \in Nat)
      BY <1>1, <1>5 DEF CollectInv, MonitorTypeOK, Events, States, Cursors
    <3> QED BY <3>1, <1>5 DEF Reached, PositionOK
  <2>6. chain[e] <= Reached(st)
    BY <2>5, <1>7
  <2> QED BY <2>4, <2>6, <1>5, <1>7 DEF Gone
<1>8. SnapshotInv'
  BY <1>3, <1>4, <1>6, <1>7 DEF SnapshotInv, SnapshotIsCensus
<1> QED BY <1>2, <1>8

\* A kill forgets the pass and leaves the files.
LEMMA DieKeeps ==
  ASSUME CensusInv, Die
  PROVE  FileInv' /\ PassInv' /\ SnapshotInv'
<1>1. /\ FileInv /\ SnapshotInv /\ UNCHANGED fileVars /\ UNCHANGED <<stateFile, snapFile>>
      /\ pc' = "idle"
  BY DEF CensusInv, Die, Idle, fileVars, rpcVars, logVars, counters
<1>2. PassInv'
  BY <1>1 DEF PassInv
<1> QED BY <1>1, <1>2, FileStays, SnapshotStays, FileSteps

\* --reset forgets position and snapshot and keeps the log.
LEMMA ResetKeeps ==
  ASSUME CensusInv, Reset
  PROVE  FileInv' /\ PassInv' /\ SnapshotInv'
<1>1. /\ FileInv /\ UNCHANGED fileVars /\ stateFile' = NoState /\ snapFile' = NoSnapshot
      /\ pc' = "idle"
  BY DEF CensusInv, Reset, fileVars, rpcVars, logVars, passVars
<1>2. PassInv' /\ SnapshotInv'
  BY <1>1 DEF PassInv, SnapshotInv
<1>3. /\ UNCHANGED <<chain, tip, floor, log, tailOpen, tears>>
      /\ UNCHANGED <<Events, readLog, Owed>>
      /\ OneEach => OneEach'
      /\ (\A i, j \in DOMAIN log : i < j => log[i] < log[j])
           => (\A i, j \in DOMAIN log : i < j => log[i] < log[j])'
      /\ \A e : Dead(e) => Dead(e)'
  BY <1>1, FileSteps
<1>4. OneEach' /\ (tears = 0 => \A i, j \in DOMAIN log : i < j => log[i] < log[j])'
  BY <1>1, <1>3 DEF FileInv
<1>5. (tears = 0 => \A e \in Events \ readLog : (\E f \in readLog : e < f) => Dead(e))'
  BY <1>1, <1>3 DEF FileInv
<1>6. FileInv'
  BY <1>1, <1>4, <1>5 DEF FileInv
<1> QED BY <1>2, <1>6

\* An append costs no more than an unterminated last line was already owed.
LEMMA AppendCost ==
  ASSUME CollectInv, pc = "append", UNCHANGED chain,
         NEW q \in Seq(Nat), q # <<>>, NoRepeats(q),
         Range(q) \subseteq Range(batch) \cup {Unreadable}, log' = Appended(q), NEW s
  PROVE  /\ Cardinality(Missing(s)') \in Nat /\ Cardinality(Missing(s)) \in Nat
         /\ Cardinality(Missing(s)') <= Cardinality(Missing(s)) + Owed
<1>1. /\ ~tailOpen => readLog' = readLog \cup (Range(q) \ {Unreadable})
      /\ \E x, y \in Nat :
           readLog \cup (Range(q) \ {Unreadable}) \subseteq readLog' \cup {x, y}
  BY AppendLog
<1>2. UNCHANGED Events
  BY DEF Events
<1>3. IsFiniteSet(Missing(s)) /\ tailOpen \in BOOLEAN
  BY EventsFinite DEF CollectInv, MonitorTypeOK
<1>4. CASE tailOpen
  <2>1. PICK x \in Nat, y \in Nat : readLog \subseteq readLog' \cup {x, y}
    BY <1>1
  <2>2. Missing(s)' \subseteq Missing(s) \cup {x, y}
    BY <2>1, <1>2 DEF Missing
  <2>3. Owed = 2
    BY <1>4 DEF Owed
  <2> QED BY <2>2, <2>3, <1>3, TwoMoreCount
<1>5. CASE ~tailOpen
  <2>1. Missing(s)' \subseteq Missing(s)
    BY <1>1, <1>2, <1>5 DEF Missing
  <2>2. Owed = 0
    BY <1>5 DEF Owed
  <2> QED BY <2>1, <2>2, <1>3, FewerCount
<1> QED BY <1>3, <1>4, <1>5

\* An append: what the batch holds is no longer missing, but for a first event that
\* runs into an unterminated line.
LEMMA AppendBatchKeeps ==
  ASSUME CensusInv, AppendBatch
  PROVE  FileInv' /\ PassInv' /\ SnapshotInv'
<1> DEFINE B == Range(batch)
<1>1. /\ CollectInv /\ FileInv /\ PassInv /\ SnapshotInv
      /\ UNCHANGED <<chain, tip, floor, stateFile, snapFile, st, oldest, seen, batch, tears>>
      /\ pc = "append" /\ pc' = "save" /\ log' = Appended(batch) /\ tailOpen' = FALSE
  BY DEF CensusInv, AppendBatch, rpcVars, counters
<1>2. /\ batch \in Seq(Nat) /\ batch # <<>> /\ NoRepeats(batch) /\ B \subseteq Events
      /\ Unreadable \notin B
  BY <1>1, PageToAppend
<1>3. /\ ~tailOpen => readLog' = readLog \cup (B \ {Unreadable})
      /\ \E x, y \in Nat : readLog \cup (B \ {Unreadable}) \subseteq readLog' \cup {x, y}
  BY <1>1, <1>2, AppendLog
<1>4. UNCHANGED Events /\ \A e : Dead(e) => Dead(e)'
  BY <1>1 DEF Events, Dead
<1>5. /\ Held = readLog \cup B /\ Held' = readLog'
      /\ ~tailOpen => readLog' = Held
      /\ \E x, y \in Nat : Held \subseteq Held' \cup {x, y}
  BY <1>1, <1>2, <1>3 DEF Held
<1>6. /\ tears \in Nat /\ Owed' = 0 /\ Owed = (IF tailOpen THEN 2 ELSE 0)
      /\ tears = 0 => ~tailOpen
  BY <1>1 DEF CollectInv, MonitorTypeOK, LogOK, Owed
<1>7. SnapshotInv'
  BY <1>1, SnapshotStays
<1>8. /\ PositionOK(st) /\ EntryOK(st)
      /\ \A e \in B : chain[e] <= Reached(st)
      /\ tears = 0 => /\ seen \subseteq Held
                      /\ \A e \in Events \ Held : chain[e] <= Reached(st) => Dead(e)
                      /\ \A e \in readLog, f \in B : e < f
      /\ st.complete => Cardinality(Gone) + Owed <= 2 * tears
  BY <1>1 DEF PassInv
<1>9. FileInv'
  <2>1. OneEach'
    BY <1>1, <1>4 DEF FileInv, OneEach
  <2>2. (stateFile # NoState => PositionOK(stateFile))'
    BY <1>1, <1>4 DEF FileInv, PositionOK
  <2>3. (tears = 0 => \A i, j \in DOMAIN log : i < j => log[i] < log[j])'
    <3> SUFFICES ASSUME tears = 0, NEW i \in DOMAIN log', NEW j \in DOMAIN log', i < j
                 PROVE  log'[i] < log'[j]
      BY <1>1
    <3>1. log \in Seq(Nat)
      BY <1>1 DEF CollectInv, MonitorTypeOK
    <3> DEFINE n == Len(log)
               m == Len(batch)
    <3>2. /\ log' \in Seq(Nat) /\ Len(log') = n + m
          /\ \A k \in 1 .. (n + m) : log'[k] = IF k <= n THEN log[k] ELSE batch[k - n]
      BY <3>1, <1>1, <1>2, <1>6, AppendedLines
    <3>3. n \in Nat /\ m \in Nat /\ DOMAIN log = 1 .. n /\ DOMAIN batch = 1 .. m
          /\ DOMAIN log' = 1 .. (n + m)
          /\ (\A k \in 1 .. n : log[k] \in Range(log)) /\ (\A k \in 1 .. m : batch[k] \in B)
          /\ (\A k \in 1 .. n : log[k] \in Nat) /\ (\A k \in 1 .. m : batch[k] \in Nat)
      BY <3>1, <3>2, <1>2, InRange
    <3>4. \A k, l \in DOMAIN log : k < l => log[k] < log[l]
      BY <1>1 DEF FileInv
    <3>5. \A k, l \in DOMAIN batch : k < l => batch[k] < batch[l]
      BY <1>1 DEF CollectInv, LogOK
    <3>6. ASSUME NEW k \in 1 .. n, NEW l \in 1 .. m
          PROVE  log[k] < batch[l]
      <4>1. batch[l] \in B /\ batch[l] \in Nat /\ log[k] \in Range(log) /\ log[k] \in Nat
        BY <3>3
      <4>2. CASE log[k] = Unreadable
        <5>1. batch[l] # Unreadable
          BY <4>1, <1>2
        <5> QED BY <4>1, <4>2, <5>1 DEF Unreadable
      <4>3. CASE log[k] # Unreadable
        <5>1. log[k] \in readLog
          BY <4>1, <4>3 DEF readLog
        <5> QED BY <5>1, <4>1, <1>8
      <4> QED BY <4>2, <4>3
    <3> HIDE DEF n, m
    <3>7. i \in 1 .. (n + m) /\ j \in 1 .. (n + m)
      BY <3>3
    <3>8. CASE j <= n
      <4>1. i \in 1 .. n /\ j \in 1 .. n /\ log'[i] = log[i] /\ log'[j] = log[j]
        BY <3>8, <3>2, <3>3, <3>7
      <4> QED BY <4>1, <3>3, <3>4
    <3>9. CASE i <= n /\ ~(j <= n)
      <4>1. /\ i \in 1 .. n /\ j - n \in 1 .. m
            /\ log'[i] = log[i] /\ log'[j] = batch[j - n]
        BY <3>9, <3>2, <3>3, <3>7
      <4> QED BY <4>1, <3>6
    <3>10. CASE ~(i <= n)
      <4>1. /\ i - n \in 1 .. m /\ j - n \in 1 .. m /\ i - n < j - n /\ ~(j <= n)
        BY <3>10, <3>3, <3>7
      <4>2. log'[i] = batch[i - n] /\ log'[j] = batch[j - n]
        BY <4>1, <3>10, <3>2, <3>7
      <4> QED BY <4>1, <4>2, <3>3, <3>5
    <3> QED BY <3>8, <3>9, <3>10, <3>3, <3>7
  <2>4. (tears = 0 => \A e \in Events \ readLog :
                        \/ \E f \in readLog : e < f
                        \/ stateFile # NoState /\ chain[e] <= Reached(stateFile)
                        => Dead(e))'
    <3> SUFFICES ASSUME tears = 0, NEW e \in Events, e \notin Held,
                        \/ \E f \in Held : e < f
                        \/ stateFile # NoState /\ chain[e] <= Reached(stateFile)
                 PROVE  Dead(e)
      BY <1>1, <1>4, <1>5, <1>6
    <3>1. e \notin readLog
      BY <1>5
    <3>2. CASE (\E f \in readLog : e < f) \/ (stateFile # NoState /\ chain[e] <= Reached(stateFile))
      BY <3>1, <3>2, <1>1 DEF FileInv
    <3>3. CASE \E f \in B : e < f
      <4>1. PICK f \in B : e < f
        BY <3>3
      <4>2. chain[e] < chain[f] /\ chain[f] <= Reached(st)
        BY <4>1, <1>1, <1>2, <1>8 DEF FileInv, OneEach
      <4>3. chain[e] \in Nat /\ chain[f] \in Nat /\ Reached(st) \in Nat
        <5>1. st \in States
          BY <1>1 DEF CollectInv, MonitorTypeOK
        <5>2. Reached(st) \in Nat
          BY <5>1 DEF States, Cursors, Reached
        <5> QED BY <5>2, <4>1, <1>1, <1>2 DEF CollectInv, MonitorTypeOK, Events
      <4>4. chain[e] <= Reached(st)
        BY <4>2, <4>3
      <4> QED BY <4>4, <1>8
    <3> QED BY <3>2, <3>3, <1>5
  <2>5. ((stateFile # NoState /\ stateFile.complete) =>
             Cardinality(Missing(stateFile)) + Owed <= 2 * tears)'
    <3> DEFINE s == stateFile
    <3> SUFFICES ASSUME s # NoState, s.complete
                 PROVE  Cardinality(Missing(s)') <= 2 * tears
      <4>1. Missing(stateFile)' = {e \in Events' \ readLog' :
                s.oldestRetainedAtStart <= chain'[e] /\ chain'[e] <= Reached(s)}
        BY <1>1 DEF Missing
      <4>2. Missing(s)' \subseteq Events'
        BY DEF Missing
      <4>3. Cardinality(Missing(s)') \in Nat
        <5>1. IsFiniteSet(Events) /\ Missing(s)' \subseteq Events
          BY <4>2, <1>1, <1>4, EventsFinite
        <5> HIDE DEF s
        <5> QED BY <5>1, FS_Subset, FS_CardinalityType
      <4> QED BY <4>1, <4>3, <1>1, <1>6 DEF Missing
    <3>1. Cardinality(Missing(s)) + Owed <= 2 * tears
      BY <1>1 DEF FileInv
    <3>2. Range(batch) \subseteq Range(batch) \cup {Unreadable}
      OBVIOUS
    <3>3. /\ Cardinality(Missing(s)') \in Nat /\ Cardinality(Missing(s)) \in Nat
          /\ Cardinality(Missing(s)') <= Cardinality(Missing(s)) + Owed
      BY <3>2, <1>1, <1>2, AppendCost
    <3> QED BY <3>1, <3>3, <1>6
  <2> QED BY <2>1, <2>2, <2>3, <2>4, <2>5 DEF FileInv
<1>10. PassInv'
  <2>1. PositionOK(st)' /\ EntryOK(st)'
    BY <1>1, <1>4, <1>8 DEF PositionOK, EntryOK
  <2>2. tears' = 0 => /\ seen' \subseteq Held'
                      /\ \A e \in Events' \ Held' : chain'[e] <= Reached(st') => Dead(e)'
    BY <1>1, <1>4, <1>5, <1>6, <1>8
  <2>3. st.complete => Cardinality(Gone') <= 2 * tears /\ Cardinality(Gone') \in Nat
    <3> SUFFICES ASSUME st.complete
                 PROVE  Cardinality(Gone') <= 2 * tears /\ Cardinality(Gone') \in Nat
      OBVIOUS
    <3>1. Cardinality(Gone) + Owed <= 2 * tears
      BY <1>8
    <3>2. IsFiniteSet(Gone)
      BY <1>1, EventsFinite
    <3>3. CASE tailOpen
      <4>1. PICK x \in Nat, y \in Nat : Held \subseteq Held' \cup {x, y}
        BY <1>5
      <4>2. Gone' \subseteq Gone \cup {x, y}
        <5>1. \A e \in Gone' : e \in Gone \cup {x, y}
          BY <4>1, <1>1, <1>4 DEF Gone
        <5> QED BY <5>1
      <4>3. Cardinality(Gone') \in Nat /\ Cardinality(Gone) \in Nat
            /\ Cardinality(Gone') <= Cardinality(Gone) + 2
        BY <4>2, <3>2, TwoMoreCount
      <4> QED BY <4>3, <3>1, <3>3, <1>6
    <3>4. CASE ~tailOpen
      <4>1. Gone' \subseteq Gone
        <5>1. \A e \in Gone' : e \in Gone
          BY <3>4, <1>1, <1>4, <1>5 DEF Gone
        <5> QED BY <5>1
      <4>2. Cardinality(Gone') \in Nat /\ Cardinality(Gone) \in Nat
            /\ Cardinality(Gone') <= Cardinality(Gone)
        BY <4>1, <3>2, FewerCount
      <4> QED BY <4>2, <3>1, <3>4, <1>6
    <3> QED BY <3>3, <3>4
  <2>4. st'.complete => Cardinality(Gone') + Owed' <= 2 * tears'
    BY <2>3, <1>1, <1>6
  <2> QED BY <2>1, <2>2, <2>4, <1>1 DEF PassInv
<1> QED BY <1>7, <1>9, <1>10

\* A torn append takes two more events out of what the files promise.
LEMMA TearBatchKeeps ==
  ASSUME CensusInv, TearBatch
  PROVE  FileInv' /\ PassInv' /\ SnapshotInv'
<1>1. /\ CollectInv /\ FileInv /\ SnapshotInv
      /\ UNCHANGED <<chain, tip, floor, stateFile, snapFile>>
      /\ pc = "append" /\ pc' = "idle" /\ tears' = tears + 1 /\ tailOpen' = TRUE
  BY DEF CensusInv, TearBatch, Idle, rpcVars
<1>2. PICK whole \in 0 .. (Len(batch) - 1) :
        \E cut \in {Unreadable, batch[whole + 1]} :
          log' = Appended(SubSeq(batch, 1, whole) \o <<cut>>)
  BY DEF TearBatch
<1>3. PICK cut \in {Unreadable, batch[whole + 1]} :
          log' = Appended(SubSeq(batch, 1, whole) \o <<cut>>)
  BY <1>2
<1> DEFINE q == SubSeq(batch, 1, whole) \o <<cut>>
<1>4. /\ q \in Seq(Nat) /\ q # <<>> /\ NoRepeats(q)
      /\ Range(q) \subseteq Range(batch) \cup {Unreadable}
  BY <1>1, TornPage
<1>5. log' = Appended(q)
  BY <1>3
<1> HIDE DEF q
<1>6. tears \in Nat /\ tears' > 0 /\ tears' # 0 /\ Owed' = 2 /\ Owed \in Nat
  BY <1>1 DEF CollectInv, MonitorTypeOK, Owed
<1>7. PassInv' /\ SnapshotInv'
  BY <1>1, <1>6, SnapshotStays DEF PassInv
<1>8. UNCHANGED Events
  BY <1>1 DEF Events
<1>9. OneEach' /\ (stateFile # NoState => PositionOK(stateFile))'
  BY <1>1, <1>8 DEF FileInv, OneEach, PositionOK
<1>10. ((stateFile # NoState /\ stateFile.complete) =>
           Cardinality(Missing(stateFile)) + Owed <= 2 * tears)'
  <2> DEFINE s == stateFile
  <2>1. Missing(stateFile)' = Missing(s)'
    BY DEF Missing
  <2>2. /\ Cardinality(Missing(s)') \in Nat /\ Cardinality(Missing(s)) \in Nat
        /\ Cardinality(Missing(s)') <= Cardinality(Missing(s)) + Owed
    BY <1>1, <1>4, <1>5, AppendCost
  <2>3. (s # NoState /\ s.complete) => Cardinality(Missing(s)) + Owed <= 2 * tears
    BY <1>1 DEF FileInv
  <2>4. (s # NoState /\ s.complete) => Cardinality(Missing(s)') + 2 <= 2 * (tears + 1)
    BY <2>2, <2>3, <1>6
  <2> QED BY <2>4, <1>1, <1>6
<1>11. FileInv'
  BY <1>6, <1>9, <1>10 DEF FileInv
<1> QED BY <1>7, <1>11

-----------------------------------------------------------------------------
(* The steps of the chain.                                                 *)

\* A ledger that closes brings events that are ahead of every position.
LEMMA CloseLedgerKeeps ==
  ASSUME CensusInv, EventsPerLedger <= 1, CloseLedger
  PROVE  FileInv' /\ PassInv' /\ SnapshotInv'
<1>1. /\ CollectInv /\ FileInv /\ PassInv /\ SnapshotInv
      /\ UNCHANGED <<floor, log, tailOpen, stateFile, snapFile, tears>>
      /\ UNCHANGED <<pc, st, oldest, seen, batch>>
  BY DEF CensusInv, CloseLedger, logVars, passVars, counters
<1>2. /\ tip' = tip + 1 /\ chain' \in Seq(Nat)
      /\ Events = 1 .. Len(chain) /\ Events' = 1 .. Len(chain') /\ Len(chain) \in Nat
      /\ Events \subseteq Events' /\ Len(chain) <= Len(chain')
      /\ Len(chain') <= Len(chain) + EventsPerLedger
      /\ \A e \in Events : chain'[e] = chain[e]
      /\ \A e \in Events' \ Events : chain'[e] = tip + 1 /\ e > Len(chain)
  BY <1>1, ClosedLedger
<1>3. /\ tip \in Nat /\ Len(chain') \in Nat /\ EventsPerLedger \in Nat /\ EXIT_START_LEDGER \in Nat
      /\ \A e \in Events' : e \in Nat
      /\ \A e \in Events : chain[e] \in Nat /\ chain[e] <= tip
  BY <1>1, <1>2, MonitorAssumption DEF CollectInv, MonitorTypeOK, ChainOK, Events
<1>4. UNCHANGED readLog /\ UNCHANGED Owed /\ UNCHANGED Held
  BY <1>1 DEF readLog, Owed, Held
<1>5. readLog \subseteq Events /\ Held \subseteq Events
      /\ (pc # "idle" => seen \subseteq Events)
  BY <1>1 DEF CollectInv, LogOK, Held
<1>6. \A e \in Events : Dead(e) => Dead(e)'
  BY <1>1, <1>2 DEF Dead
<1>7. OneEach'
  <2> SUFFICES ASSUME NEW e \in Events', NEW f \in Events', e < f
               PROVE  chain'[e] < chain'[f]
    BY DEF OneEach
  <2>1. CASE f \in Events
    <3>1. e \in Events
      BY <2>1, <1>2, <1>3
    <3> QED BY <2>1, <3>1, <1>1, <1>2 DEF FileInv, OneEach
  <2>2. CASE f \notin Events
    <3>1. e \in Events
      BY <2>2, <1>2, <1>3
    <3>2. chain'[f] = tip + 1 /\ chain'[e] = chain[e] /\ chain[e] <= tip /\ chain[e] \in Nat
      BY <2>2, <3>1, <1>2, <1>3
    <3> QED BY <3>2, <1>3
  <2> QED BY <2>1, <2>2
\* What a position says of the chain as it was, it says of the longer one.
<1>8. ASSUME NEW s \in States, PositionOK(s)
      PROVE  /\ s.lastLedger >= EXIT_START_LEDGER - 1
             /\ \/ s.lastLedger <= tip'
                \/ ~s.complete /\ s.cursor = NoCursor /\ s.lastLedger = EXIT_START_LEDGER - 1
             /\ s.cursor # NoCursor =>
                   /\ s.lastLedger <= s.cursor.ledger /\ s.cursor.ledger <= tip'
                   /\ s.cursor.after <= Len(chain')
                   /\ \A e \in Events' : e > s.cursor.after <=> chain'[e] > s.cursor.ledger
  <2>1. s.lastLedger \in Nat
    BY DEF States
  <2>2. s.lastLedger <= tip => s.lastLedger <= tip'
    BY <2>1, <1>2, <1>3
  <2>3. ASSUME s.cursor # NoCursor
        PROVE  /\ s.lastLedger <= s.cursor.ledger /\ s.cursor.ledger <= tip'
               /\ s.cursor.after <= Len(chain')
               /\ \A e \in Events' : e > s.cursor.after <=> chain'[e] > s.cursor.ledger
    <3> DEFINE a == s.cursor.after
               l == s.cursor.ledger
    <3>1. a \in Nat /\ l \in Nat
      BY <2>3 DEF States, Cursors
    <3>2. /\ s.lastLedger <= l /\ l <= tip /\ a <= Len(chain)
          /\ \A e \in Events : e > a <=> chain[e] > l
      BY <2>3, <1>8 DEF PositionOK
    <3> HIDE DEF a, l
    <3>3. l <= tip' /\ a <= Len(chain')
      BY <3>1, <3>2, <1>2, <1>3
    <3>4. ASSUME NEW e \in Events' PROVE e > a <=> chain'[e] > l
      <4>1. CASE e \in Events
        BY <4>1, <3>2, <1>2
      <4>2. CASE e \notin Events
        <5>1. chain'[e] = tip + 1 /\ e > Len(chain) /\ e \in Nat
          BY <4>2, <1>2, <1>3
        <5> QED BY <5>1, <3>1, <3>2, <1>2, <1>3
      <4> QED BY <4>1, <4>2
    <3> QED BY <3>2, <3>3, <3>4 DEF a, l
  <2> QED BY <2>2, <2>3, <1>8 DEF PositionOK
<1>9. ASSUME NEW s \in States, PositionOK(s), NEW e \in Events' \ Events, chain'[e] <= Reached(s)
      PROVE  ~s.complete /\ Dead(e)'
  <2>1. chain'[e] = tip + 1
    BY <1>2
  <2>2. Reached(s) \in Nat
    BY DEF States, Cursors, Reached
  <2>3. ~(Reached(s) <= tip)
    BY <2>1, <2>2, <1>3, <1>9
  <2>4. s.cursor = NoCursor /\ Reached(s) = s.lastLedger
    BY <2>3, <1>9 DEF PositionOK, Reached
  <2>5. ~s.complete /\ Reached(s) = EXIT_START_LEDGER - 1
    BY <2>3, <2>4, <1>9 DEF PositionOK
  <2>6. chain'[e] < EXIT_START_LEDGER
    BY <2>1, <2>5, <1>3, <1>9
  <2> QED BY <2>5, <2>6 DEF Dead
<1>10. stateFile # NoState => stateFile \in States /\ PositionOK(stateFile)
  BY <1>1 DEF CollectInv, MonitorTypeOK, FileInv
<1>11. FileInv'
  <2>1. (stateFile # NoState => PositionOK(stateFile))'
    BY <1>1, <1>8, <1>10 DEF PositionOK
  <2>2. (tears = 0 => \A i, j \in DOMAIN log : i < j => log[i] < log[j])'
    BY <1>1 DEF FileInv
  <2>3. (tears = 0 => \A e \in Events \ readLog :
                        \/ \E f \in readLog : e < f
                        \/ stateFile # NoState /\ chain[e] <= Reached(stateFile)
                        => Dead(e))'
    <3> SUFFICES ASSUME tears = 0, NEW e \in Events', e \notin readLog,
                        \/ \E f \in readLog : e < f
                        \/ stateFile # NoState /\ chain'[e] <= Reached(stateFile)
                 PROVE  Dead(e)'
      BY <1>1, <1>4
    <3>1. CASE e \in Events
      <4>1. chain'[e] = chain[e]
        BY <3>1, <1>2
      <4>2. Dead(e)
        BY <3>1, <4>1, <1>1 DEF FileInv
      <4> QED BY <3>1, <4>2, <1>6
    <3>2. CASE e \notin Events
      <4>1. ASSUME NEW f \in readLog, e < f PROVE FALSE
        BY <4>1, <3>2, <1>2, <1>3, <1>5
      <4>2. stateFile # NoState /\ chain'[e] <= Reached(stateFile)
        BY <4>1
      <4> QED BY <3>2, <4>2, <1>9, <1>10
    <3> QED BY <3>1, <3>2
  <2>4. (stateFile # NoState /\ stateFile.complete) => Missing(stateFile)' = Missing(stateFile)
    <3> SUFFICES ASSUME stateFile # NoState, stateFile.complete
                 PROVE  Missing(stateFile)' = Missing(stateFile)
      OBVIOUS
    <3>1. \A e \in Events' \ Events : ~(chain'[e] <= Reached(stateFile))
      BY <1>9, <1>10
    <3> QED BY <3>1, <1>1, <1>2, <1>4 DEF Missing
  <2>5. ((stateFile # NoState /\ stateFile.complete) =>
             Cardinality(Missing(stateFile)) + Owed <= 2 * tears)'
    BY <2>4, <1>1, <1>4 DEF FileInv
  <2> QED BY <1>7, <2>1, <2>2, <2>3, <2>5 DEF FileInv
<1>12. PassInv'
  <2> SUFFICES ASSUME pc # "idle" PROVE PassInv'
    BY <1>1 DEF PassInv
  <2>1. st \in States /\ PositionOK(st) /\ EntryOK(st) /\ seen \subseteq Events
    BY <1>1, <1>5 DEF CollectInv, MonitorTypeOK, PassInv
  <2>2. PositionOK(st)' /\ EntryOK(st)'
    <3>1. PositionOK(st)'
      BY <2>1, <1>1, <1>8 DEF PositionOK
    <3>2. EntryOK(st)'
      BY <2>1, <1>1 DEF EntryOK
    <3> QED BY <3>1, <3>2
  <2>3. (pc = "append" => \A e \in Range(batch) : chain[e] <= Reached(st))'
    BY <1>1, <1>2, <1>5 DEF PassInv, Held
  <2>4. (tears = 0 => /\ seen \subseteq Held
                      /\ \A e \in Events \ Held : chain[e] <= Reached(st) => Dead(e)
                      /\ pc = "append" => \A e \in readLog, f \in Range(batch) : e < f)'
    <3> SUFFICES ASSUME tears = 0, NEW e \in Events', e \notin Held, chain'[e] <= Reached(st)
                 PROVE  Dead(e)'
      BY <1>1, <1>4 DEF PassInv
    <3>1. CASE e \in Events
      <4>1. chain'[e] = chain[e]
        BY <3>1, <1>2
      <4>2. Dead(e)
        BY <3>1, <4>1, <1>1 DEF PassInv
      <4> QED BY <3>1, <4>2, <1>6
    <3>2. CASE e \notin Events
      BY <3>2, <2>1, <1>9
    <3> QED BY <3>1, <3>2
  <2>5. st.complete => Gone' = Gone
    <3> SUFFICES ASSUME st.complete PROVE Gone' = Gone
      OBVIOUS
    <3>1. \A e \in Events' \ Events : ~(chain'[e] <= Reached(st))
      BY <2>1, <1>9
    <3> QED BY <3>1, <2>1, <1>1, <1>2, <1>4 DEF Gone
  <2>6. (st.complete => Cardinality(Gone) + Owed <= 2 * tears)'
    BY <2>5, <1>1, <1>4 DEF PassInv
  <2> QED BY <2>2, <2>3, <2>4, <2>6 DEF PassInv
<1>13. SnapshotInv'
  <2> SUFFICES ASSUME snapFile # NoSnapshot, snapFile.complete
               PROVE  snapFile.lastLedger <= tip' /\ SnapshotIsCensus'
    BY <1>1 DEF SnapshotInv
  <2>1. snapFile.lastLedger \in Nat /\ snapFile.lastLedger <= tip /\ SnapshotIsCensus
    BY <1>1 DEF CollectInv, MonitorTypeOK, Snapshots, SnapshotInv
  <2>2. \A e \in Events' \ Events : ~(chain'[e] <= snapFile.lastLedger)
    BY <2>1, <1>2, <1>3
  <2>3. SnapshotIsCensus'
    BY <2>1, <2>2, <1>1, <1>2 DEF SnapshotIsCensus
  <2> QED BY <2>1, <2>3, <1>2, <1>3
<1> QED BY <1>11, <1>12, <1>13

\* What falls out of the window is dead, and stays so.
LEMMA ForgetLedgerKeeps ==
  ASSUME CensusInv, ForgetLedger
  PROVE  FileInv' /\ PassInv' /\ SnapshotInv'
<1>1. /\ CollectInv /\ FileInv /\ PassInv /\ SnapshotInv
      /\ UNCHANGED <<chain, tip, log, tailOpen, stateFile, snapFile, tears>>
      /\ UNCHANGED <<pc, st, oldest, seen, batch>>
      /\ floor' = floor + 1
  BY DEF CensusInv, ForgetLedger, logVars, passVars, counters
<1>2. /\ floor \in Nat /\ \A e \in Events : chain[e] \in Nat
  BY <1>1 DEF CollectInv, MonitorTypeOK, Events
<1>3. UNCHANGED <<Events, readLog, Owed>>
  BY <1>1 DEF Events, readLog, Owed
<1>4. UNCHANGED Held
  BY <1>1, <1>3 DEF Held
<1>5. \A e \in Events : Dead(e) => Dead(e)'
  BY <1>1, <1>2 DEF Dead
<1>6. FileInv'
  <2>1. OneEach' /\ (stateFile # NoState => PositionOK(stateFile))'
    BY <1>1, <1>3 DEF FileInv, OneEach, PositionOK
  <2>2. (tears = 0 => \A i, j \in DOMAIN log : i < j => log[i] < log[j])'
    BY <1>1 DEF FileInv
  <2>3. (tears = 0 => \A e \in Events \ readLog :
                        \/ \E f \in readLog : e < f
                        \/ stateFile # NoState /\ chain[e] <= Reached(stateFile)
                        => Dead(e))'
    BY <1>1, <1>3, <1>5 DEF FileInv
  <2>4. Missing(stateFile)' = Missing(stateFile)
    BY <1>1, <1>3 DEF Missing
  <2>5. ((stateFile # NoState /\ stateFile.complete) =>
             Cardinality(Missing(stateFile)) + Owed <= 2 * tears)'
    BY <2>4, <1>1, <1>3 DEF FileInv
  <2> QED BY <2>1, <2>2, <2>3, <2>5 DEF FileInv
<1>7. PassInv'
  <2>1. UNCHANGED Gone
    BY <1>1, <1>3, <1>4 DEF Gone
  <2>2. /\ PositionOK(st) => PositionOK(st)'
        /\ EntryOK(st) => EntryOK(st)'
    BY <1>1, <1>3 DEF PositionOK, EntryOK
  <2> QED BY <2>1, <2>2, <1>1, <1>3, <1>4, <1>5 DEF PassInv
<1>8. SnapshotInv'
  BY <1>1, SnapshotStays
<1> QED BY <1>6, <1>7, <1>8

-----------------------------------------------------------------------------
(* Coverage is declared.                                                   *)

\* Nothing has happened and nothing is missing.
LEMMA CensusInit ==
  ASSUME MonitorInit
  PROVE  CensusInv
<1>1. CollectInv
  BY CollectInit
<1>2. Events = {} /\ DOMAIN log = {} /\ stateFile = NoState /\ snapFile = NoSnapshot
      /\ pc = "idle"
  BY DEF MonitorInit, Events
<1> QED BY <1>1, <1>2 DEF CensusInv, FileInv, PassInv, SnapshotInv, OneEach

\* With one event per ledger every step of MonitorNext keeps the invariant.
LEMMA CensusStep ==
  ASSUME CensusInv, EventsPerLedger <= 1, [MonitorNext]_monitorVars
  PROVE  CensusInv'
<1>1. CollectInv /\ CollectInv'
  BY CollectStep DEF CensusInv
<1>2. FileInv' /\ PassInv' /\ SnapshotInv'
  <2>1. CASE UNCHANGED monitorVars
    <3>1. /\ UNCHANGED fileVars /\ UNCHANGED <<stateFile, snapFile>>
          /\ UNCHANGED <<pc, st, oldest, seen, batch>> /\ UNCHANGED <<chain, tip, tears>>
      BY <2>1 DEF monitorVars, rpcVars, logVars, passVars, counters, fileVars
    <3> QED BY <3>1, FileStays, PassStays, SnapshotStays DEF CensusInv
  <2>2. CASE BeginPass
    BY <2>2, BeginPassKeeps
  <2>3. CASE FetchPage
    BY <2>3, FetchPageKeeps
  <2>4. CASE RefusedPage
    BY <2>4, RefusedPageKeeps
  <2>5. CASE AppendBatch
    BY <2>5, AppendBatchKeeps
  <2>6. CASE SavePage
    BY <2>6, SavePageKeeps
  <2>7. CASE EndPass
    BY <2>7, EndPassKeeps
  <2>8. CASE WriteSnapshot
    BY <2>8, WriteSnapshotKeeps
  <2>9. CASE TearBatch
    BY <2>9, TearBatchKeeps
  <2>10. CASE Die
    BY <2>10, DieKeeps
  <2>11. CASE Reset
    BY <2>11, ResetKeeps
  <2>12. CASE CloseLedger
    BY <2>12, CloseLedgerKeeps
  <2>13. CASE ForgetLedger
    BY <2>13, ForgetLedgerKeeps
  <2> QED BY <2>1, <2>2, <2>3, <2>4, <2>5, <2>6, <2>7, <2>8, <2>9, <2>10, <2>11, <2>12, <2>13
          DEF MonitorNext, PassStep
<1> QED BY <1>1, <1>2 DEF CensusInv

\* With at most one event in a ledger the invariant holds in every reachable state.
LEMMA CensusHolds ==
  ASSUME EventsPerLedger <= 1
  PROVE  MonitorSpec => []CensusInv
<1>1. MonitorInit => CensusInv
  BY CensusInit
<1>2. CensusInv /\ [MonitorNext]_monitorVars => CensusInv'
  BY CensusStep
<1> QED BY <1>1, <1>2, PTL DEF MonitorSpec

\* As long as the state file says complete, all but two events per torn append can be
\* read in the log or are still to come, through kills between any two steps, cursors
\* that expire and a window that moves under a pass.
THEOREM CoverageIsDeclared ==
  ASSUME EventsPerLedger <= 1
  PROVE  MonitorSpec => []NothingSkipped
<1>1. MonitorSpec => []CensusInv
  BY CensusHolds
<1>2. CensusInv => NothingSkipped
  <2> SUFFICES ASSUME CensusInv, stateFile # NoState, stateFile.complete
               PROVE  Cardinality({e \in Events : /\ chain[e] >= stateFile.oldestRetainedAtStart
                                                  /\ e \notin readLog /\ ~Ahead(stateFile, e)})
                        <= 2 * tears
    BY DEF NothingSkipped
  <2>1. /\ CollectInv /\ stateFile \in States /\ PositionOK(stateFile)
        /\ Cardinality(Missing(stateFile)) + Owed <= 2 * tears
    BY DEF CensusInv, CollectInv, MonitorTypeOK, FileInv
  <2>2. \A e \in Events : Ahead(stateFile, e) <=> chain[e] > Reached(stateFile)
    BY <2>1, AheadIsLater
  <2>3. /\ \A e \in Events : chain[e] \in Nat
        /\ stateFile.oldestRetainedAtStart \in Nat /\ Reached(stateFile) \in Nat
    BY <2>1 DEF CollectInv, MonitorTypeOK, Events, States, Cursors, Reached
  <2>4. \A e \in Events :
          /\ chain[e] >= stateFile.oldestRetainedAtStart
               <=> stateFile.oldestRetainedAtStart <= chain[e]
          /\ ~Ahead(stateFile, e) <=> chain[e] <= Reached(stateFile)
    BY <2>2, <2>3
  <2>5. {e \in Events : /\ chain[e] >= stateFile.oldestRetainedAtStart
                        /\ e \notin readLog /\ ~Ahead(stateFile, e)} = Missing(stateFile)
    BY <2>4 DEF Missing
  <2>6. Cardinality(Missing(stateFile)) \in Nat /\ Owed \in Nat /\ tears \in Nat
    BY <2>1, EventsFinite DEF Owed, CollectInv, MonitorTypeOK
  <2>7. Cardinality(Missing(stateFile)) <= 2 * tears
    BY <2>1, <2>6
  <2> QED BY <2>5, <2>7
<1> QED BY <1>1, <1>2, PTL

\* The log is in the order of the chain, without repeats, unless an append was torn;
\* after a tear there are still no repeats.
THEOREM LogKeepsOrder ==
  ASSUME EventsPerLedger <= 1
  PROVE  MonitorSpec => []LogInOrder
<1>1. MonitorSpec => []CensusInv
  BY CensusHolds
<1>2. CensusInv => LogInOrder
  <2> SUFFICES ASSUME CensusInv, NEW i \in DOMAIN log, NEW j \in DOMAIN log, i < j
               PROVE  \/ log[i] # log[j] /\ tears > 0
                      \/ log[i] = Unreadable
                      \/ log[i] < log[j]
    BY DEF LogInOrder
  <2>1. /\ NoRepeats(log) /\ tears \in Nat /\ log \in Seq(Nat)
        /\ tears = 0 => \A k, l \in DOMAIN log : k < l => log[k] < log[l]
    BY DEF CensusInv, CollectInv, MonitorTypeOK, LogOK, FileInv
  <2>2. i # j
    BY <2>1
  <2>3. CASE tears = 0
    BY <2>1, <2>3
  <2>4. CASE tears > 0
    BY <2>1, <2>2, <2>4 DEF NoRepeats
  <2> QED BY <2>1, <2>3, <2>4
<1> QED BY <1>1, <1>2, PTL

\* A snapshot that says complete is a census up to its last ledger.
THEOREM CompleteIsCensus ==
  ASSUME EventsPerLedger <= 1
  PROVE  MonitorSpec => []SnapshotIsCensus
<1>1. MonitorSpec => []CensusInv
  BY CensusHolds
<1>2. CensusInv => SnapshotIsCensus
  BY DEF CensusInv, SnapshotInv, SnapshotIsCensus
<1> QED BY <1>1, <1>2, PTL

\* With one event per ledger, re-entering at a ledger that was reached costs nothing:
\* what the run partial_ledger loses is the rest of a ledger that a cursor stood in.
THEOREM ReentryIsFree ==
  ASSUME EventsPerLedger <= 1
  PROVE  MonitorSpec => ReentryCostsNothing
<1> DEFINE Free == (RefusedPage /\ oldest = floor /\ st'.complete) =>
                      \A e \in Events : Ahead(st, e) => Ahead(st', e)
<1>1. MonitorSpec => []CensusInv
  BY CensusHolds
<1>2. CensusInv => Free
  <2> SUFFICES ASSUME CensusInv, RefusedPage, st'.complete, NEW e \in Events, Ahead(st, e)
               PROVE  Ahead(st', e)
    OBVIOUS
  <2>1. /\ st \in States /\ PositionOK(st) /\ oldest \in Nat /\ chain[e] \in Nat
        /\ st' = DropCursor(st)
    BY DEF CensusInv, CollectInv, MonitorTypeOK, PassInv, Events, RefusedPage
  <2>2. ~(st.lastLedger < oldest - 1)
    <3> SUFFICES ASSUME st.lastLedger < oldest - 1 PROVE ~st'.complete
      OBVIOUS
    <3>1. oldest - 1 \in Nat
      BY <2>1 DEF States
    <3> QED BY <2>1, <3>1, GiveUpType DEF DropCursor
  <2>3. st' = [st EXCEPT !.cursor = NoCursor]
    BY <2>1, <2>2 DEF DropCursor
  <2>4. st'.cursor = NoCursor /\ st'.lastLedger = st.lastLedger
    BY <2>1, <2>3 DEF States
  <2>5. chain[e] > Reached(st)
    BY <2>1, AheadIsLater
  <2>6. st.lastLedger \in Nat /\ Reached(st) \in Nat /\ st.lastLedger <= Reached(st)
    <3>1. st.lastLedger \in Nat /\ (st.cursor # NoCursor => st.cursor.ledger \in Nat)
      BY <2>1 DEF States, Cursors
    <3> QED BY <3>1, <2>1 DEF PositionOK, Reached
  <2>7. chain[e] > st.lastLedger
    BY <2>1, <2>5, <2>6
  <2> QED BY <2>4, <2>7 DEF Ahead
<1>3. []CensusInv => [][Free]_monitorVars
  BY <1>2, PTL
<1> QED BY <1>1, <1>3, PTL DEF ReentryCostsNothing, Free

=============================================================================
