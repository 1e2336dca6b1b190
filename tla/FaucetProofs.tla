---------------------------- MODULE FaucetProofs ----------------------------
(***************************************************************************)
(* Proofs about the faucet and the history MCFaucet keeps of it, for any   *)
(* number of claimants, tokens and claims and for every cooldown.          *)
(***************************************************************************)
EXTENDS MCFaucet, SequenceTheorems, TLAPS

\* A token that can be claimed is on the list that initialize emptied.
OpenTapsListed ==
    \A t \in Tokens : drips[t] > 0 => config.stored /\ Contains(tokens, t)

\* What the history and the storage have in common: Last is the latest claim, an event
\* promised what the storage says, and no cooldown was shorter than least.
HistoryAgrees ==
    /\ claims \in [Users -> [Tokens -> Seq(1 .. MaxTime)]]
    /\ least \in 0 .. U64_MAX
    /\ config.stored => least <= config.cooldown
    /\ promised \in [Users -> [Tokens -> [next_at : Nat, cooldown : Nat]]]
    /\ \A u \in Users, t \in Tokens :
         /\ last[u][t] <= now
         /\ last[u][t] = IF claims[u][t] = <<>> THEN 0 ELSE Last(claims[u][t])
         /\ promised[u][t] # NoPromise =>
              /\ last[u][t] # 0
              /\ promised[u][t].next_at = saturating_add(last[u][t], promised[u][t].cooldown)

\* The inductive invariant: a claim is far enough from the one before it because the
\* storage remembers that one.
FaucetInv ==
    /\ FaucetTypeOK
    /\ OpenTapsListed
    /\ CooldownBoughtSomething
    /\ HistoryAgrees
    /\ RateLimited

-----------------------------------------------------------------------------
(* Operators.                                                              *)

\* Below the end of u64 the cooldown is added as it is.
LEMMA SaturatingAdd ==
  ASSUME NEW a \in Nat, NEW b \in Nat
  PROVE  /\ saturating_add(a, b) \in Nat
         /\ saturating_add(a, b) <= U64_MAX
         /\ a <= U64_MAX => saturating_add(a, b) >= a
         /\ saturating_add(a, b) < U64_MAX => saturating_add(a, b) = a + b
BY FaucetAssumption DEF saturating_add

\* A token is listed once.
LEMMA ListedOnce ==
  ASSUME tokens \in Seq(Tokens), IsInjective(tokens), NEW t \in Tokens
  PROVE  /\ Listed(t) \in Seq(Tokens) /\ IsInjective(Listed(t))
         /\ Contains(Listed(t), t)
         /\ \A x : Contains(tokens, x) => Contains(Listed(t), x)
<1>1. CASE Contains(tokens, t)
  BY <1>1 DEF Listed
<1>2. CASE ~Contains(tokens, t)
  <2> DEFINE r == Append(tokens, t)
  <2>1. /\ r \in Seq(Tokens) /\ Len(r) = Len(tokens) + 1 /\ Len(tokens) \in Nat
        /\ r[Len(tokens) + 1] = t /\ DOMAIN r = 1 .. Len(r)
        /\ DOMAIN tokens = 1 .. Len(tokens)
        /\ \A i \in 1 .. Len(tokens) : r[i] = tokens[i]
    OBVIOUS
  <2>2. Listed(t) = r
    BY <1>2 DEF Listed
  <2> HIDE DEF r
  <2>3. \A i \in 1 .. Len(tokens) : tokens[i] # t
    BY <1>2 DEF Contains
  <2>4. IsInjective(r)
    <3> SUFFICES ASSUME NEW i \in 1 .. Len(r), NEW j \in 1 .. Len(r), r[i] = r[j]
                 PROVE  i = j
      BY <2>1 DEF IsInjective
    <3>1. CASE i \in 1 .. Len(tokens) /\ j \in 1 .. Len(tokens)
      BY <2>1, <3>1 DEF IsInjective
    <3>2. CASE i = Len(tokens) + 1 \/ j = Len(tokens) + 1
      BY <2>1, <2>3, <3>2
    <3> QED BY <2>1, <3>1, <3>2
  <2>5. Contains(r, t) /\ \A x : Contains(tokens, x) => Contains(r, x)
    BY <2>1 DEF Contains
  <2> QED BY <2>1, <2>2, <2>4, <2>5
<1> QED BY <1>1, <1>2

\* A write to one user's slot of one token.
LEMMA SlotWritten ==
  ASSUME NEW S, NEW f \in [Users -> [Tokens -> S]], NEW v \in Users, NEW y \in Tokens,
         NEW e \in S
  PROVE  LET g == [f EXCEPT ![v][y] = e]
         IN  /\ g \in [Users -> [Tokens -> S]]
             /\ \A u \in Users, t \in Tokens :
                   g[u][t] = IF u = v /\ t = y THEN e ELSE f[u][t]
OBVIOUS

\* A product grows with its second factor.
LEMMA ProductGrows ==
  ASSUME NEW x \in Nat, NEW y \in Nat, NEW z \in Nat, y <= z
  PROVE  x * y <= x * z
<1>1. z - y \in Nat /\ z = y + (z - y)
  OBVIOUS
<1>2. x * (z - y) \in Nat /\ x * z = x * y + x * (z - y)
  BY <1>1
<1> QED BY <1>2

-----------------------------------------------------------------------------
(* The faucet.                                                             *)

\* The storage at the start.
LEMMA FaucetInvInit == MCInit => FaucetInv
<1> SUFFICES ASSUME MCInit PROVE FaucetInv
  OBVIOUS
<1>1. FaucetTypeOK
  BY FaucetAssumption DEF MCInit, FaucetInit, FaucetTypeOK, FaucetConfigs, NoFaucetConfig, IsInjective
<1>2. OpenTapsListed /\ CooldownBoughtSomething
  BY DEF MCInit, FaucetInit, OpenTapsListed, CooldownBoughtSomething
<1>3. RateLimited
  BY DEF MCInit, RateLimited
<1>4. HistoryAgrees
  BY FaucetAssumption DEF MCInit, FaucetInit, HistoryAgrees, NoPromise, NoFaucetConfig
<1> QED BY <1>1, <1>2, <1>3, <1>4 DEF FaucetInv

\* The limit survives a shorter cooldown.
LEMMA LimitLowered ==
  ASSUME HistoryAgrees, RateLimited, UNCHANGED claims, least' \in Nat, least' <= least
  PROVE  RateLimited'
<1> SUFFICES ASSUME NEW u \in Users, NEW t \in Tokens, claims[u][t] # <<>>
             PROVE  Last(claims[u][t]) - Head(claims[u][t]) >= (Len(claims[u][t]) - 1) * least'
  BY DEF RateLimited
<1> DEFINE s == claims[u][t]
<1>1. s \in Seq(1 .. MaxTime) /\ s # <<>> /\ least \in Nat
  BY FaucetAssumption DEF HistoryAgrees
<1>2. Last(s) - Head(s) >= (Len(s) - 1) * least
  BY DEF RateLimited
<1> HIDE DEF s
<1>3. /\ Len(s) \in Nat /\ Len(s) >= 1 /\ Head(s) \in 1 .. MaxTime /\ Last(s) \in 1 .. MaxTime
  <2>1. Len(s) \in Nat /\ Len(s) # 0
    BY <1>1
  <2>2. 1 \in 1 .. Len(s) /\ Len(s) \in 1 .. Len(s)
    BY <2>1
  <2>3. s[Len(s)] \in 1 .. MaxTime
    BY <1>1, <2>2, ElementOfSeq
  <2>4. Head(s) \in 1 .. MaxTime
    BY <1>1, HeadTailProperties
  <2> QED BY <2>1, <2>3, <2>4 DEF Last
<1>4. Len(s) - 1 \in Nat /\ Last(s) - Head(s) \in Int
  BY <1>3, FaucetAssumption
<1>5. (Len(s) - 1) * least' <= (Len(s) - 1) * least
  BY <1>1, <1>4, ProductGrows
<1>6. (Len(s) - 1) * least' \in Int /\ (Len(s) - 1) * least \in Int
  BY <1>1, <1>4
<1>7. Last(s) - Head(s) >= (Len(s) - 1) * least'
  BY <1>2, <1>4, <1>5, <1>6
<1> QED BY <1>7 DEF s

\* The admin's calls: the lists stay lists, and the limit counts the shortest cooldown.
LEMMA AdminKeepsInv ==
  ASSUME FaucetInv, FaucetAdminCalls, least' = Shortest(least, config'.cooldown),
         UNCHANGED <<claims, promised>>
  PROVE  FaucetInv'
<1>1. /\ config \in FaucetConfigs /\ drips \in [Tokens -> Nat]
      /\ tokens \in Seq(Tokens) /\ IsInjective(tokens)
      /\ tokenAdmin \in [Tokens -> Admins \cup {FaucetAddr}]
      /\ least \in 0 .. U64_MAX
  BY DEF FaucetInv, FaucetTypeOK, HistoryAgrees
<1>2. /\ Cooldowns \subseteq 0 .. U64_MAX /\ Drips \subseteq Int /\ U64_MAX \in Nat
  BY FaucetAssumption
<1>3. UNCHANGED <<last, balance, now>>
  BY DEF FaucetAdminCalls, initialize, set_cooldown, set_drip, set_token_admin, tokenVars
<1>4. /\ config' \in FaucetConfigs
      /\ config.stored => config'.stored
      /\ drips' \in [Tokens -> Nat]
      /\ tokens' \in Seq(Tokens) /\ IsInjective(tokens')
      /\ tokenAdmin' \in [Tokens -> Admins \cup {FaucetAddr}]
      /\ OpenTapsListed'
  <2>1. CASE \E a \in Admins, c \in Cooldowns : initialize(a, c)
    <3>1. PICK a \in Admins, c \in Cooldowns : initialize(a, c)
      BY <2>1
    <3>2. /\ config' = [stored |-> TRUE, admin |-> a, cooldown |-> c] /\ tokens' = <<>>
          /\ ~config.stored /\ UNCHANGED <<drips, tokenAdmin>>
      BY <3>1 DEF initialize, tokenVars
    <3>3. config' \in FaucetConfigs
      BY <1>2, <3>2 DEF FaucetConfigs
    <3>4. OpenTapsListed'
      BY <3>2 DEF FaucetInv, OpenTapsListed
    <3> QED BY <1>1, <3>2, <3>3, <3>4 DEF IsInjective
  <2>2. CASE \E a \in Admins, c \in Cooldowns : set_cooldown(a, c)
    <3>1. PICK a \in Admins, c \in Cooldowns : set_cooldown(a, c)
      BY <2>2
    <3>2. /\ config' = [config EXCEPT !.cooldown = c] /\ UNCHANGED <<drips, tokens, tokenAdmin>>
      BY <3>1 DEF set_cooldown, tokenVars
    <3>3. config' \in FaucetConfigs /\ config'.stored = config.stored
      BY <1>1, <1>2, <3>2 DEF FaucetConfigs
    <3>4. OpenTapsListed'
      BY <3>2, <3>3 DEF FaucetInv, OpenTapsListed
    <3> QED BY <1>1, <3>2, <3>3, <3>4
  <2>3. CASE \E a \in Admins, t \in Tokens, d \in Drips : set_drip(a, t, d)
    <3>1. PICK a \in Admins, t \in Tokens, d \in Drips : set_drip(a, t, d)
      BY <2>3
    <3>2. /\ config.stored /\ d \in Nat /\ drips' = [drips EXCEPT ![t] = d] /\ tokens' = Listed(t)
          /\ UNCHANGED <<config, tokenAdmin>>
      BY <1>2, <3>1 DEF set_drip, AdminSigns, tokenVars
    <3>3. /\ tokens' \in Seq(Tokens) /\ IsInjective(tokens') /\ Contains(tokens', t)
          /\ \A x : Contains(tokens, x) => Contains(tokens', x)
      BY <1>1, <3>2, ListedOnce
    <3>4. drips' \in [Tokens -> Nat] /\ \A x \in Tokens : x # t => drips'[x] = drips[x]
      BY <1>1, <3>2
    <3>5. OpenTapsListed'
      BY <3>2, <3>3, <3>4 DEF FaucetInv, OpenTapsListed
    <3> QED BY <1>1, <3>2, <3>3, <3>4, <3>5
  <2>4. CASE \E a \in Admins, t \in Tokens, x \in Admins \cup {FaucetAddr} :
                set_token_admin(a, t, x)
    <3>1. UNCHANGED <<config, drips, tokens>>
      BY <2>4 DEF set_token_admin
    <3>2. tokenAdmin' \in [Tokens -> Admins \cup {FaucetAddr}]
      BY <1>1, <2>4 DEF set_token_admin
    <3> QED BY <1>1, <3>1, <3>2 DEF FaucetInv, OpenTapsListed
  <2> QED BY <2>1, <2>2, <2>3, <2>4 DEF FaucetAdminCalls
<1>5. FaucetTypeOK'
  BY <1>3, <1>4 DEF FaucetInv, FaucetTypeOK
<1>6. CooldownBoughtSomething'
  BY <1>3 DEF FaucetInv, CooldownBoughtSomething
<1>7. least' \in 0 .. U64_MAX /\ least' <= least /\ least' <= config'.cooldown
  <2>1. config'.cooldown \in 0 .. U64_MAX
    BY <1>4 DEF FaucetConfigs
  <2> QED BY <1>1, <1>2, <2>1 DEF Shortest
<1>8. RateLimited'
  <2>1. least' \in Nat
    BY <1>2, <1>7
  <2> QED BY <1>7, <2>1, LimitLowered DEF FaucetInv
<1>9. HistoryAgrees'
  BY <1>3, <1>7 DEF FaucetInv, HistoryAgrees
<1> QED BY <1>4, <1>5, <1>6, <1>8, <1>9 DEF FaucetInv

\* One more claim at least the shortest cooldown after the latest keeps the limit.
LEMMA LimitExtended ==
  ASSUME NEW s \in Seq(1 .. MaxTime), s # <<>>, NEW c \in Nat, NEW x \in 1 .. MaxTime,
         Last(s) - Head(s) >= (Len(s) - 1) * c, x - Last(s) >= c
  PROVE  Last(Append(s, x)) - Head(Append(s, x)) >= (Len(Append(s, x)) - 1) * c
<1> DEFINE r == Append(s, x)
<1>1. Len(s) \in Nat /\ Len(s) # 0
  OBVIOUS
<1>2. Last(s) \in 1 .. MaxTime /\ Head(s) \in 1 .. MaxTime
  <2>1. Len(s) \in 1 .. Len(s)
    BY <1>1
  <2>2. s[Len(s)] \in 1 .. MaxTime
    BY <2>1, ElementOfSeq
  <2>3. Head(s) \in 1 .. MaxTime
    BY HeadTailProperties
  <2> QED BY <2>2, <2>3 DEF Last
<1>3. Len(r) = Len(s) + 1 /\ r[Len(s) + 1] = x /\ Head(r) = Head(s)
  <2>1. Len(r) = Len(s) + 1 /\ r[Len(s) + 1] = x /\ r[1] = s[1]
    BY <1>1
  <2>2. Head(r) = r[1] /\ Head(s) = s[1]
    BY <1>1
  <2> QED BY <2>1, <2>2
<1> HIDE DEF r
<1>4. Last(r) = x
  BY <1>3 DEF Last
<1>5. (Len(r) - 1) * c = (Len(s) - 1) * c + c /\ (Len(s) - 1) * c \in Int
  <2>1. \A n, m \in Int : n * m \in Int /\ (n + 1) * m = n * m + m
    OBVIOUS
  <2>2. Len(s) - 1 \in Int /\ Len(r) - 1 = (Len(s) - 1) + 1
    BY <1>1, <1>3
  <2> QED BY <2>1, <2>2
<1>6. Last(r) - Head(r) >= (Len(r) - 1) * c
  <2>1. x \in Int /\ Last(s) \in Int /\ Head(s) \in Int /\ c \in Int
    BY <1>2, FaucetAssumption
  <2> QED BY <1>3, <1>4, <1>5, <2>1
<1> QED BY <1>6 DEF r

\* A claim is given something, is promised what the storage says, and waits for the
\* cooldown.
LEMMA ClaimKeepsInv ==
  ASSUME FaucetInv, NEW v \in Users, NEW y \in Tokens, claim(v, y),
         claims' = [claims EXCEPT ![v][y] = Append(@, now)],
         promised' = [promised EXCEPT ![v][y] =
                        [next_at |-> ClaimedNextAt, cooldown |-> config.cooldown]],
         UNCHANGED least
  PROVE  FaucetInv'
<1> DEFINE s == claims[v][y]
           p == [next_at |-> ClaimedNextAt, cooldown |-> config.cooldown]
           b == balance[v][y] + drips[y]
<1>1. /\ config \in FaucetConfigs /\ drips \in [Tokens -> Nat]
      /\ last \in [Users -> [Tokens -> 0 .. MaxTime]]
      /\ balance \in [Users -> [Tokens -> Nat]]
      /\ now \in 1 .. MaxTime /\ MaxTime \in Nat /\ now \in Nat /\ now # 0
      /\ claims \in [Users -> [Tokens -> Seq(1 .. MaxTime)]] /\ s \in Seq(1 .. MaxTime)
      /\ promised \in [Users -> [Tokens -> [next_at : Nat, cooldown : Nat]]]
      /\ least \in Nat /\ config.cooldown \in Nat
  BY FaucetAssumption DEF FaucetInv, FaucetTypeOK, HistoryAgrees, FaucetConfigs
<1>2. /\ config.stored /\ drips[y] > 0 /\ CooldownOver(v, y)
      /\ last' = [last EXCEPT ![v][y] = now]
      /\ balance' = [balance EXCEPT ![v][y] = b]
      /\ UNCHANGED <<config, drips, tokens, tokenAdmin, now>>
  BY DEF claim, mint
<1>3. ClaimedNextAt \in Nat /\ p \in [next_at : Nat, cooldown : Nat]
  BY <1>1, SaturatingAdd DEF ClaimedNextAt
<1>4. b \in Nat /\ b > 0
  BY <1>1, <1>2
<1> HIDE DEF b, p
<1>5. /\ last' \in [Users -> [Tokens -> 0 .. MaxTime]]
      /\ \A u \in Users, t \in Tokens :
            last'[u][t] = IF u = v /\ t = y THEN now ELSE last[u][t]
  <2> DEFINE S == 0 .. MaxTime
  <2>1. now \in S /\ last \in [Users -> [Tokens -> S]]
    BY <1>1
  <2> HIDE DEF S
  <2>2. /\ last' \in [Users -> [Tokens -> S]]
        /\ \A u \in Users, t \in Tokens :
              last'[u][t] = IF u = v /\ t = y THEN now ELSE last[u][t]
    BY <1>2, <2>1, SlotWritten
  <2> QED BY <2>2 DEF S
<1>6. /\ balance' \in [Users -> [Tokens -> Nat]]
      /\ \A u \in Users, t \in Tokens :
            balance'[u][t] = IF u = v /\ t = y THEN b ELSE balance[u][t]
  BY <1>1, <1>2, <1>4
<1>7. /\ promised' \in [Users -> [Tokens -> [next_at : Nat, cooldown : Nat]]]
      /\ \A u \in Users, t \in Tokens :
            promised'[u][t] = IF u = v /\ t = y THEN p ELSE promised[u][t]
  <2>1. promised' = [promised EXCEPT ![v][y] = p]
    BY DEF p
  <2> DEFINE S == [next_at : Nat, cooldown : Nat]
  <2>2. p \in S /\ promised \in [Users -> [Tokens -> S]]
    BY <1>1, <1>3
  <2> HIDE DEF S
  <2>3. /\ promised' \in [Users -> [Tokens -> S]]
        /\ \A u \in Users, t \in Tokens :
              promised'[u][t] = IF u = v /\ t = y THEN p ELSE promised[u][t]
    BY <2>1, <2>2, SlotWritten
  <2> QED BY <2>3 DEF S
<1>8. /\ claims' \in [Users -> [Tokens -> Seq(1 .. MaxTime)]]
      /\ \A u \in Users, t \in Tokens :
            claims'[u][t] = IF u = v /\ t = y THEN Append(s, now) ELSE claims[u][t]
  <2> DEFINE r == Append(s, now)
  <2>1. r \in Seq(1 .. MaxTime)
    BY <1>1
  <2>2. claims' = [claims EXCEPT ![v][y] = r]
    OBVIOUS
  <2> DEFINE S == Seq(1 .. MaxTime)
  <2>3. r \in S /\ claims \in [Users -> [Tokens -> S]]
    BY <1>1, <2>1
  <2> HIDE DEF r, S
  <2> DEFINE g == [claims EXCEPT ![v][y] = r]
  <2>4. /\ g \in [Users -> [Tokens -> S]]
        /\ \A u \in Users, t \in Tokens :
              g[u][t] = IF u = v /\ t = y THEN r ELSE claims[u][t]
    BY <2>3, SlotWritten
  <2>5. claims' = g
    BY <2>2
  <2> HIDE DEF g
  <2> QED BY <2>4, <2>5 DEF r, S
<1>9. FaucetTypeOK'
  BY <1>1, <1>2, <1>5, <1>6 DEF FaucetInv, FaucetTypeOK
<1>10. OpenTapsListed'
  BY <1>2 DEF FaucetInv, OpenTapsListed
<1>11. CooldownBoughtSomething'
  BY <1>4, <1>5, <1>6 DEF FaucetInv, CooldownBoughtSomething
<1>12. Append(s, now) # <<>> /\ Last(Append(s, now)) = now
  <2>1. Len(Append(s, now)) = Len(s) + 1 /\ Append(s, now)[Len(s) + 1] = now /\ Len(s) \in Nat
    BY <1>1
  <2>2. Last(Append(s, now)) = now
    BY <2>1 DEF Last
  <2>3. Len(Append(s, now)) # 0
    BY <2>1
  <2> QED BY <2>2, <2>3
<1>13. HistoryAgrees'
  <2>1. ASSUME NEW u \in Users, NEW t \in Tokens
        PROVE  /\ last'[u][t] <= now
               /\ last'[u][t] = IF claims'[u][t] = <<>> THEN 0 ELSE Last(claims'[u][t])
               /\ promised'[u][t] # NoPromise =>
                    /\ last'[u][t] # 0
                    /\ promised'[u][t].next_at =
                          saturating_add(last'[u][t], promised'[u][t].cooldown)
    <3>1. CASE u = v /\ t = y
      <4>1. last'[u][t] = now /\ claims'[u][t] = Append(s, now) /\ promised'[u][t] = p
        BY <1>5, <1>7, <1>8, <3>1
      <4>2. p.next_at = saturating_add(now, p.cooldown)
        BY DEF p, ClaimedNextAt
      <4>3. now <= now /\ now # 0
        BY <1>1
      <4> HIDE DEF s
      <4> QED BY <1>12, <4>1, <4>2, <4>3
    <3>2. CASE ~(u = v /\ t = y)
      <4>1. last'[u][t] = last[u][t] /\ claims'[u][t] = claims[u][t]
            /\ promised'[u][t] = promised[u][t]
        BY <1>5, <1>7, <1>8, <3>2
      <4> QED BY <4>1 DEF FaucetInv, HistoryAgrees
    <3> QED BY <3>1, <3>2
  <2>2. now' = now /\ config' = config /\ least' = least
    BY <1>2
  <2>3. least \in 0 .. U64_MAX /\ (config.stored => least <= config.cooldown)
    BY DEF FaucetInv, HistoryAgrees
  <2>4. \A u \in Users, t \in Tokens :
           /\ last'[u][t] <= now'
           /\ last'[u][t] = IF claims'[u][t] = <<>> THEN 0 ELSE Last(claims'[u][t])
           /\ promised'[u][t] # NoPromise =>
                /\ last'[u][t] # 0
                /\ promised'[u][t].next_at =
                      saturating_add(last'[u][t], promised'[u][t].cooldown)
    BY <2>1, <2>2
  <2> QED BY <1>7, <1>8, <2>2, <2>3, <2>4, Zenon DEF HistoryAgrees, saturating_add
<1>14. RateLimited'
  <2>1. SUFFICES ASSUME NEW u \in Users, NEW t \in Tokens, claims'[u][t] # <<>>
                 PROVE  Last(claims'[u][t]) - Head(claims'[u][t]) >=
                           (Len(claims'[u][t]) - 1) * least
    BY DEF RateLimited
  <2>2. CASE ~(u = v /\ t = y)
    <3>1. claims'[u][t] = claims[u][t]
      BY <1>8, <2>2
    <3> QED BY <2>1, <3>1 DEF FaucetInv, RateLimited
  <2>3. CASE (u = v /\ t = y) /\ s = <<>>
    <3>1. claims'[u][t] = Append(s, now)
      BY <1>8, <2>3
    <3>2. Last(Append(s, now)) = now /\ Head(Append(s, now)) = now /\ Len(Append(s, now)) = 1
      BY <1>1, <2>3 DEF Last
    <3> HIDE DEF s
    <3>3. \A i, j \in Nat : i - i >= (1 - 1) * j
      OBVIOUS
    <3>4. now - now >= (1 - 1) * least
      BY <1>1, <3>3
    <3> QED BY <3>1, <3>2, <3>4
  <2>4. CASE (u = v /\ t = y) /\ s # <<>>
    <3>1. claims'[u][t] = Append(s, now)
      BY <1>8, <2>4
    <3>2. Last(s) - Head(s) >= (Len(s) - 1) * least /\ last[v][y] = Last(s)
      BY <2>4 DEF FaucetInv, RateLimited, HistoryAgrees
    <3>3. Last(s) \in 1 .. MaxTime
      <4>1. Len(s) \in 1 .. Len(s)
        BY <1>1, <2>4
      <4> QED BY <1>1, <4>1, ElementOfSeq DEF Last
    <3>4. now >= saturating_add(Last(s), config.cooldown)
      BY <1>1, <1>2, <3>2, <3>3 DEF CooldownOver
    <3>5. saturating_add(Last(s), config.cooldown) = Last(s) + config.cooldown
      <4>1. Last(s) \in Nat /\ now < U64_MAX /\ U64_MAX \in Nat
        <5>1. now \in Nat /\ now <= MaxTime
          BY <1>1
        <5> HIDE DEF s
        <5> QED BY <3>3, <5>1, FaucetAssumption
      <4>2. /\ saturating_add(Last(s), config.cooldown) \in Nat
            /\ saturating_add(Last(s), config.cooldown) < U64_MAX =>
                  saturating_add(Last(s), config.cooldown) = Last(s) + config.cooldown
        BY <1>1, <4>1, SaturatingAdd
      <4> QED BY <1>1, <3>4, <4>1, <4>2
    <3>6. now - Last(s) >= least
      <4>1. least <= config.cooldown
        BY <1>2 DEF FaucetInv, HistoryAgrees
      <4>2. now \in Int /\ Last(s) \in Int /\ config.cooldown \in Int /\ least \in Int
        <5>1. now \in Nat /\ config.cooldown \in Nat /\ least \in Nat
          BY <1>1
        <5> HIDE DEF s
        <5> QED BY <3>3, <5>1
      <4> HIDE DEF s
      <4> QED BY <3>4, <3>5, <4>1, <4>2
    <3> HIDE DEF s
    <3> QED BY <1>1, <2>4, <3>1, <3>2, <3>6, LimitExtended
  <2> QED BY <2>2, <2>3, <2>4
<1> QED BY <1>9, <1>10, <1>11, <1>13, <1>14 DEF FaucetInv

\* Giving the faucet the mint and the passing of time.
LEMMA OthersKeepInv ==
  ASSUME FaucetInv, UNCHANGED <<claims, least, promised>>,
         (\E t \in Tokens : GiveMint(t)) \/ LedgerCloses \/ UNCHANGED faucetVars
  PROVE  FaucetInv'
<1>1. UNCHANGED <<config, drips, tokens, last, balance>> /\ now' \in {now, now + 1}
      /\ now' \in 1 .. MaxTime /\ now \in Nat
  BY FaucetAssumption DEF FaucetInv, FaucetTypeOK, GiveMint, LedgerCloses, faucetVars, tokenVars
<1>2. tokenAdmin' \in [Tokens -> Admins \cup {FaucetAddr}]
  BY DEF FaucetInv, FaucetTypeOK, GiveMint, LedgerCloses, faucetVars, tokenVars
<1>3. FaucetTypeOK'
  BY <1>1, <1>2 DEF FaucetInv, FaucetTypeOK
<1>4. OpenTapsListed' /\ CooldownBoughtSomething' /\ RateLimited'
  BY <1>1 DEF FaucetInv, OpenTapsListed, CooldownBoughtSomething, RateLimited
<1>5. HistoryAgrees'
  <2>1. ASSUME NEW u \in Users, NEW t \in Tokens PROVE last[u][t] <= now'
    <3>1. last[u][t] <= now /\ last[u][t] \in 0 .. MaxTime
      BY DEF FaucetInv, FaucetTypeOK, HistoryAgrees
    <3> QED BY <1>1, <3>1, FaucetAssumption
  <2> QED BY <1>1, <2>1 DEF FaucetInv, HistoryAgrees
<1> QED BY <1>3, <1>4, <1>5 DEF FaucetInv

\* The invariant is inductive.
LEMMA FaucetInvStep == FaucetInv /\ [MCNext]_mcVars => FaucetInv'
<1> SUFFICES ASSUME FaucetInv, [MCNext]_mcVars PROVE FaucetInv'
  OBVIOUS
<1>1. CASE UNCHANGED mcVars
  BY <1>1, OthersKeepInv DEF mcVars
<1>2. CASE MCNext
  <2>1. CASE /\ FaucetAdminCalls
             /\ least' = Shortest(least, config'.cooldown)
             /\ UNCHANGED <<claims, promised>>
    BY <2>1, AdminKeepsInv
  <2>2. CASE \E u \in Users, t \in Tokens :
               /\ claim(u, t)
               /\ claims' = [claims EXCEPT ![u][t] = Append(@, now)]
               /\ promised' = [promised EXCEPT ![u][t] =
                                 [next_at |-> ClaimedNextAt, cooldown |-> config.cooldown]]
               /\ UNCHANGED least
    BY <2>2, ClaimKeepsInv
  <2>3. CASE (\E t \in Tokens : GiveMint(t)) /\ UNCHANGED <<claims, least, promised>>
    BY <2>3, OthersKeepInv
  <2>4. CASE LedgerCloses /\ UNCHANGED <<claims, least, promised>>
    BY <2>4, OthersKeepInv
  <2> QED BY <1>2, <2>1, <2>2, <2>3, <2>4 DEF MCNext
<1> QED BY <1>1, <1>2

\* It holds in every behaviour.
LEMMA FaucetInvariance == MCSpec => []FaucetInv
BY FaucetInvInit, FaucetInvStep, PTL DEF MCSpec

\* No call takes the faucet's storage out of its types: a negative drip is refused and
\* the list never names a token twice.
THEOREM FaucetTypeCorrect == MCSpec => []FaucetTypeOK
<1>1. FaucetInv => FaucetTypeOK
  BY DEF FaucetInv
<1> QED BY <1>1, FaucetInvariance, PTL

\* Whoever waits out a cooldown was given something for it.
THEOREM CooldownsBuySomething == MCSpec => []CooldownBoughtSomething
<1>1. FaucetInv => CooldownBoughtSomething
  BY DEF FaucetInv
<1> QED BY <1>1, FaucetInvariance, PTL

\* However often a user claims and however the admin moves drip and cooldown meanwhile,
\* n claims take n - 1 of the shortest cooldowns.
THEOREM TapIsRateLimited == MCSpec => []RateLimited
<1>1. FaucetInv => RateLimited
  BY DEF FaucetInv
<1> QED BY <1>1, FaucetInvariance, PTL

\* The next_at of a Claimed event is what next_claim answers until then.
THEOREM PromisesAreKept == MCSpec => []PromiseKept
<1>1. ASSUME FaucetInv PROVE PromiseKept
  <2> SUFFICES ASSUME NEW u \in Users, NEW t \in Tokens, promised[u][t] # NoPromise,
                      promised[u][t].cooldown = config.cooldown
               PROVE  next_claim(u, t) = IF now >= promised[u][t].next_at THEN 0
                                         ELSE promised[u][t].next_at
    BY DEF PromiseKept
  <2>1. /\ last[u][t] # 0
        /\ promised[u][t].next_at = saturating_add(last[u][t], promised[u][t].cooldown)
    BY <1>1 DEF FaucetInv, HistoryAgrees
  <2> QED BY <2>1 DEF next_claim
<1> QED BY <1>1, FaucetInvariance, PTL
=============================================================================
