----------------------------- MODULE DataProofs -----------------------------
(***************************************************************************)
(* Lemmas about the tables of the store and the lists the program filters. *)
(***************************************************************************)
EXTENDS Tables, Lists, FiniteSetTheorems, TLAPS
-----------------------------------------------------------------------------

\* Writing a row of the right type into a table leaves a table.
LEMMA PutRow ==
  ASSUME NEW t, NEW K, NEW R, IsTable(t, K, R), NEW k \in K, NEW r \in R
  PROVE  IsTable(Put(t, k, r), K, R)
BY DEF IsTable, Put

\* Removing a row of a table leaves a table.
LEMMA DropRow ==
  ASSUME NEW t, NEW K, NEW R, IsTable(t, K, R), NEW k
  PROVE  IsTable(Drop(t, k), K, R)
BY DEF IsTable, Drop

\* The empty table is a table.
LEMMA NoRows ==
  ASSUME NEW K, NEW R
  PROVE  IsTable(EmptyTable, K, R) /\ DOMAIN EmptyTable = {}
BY DEF IsTable, EmptyTable

\* Table is the set that IsTable describes.
LEMMA TableMember ==
  ASSUME NEW t, NEW K, NEW R
  PROVE  t \in Table(K, R) <=> IsTable(t, K, R)
BY DEF IsTable, Table
-----------------------------------------------------------------------------
(* Lists.                                                                  *)

\* A set of naturals that is not empty has a least element.
LEMMA LeastElement ==
  ASSUME NEW J \in SUBSET Nat, J # {}
  PROVE  \E j \in J : \A k \in J : j <= k
<1> DEFINE R == StrictSubsetOrdering(Nat)
           T == {0..j : j \in J}
<1>1. IsWellFoundedOn(R, FiniteSubsetsOf(Nat))
  BY FS_StrictSubsetOrderingWellFounded
<1>2. T \subseteq FiniteSubsetsOf(Nat) /\ T # {}
  <2>1. \A j \in J : IsFiniteSet(0..j) /\ 0..j \in SUBSET Nat
    BY FS_Interval
  <2>2. QED
    BY <2>1 DEF FiniteSubsetsOf
<1>3. PICK x \in T : \A y \in T : ~ (<<y, x>> \in R)
  BY <1>1, <1>2, WFMin
<1>4. PICK j \in J : x = 0..j
  BY <1>3
<1>5. ASSUME NEW k \in J, k < j
      PROVE  FALSE
  <2>1. 0..k \in T /\ 0..k \subseteq 0..j /\ 0..k # 0..j
    <3>1. j \in 0..j /\ j \notin 0..k
      BY <1>5
    <3>2. QED
      BY <1>5, <3>1
  <2>2. 0..k \in SUBSET Nat /\ 0..j \in SUBSET Nat
    OBVIOUS
  <2>3. <<0..k, x>> \in R
    BY <2>1, <2>2, <1>4 DEF StrictSubsetOrdering
  <2>4. QED
    BY <2>1, <2>3, <1>3
<1>6. QED
  BY <1>5
\* What the loop has kept of the first i elements: each of its elements is one
\* of those, in the order they have, and none that belongs is missing.
Selects(r, s, S, i) ==
  \E pos \in [1..Len(r) -> 1..i] :
    /\ \A a \in 1..Len(r) : r[a] = s[pos[a]] /\ s[pos[a]] \in S
    /\ \A a, b \in 1..Len(r) : a < b => pos[a] < pos[b]
    /\ \A k \in 1..i : s[k] \in S => \E a \in 1..Len(r) : pos[a] = k

\* One round of the loop.
LEMMA KeepRound ==
  ASSUME NEW T, NEW S, NEW s \in Seq(T), NEW i \in 1..Len(s),
         NEW r \in Seq(T), Selects(r, s, S, i - 1)
  PROVE  LET next == IF s[i] \in S THEN Append(r, s[i]) ELSE r
         IN  next \in Seq(T) /\ Selects(next, s, S, i)
<1>1. PICK pos \in [1..Len(r) -> 1..(i-1)] :
        /\ \A a \in 1..Len(r) : r[a] = s[pos[a]] /\ s[pos[a]] \in S
        /\ \A a, b \in 1..Len(r) : a < b => pos[a] < pos[b]
        /\ \A k \in 1..(i-1) : s[k] \in S => \E a \in 1..Len(r) : pos[a] = k
  BY DEF Selects
<1>2. CASE s[i] \in S
  <2>1. PICK next : next = Append(r, s[i])
    OBVIOUS
  <2>2. next \in Seq(T) /\ Len(next) = Len(r) + 1 /\ Len(r) \in Nat
        /\ next[Len(next)] = s[i] /\ \A a \in 1..Len(r) : next[a] = r[a]
    BY <2>1
  <2>3. PICK more : more = [a \in 1..Len(next) |-> IF a = Len(next) THEN i ELSE pos[a]]
    OBVIOUS
  <2>4. more \in [1..Len(next) -> 1..i]
    BY <2>2, <2>3
  <2>5. \A a \in 1..Len(next) : next[a] = s[more[a]] /\ s[more[a]] \in S
    BY <1>1, <1>2, <2>2, <2>3
  <2>6. ASSUME NEW a \in 1..Len(next), NEW b \in 1..Len(next), a < b
        PROVE  more[a] < more[b]
    <3>1. a \in 1..Len(r) /\ more[a] = pos[a] /\ pos[a] \in 1..(i-1)
      BY <2>2, <2>3, <2>6
    <3>2. CASE b = Len(next)
      BY <2>3, <3>1, <3>2
    <3>3. CASE b # Len(next)
      <4>1. b \in 1..Len(r) /\ more[b] = pos[b]
        BY <2>2, <2>3, <3>3
      <4>2. QED
        BY <1>1, <2>6, <3>1, <4>1
    <3>4. QED
      BY <3>2, <3>3
  <2>7. \A k \in 1..i : s[k] \in S => \E a \in 1..Len(next) : more[a] = k
    <3> SUFFICES ASSUME NEW k \in 1..i, s[k] \in S
                 PROVE  \E a \in 1..Len(next) : more[a] = k
      OBVIOUS
    <3>1. CASE k = i
      BY <2>2, <2>3, <3>1
    <3>2. CASE k # i
      <4>1. PICK a \in 1..Len(r) : pos[a] = k
        BY <1>1, <3>2
      <4>2. a \in 1..Len(next) /\ more[a] = k
        BY <2>2, <2>3, <4>1
      <4>3. QED
        BY <4>2
    <3>3. QED
      BY <3>1, <3>2
  <2>8. Selects(next, s, S, i)
    BY <2>4, <2>5, <2>6, <2>7 DEF Selects
  <2>9. QED
    BY <1>2, <2>1, <2>2, <2>8
<1>3. CASE s[i] \notin S
  <2>1. pos \in [1..Len(r) -> 1..i]
    OBVIOUS
  <2>2. \A k \in 1..i : s[k] \in S => k \in 1..(i-1)
    BY <1>3
  <2>3. Selects(r, s, S, i)
    BY <1>1, <2>1, <2>2 DEF Selects
  <2>4. QED
    BY <1>3, <2>3
<1>4. QED
  BY <1>2, <1>3

\* The loop of Keep, as far as m: a function with its equations exists.
LEMMA KeepLoop ==
  ASSUME NEW T, NEW S, NEW s \in Seq(T), NEW m \in 0..Len(s)
  PROVE  \E kept \in [0..m -> Seq(T)] :
           /\ kept[0] = <<>>
           /\ \A i \in 1..m : kept[i] = IF s[i] \in S THEN Append(kept[i-1], s[i]) ELSE kept[i-1]
           /\ \A i \in 0..m : Selects(kept[i], s, S, i)
<1> DEFINE Loop(kept, n) ==
             /\ kept[0] = <<>>
             /\ \A i \in 1..n : kept[i] = IF s[i] \in S THEN Append(kept[i-1], s[i]) ELSE kept[i-1]
             /\ \A i \in 0..n : Selects(kept[i], s, S, i)
           Good(n) == \E kept \in [0..n -> Seq(T)] : Loop(kept, n)
           J == {n \in 0..Len(s) : ~ Good(n)}
<1>1. Good(0)
  <2>1. PICK kept : kept = [i \in 0..0 |-> <<>>]
    OBVIOUS
  <2>2. kept \in [0..0 -> Seq(T)] /\ kept[0] = <<>>
    BY <2>1
  <2>3. Selects(<<>>, s, S, 0)
    <3>1. PICK pos : pos = [a \in 1..Len(<<>>) |-> 0]
      OBVIOUS
    <3>2. 1..Len(<<>>) = {} /\ 1..0 = {}
      OBVIOUS
    <3>3. pos \in [1..Len(<<>>) -> 1..0]
      BY <3>1, <3>2
    <3>4. QED
      BY <3>2, <3>3 DEF Selects
  <2>4. Loop(kept, 0)
    BY <2>2, <2>3
  <2>5. QED
    BY <2>2, <2>4
<1>2. ASSUME NEW n \in 1..Len(s), Good(n - 1)
      PROVE  Good(n)
  <2>1. PICK kept \in [0..(n-1) -> Seq(T)] : Loop(kept, n - 1)
    BY <1>2
  <2>2. PICK next : next = IF s[n] \in S THEN Append(kept[n-1], s[n]) ELSE kept[n-1]
    OBVIOUS
  <2>3. kept[n-1] \in Seq(T) /\ Selects(kept[n-1], s, S, n - 1)
    BY <2>1
  <2>4. next \in Seq(T) /\ Selects(next, s, S, n)
    BY <2>2, <2>3, KeepRound
  <2>5. PICK more : more = [i \in 0..n |-> IF i = n THEN next ELSE kept[i]]
    OBVIOUS
  <2>6. more \in [0..n -> Seq(T)] /\ more[n] = next /\ \A i \in 0..(n-1) : more[i] = kept[i]
    BY <2>4, <2>5
  <2>7. more[0] = <<>>
    BY <2>1, <2>6
  <2>8. ASSUME NEW i \in 1..n
        PROVE  more[i] = IF s[i] \in S THEN Append(more[i-1], s[i]) ELSE more[i-1]
    <3>1. CASE i = n
      BY <2>2, <2>6, <3>1
    <3>2. CASE i # n
      <4>1. i \in 1..(n-1) /\ more[i] = kept[i] /\ more[i-1] = kept[i-1]
        BY <2>6, <3>2
      <4>2. QED
        BY <2>1, <4>1
    <3>3. QED
      BY <3>1, <3>2
  <2>9. ASSUME NEW i \in 0..n
        PROVE  Selects(more[i], s, S, i)
    <3>1. CASE i = n
      BY <2>4, <2>6, <3>1
    <3>2. CASE i # n
      <4>1. i \in 0..(n-1) /\ more[i] = kept[i]
        BY <2>6, <3>2
      <4>2. QED
        BY <2>1, <4>1
    <3>3. QED
      BY <3>1, <3>2
  <2>10. Loop(more, n)
    BY <2>7, <2>8, <2>9
  <2>11. QED
    BY <2>6, <2>10
<1> HIDE DEF Good
<1>3. J = {}
  <2>1. SUFFICES ASSUME J # {} PROVE FALSE
    OBVIOUS
  <2>2. J \in SUBSET Nat
    OBVIOUS
  <2>3. PICK n \in J : \A k \in J : n <= k
    BY <2>1, <2>2, LeastElement
  <2>4. n \in 0..Len(s) /\ n # 0
    BY <1>1
  <2>5. n \in 1..Len(s) /\ n - 1 \in 0..Len(s)
    BY <2>4
  <2>6. n - 1 \notin J
    BY <2>3, <2>5
  <2>7. Good(n - 1)
    BY <2>5, <2>6
  <2>8. Good(n)
    BY <1>2, <2>5, <2>7
  <2>9. QED
    BY <2>8
<1>4. Good(m)
  BY <1>3
<1>5. QED
  BY <1>4 DEF Good

\* The values of the loop, round by round, as far as n.
Rounds(kept, s, S, n) ==
  /\ kept[0] = <<>>
  /\ \A i \in 1..n : kept[i] = IF s[i] \in S THEN Append(kept[i-1], s[i]) ELSE kept[i-1]

\* They are determined.
LEMMA RoundsUnique ==
  ASSUME NEW S, NEW s, NEW n \in Nat, NEW f, NEW g,
         Rounds(f, s, S, n), Rounds(g, s, S, n), NEW m \in 0..n
  PROVE  f[m] = g[m]
<1> DEFINE J == {j \in 0..n : f[j] # g[j]}
<1>1. SUFFICES ASSUME J # {} PROVE FALSE
  OBVIOUS
<1>2. J \in SUBSET Nat
  OBVIOUS
<1>3. PICK j \in J : \A k \in J : j <= k
  BY <1>1, <1>2, LeastElement
<1>4. f[0] = <<>> /\ g[0] = <<>>
  BY DEF Rounds
<1>5. j \in 1..n /\ j - 1 \in 0..n /\ j - 1 < j
  BY <1>4
<1>6. f[j-1] = g[j-1]
  BY <1>3, <1>5
<1>7. f[j] = IF s[j] \in S THEN Append(f[j-1], s[j]) ELSE f[j-1]
  BY <1>5 DEF Rounds
<1>8. g[j] = IF s[j] \in S THEN Append(g[j-1], s[j]) ELSE g[j-1]
  BY <1>5 DEF Rounds
<1>9. QED
  BY <1>6, <1>7, <1>8

\* The loop of Keep: its rounds, what it has selected after each of them, and
\* that Keep is its last value.
IsLoop(kept, T, s, S) ==
  /\ kept \in [0..Len(s) -> Seq(T)]
  /\ Rounds(kept, s, S, Len(s))
  /\ \A i \in 0..Len(s) : Selects(kept[i], s, S, i)
  /\ Keep(s, S) = kept[Len(s)]

LEMMA KeepFunction ==
  ASSUME NEW T, NEW S, NEW s \in Seq(T)
  PROVE  \E kept : IsLoop(kept, T, s, S)
<1> DEFINE n == Len(s)
           Body(f) == [i \in 0..n |->
                         IF i = 0 THEN <<>>
                         ELSE IF s[i] \in S THEN Append(f[i - 1], s[i]) ELSE f[i - 1]]
           kept == CHOOSE f : f = Body(f)
<1>1. n \in 0..Len(s) /\ n \in Nat
  OBVIOUS
<1>2. PICK f \in [0..n -> Seq(T)] :
        /\ f[0] = <<>>
        /\ \A i \in 1..n : f[i] = IF s[i] \in S THEN Append(f[i-1], s[i]) ELSE f[i-1]
        /\ \A i \in 0..n : Selects(f[i], s, S, i)
  BY <1>1, KeepLoop
<1>3. f = Body(f)
  <2>1. ASSUME NEW i \in 0..n
        PROVE  f[i] = Body(f)[i]
    <3>1. CASE i = 0
      BY <1>2, <3>1
    <3>2. CASE i # 0
      <4>1. i \in 1..n
        BY <3>2
      <4>2. f[i] = IF s[i] \in S THEN Append(f[i-1], s[i]) ELSE f[i-1]
        BY <1>2, <4>1
      <4>3. QED
        BY <3>2, <4>2
    <3>3. QED
      BY <3>1, <3>2
  <2>2. DOMAIN f = 0..n /\ f = [i \in 0..n |-> f[i]]
    OBVIOUS
  <2>3. QED
    BY <2>1, <2>2
<1>4. kept = Body(kept)
  BY <1>3
<1>5. Keep(s, S) = kept[n]
  BY DEF Keep
<1>6. \A i \in 0..n : kept[i] = IF i = 0 THEN <<>>
                                 ELSE IF s[i] \in S THEN Append(kept[i-1], s[i]) ELSE kept[i-1]
  <2>1. \A i \in 0..n : kept[i] = Body(kept)[i]
    BY <1>4
  <2>2. QED
    BY <2>1
<1> HIDE DEF kept
<1>7. Rounds(kept, s, S, n)
  <2>1. kept[0] = <<>>
    BY <1>1, <1>6
  <2>2. ASSUME NEW i \in 1..n
        PROVE  kept[i] = IF s[i] \in S THEN Append(kept[i-1], s[i]) ELSE kept[i-1]
    <3>1. i \in 0..n /\ i # 0
      OBVIOUS
    <3>2. QED
      BY <1>6, <3>1
  <2>3. QED
    BY <2>1, <2>2 DEF Rounds
<1>8. Rounds(f, s, S, n)
  BY <1>2 DEF Rounds
<1>9. kept[n] = f[n]
  BY <1>1, <1>7, <1>8, RoundsUnique
<1>10. Keep(s, S) = f[n]
  BY <1>5, <1>9
<1>11. QED
  BY <1>2, <1>8, <1>10 DEF IsLoop

\* Keep selects the elements that are in S, in their order: a list of the same
\* type, no longer, without new elements and without new repetitions.
LEMMA KeepSelects ==
  ASSUME NEW T, NEW S, NEW s \in Seq(T)
  PROVE  Keep(s, S) \in Seq(T) /\ Selects(Keep(s, S), s, S, Len(s))
<1>1. PICK kept : IsLoop(kept, T, s, S)
  BY KeepFunction
<1>2. Len(s) \in 0..Len(s)
  OBVIOUS
<1>3. kept[Len(s)] \in Seq(T)
  BY <1>1, <1>2 DEF IsLoop
<1>4. QED
  BY <1>1, <1>2, <1>3 DEF IsLoop

\* The elements that are kept of a list come first among those that are kept of
\* a longer list that starts with it; one more element is kept at the end or
\* not at all.
LEMMA KeepPrefix ==
  ASSUME NEW T, NEW S, NEW s \in Seq(T), NEW t \in Seq(T), Len(s) <= Len(t),
         \A i \in 1..Len(s) : s[i] = t[i]
  PROVE  /\ Len(Keep(s, S)) <= Len(Keep(t, S))
         /\ \A i \in 1..Len(Keep(s, S)) : Keep(s, S)[i] = Keep(t, S)[i]
         /\ Len(t) = Len(s) + 1 =>
              Keep(t, S) = IF t[Len(t)] \in S THEN Append(Keep(s, S), t[Len(t)]) ELSE Keep(s, S)
<1>1. PICK n \in Nat, m \in Nat : n = Len(s) /\ m = Len(t) /\ n <= m
  OBVIOUS
<1>2. PICK f : IsLoop(f, T, s, S)
  BY KeepFunction
<1>3. PICK g : IsLoop(g, T, t, S)
  BY KeepFunction
<1>4. f[n] = g[n]
  <2>1. \A i \in 1..n : i \in 1..m /\ s[i] = t[i]
    BY <1>1
  <2>2. Rounds(g, s, S, n)
    BY <1>1, <1>3, <2>1 DEF IsLoop, Rounds
  <2>3. n \in 0..n /\ Rounds(f, s, S, n)
    BY <1>1, <1>2 DEF IsLoop
  <2>4. QED
    BY <2>2, <2>3, RoundsUnique
<1>5. /\ g \in [0..m -> Seq(T)]
      /\ \A i \in 1..m : g[i] = IF t[i] \in S THEN Append(g[i-1], t[i]) ELSE g[i-1]
  BY <1>1, <1>3 DEF IsLoop, Rounds
<1> DEFINE Starts(j) == /\ Len(g[n]) <= Len(g[j])
                        /\ \A i \in 1..Len(g[n]) : g[n][i] = g[j][i]
           J == {j \in n..m : ~ Starts(j)}
<1>6. ASSUME NEW j \in n+1..m, Starts(j - 1)
      PROVE  Starts(j)
  <2>1. j \in 1..m /\ j - 1 \in 0..m /\ n \in 0..m
    BY <1>1
  <2>2. g[n] \in Seq(T) /\ g[j-1] \in Seq(T) /\ t[j] \in T
    <3>1. g[n] \in Seq(T) /\ g[j-1] \in Seq(T)
      BY <1>5, <2>1
    <3>2. t[j] \in T
      BY <1>1, <2>1
    <3>3. QED
      BY <3>1, <3>2
  <2>3. g[j] = IF t[j] \in S THEN Append(g[j-1], t[j]) ELSE g[j-1]
    BY <1>5, <2>1
  <2>4. CASE t[j] \in S
    <3>1. /\ Len(g[j]) = Len(g[j-1]) + 1
          /\ \A i \in 1..Len(g[j-1]) : g[j][i] = g[j-1][i]
      BY <2>2, <2>3, <2>4
    <3>2. QED
      BY <1>6, <2>2, <3>1
  <2>5. CASE t[j] \notin S
    BY <1>6, <2>3, <2>5
  <2>6. QED
    BY <2>4, <2>5
<1>7. Starts(n)
  OBVIOUS
<1>8. J = {}
  <2> HIDE DEF Starts
  <2>1. SUFFICES ASSUME J # {} PROVE FALSE
    OBVIOUS
  <2>2. J \in SUBSET Nat
    BY <1>1
  <2>3. PICK j \in J : \A k \in J : j <= k
    BY <2>1, <2>2, LeastElement
  <2>4. j \in n+1..m
    BY <1>1, <1>7, <2>3
  <2>5. j - 1 \in n..m /\ j - 1 < j
    BY <2>4, <1>1
  <2>6. Starts(j - 1)
    BY <2>3, <2>5
  <2>7. QED
    BY <1>6, <2>3, <2>4, <2>6
<1>9. Starts(m)
  <2> HIDE DEF Starts
  <2>1. QED
    BY <1>1, <1>8
<1>10. ASSUME m = n + 1
       PROVE  g[m] = IF t[m] \in S THEN Append(f[n], t[m]) ELSE f[n]
  <2>1. m \in 1..m /\ m - 1 = n
    BY <1>1, <1>10
  <2>2. QED
    BY <2>1, <1>4, <1>5
<1>11. /\ Len(f[n]) <= Len(g[m])
       /\ \A i \in 1..Len(f[n]) : f[n][i] = g[m][i]
  BY <1>4, <1>9
<1>12. QED
  BY <1>1, <1>2, <1>3, <1>10, <1>11 DEF IsLoop

\* Nothing is kept of nothing.
LEMMA KeepNothing ==
  ASSUME NEW S
  PROVE  Keep(<<>>, S) = <<>>
<1>1. <<>> \in Seq({}) /\ Len(<<>>) = 0
  OBVIOUS
<1>2. Keep(<<>>, S) \in Seq({})
  BY <1>1, KeepSelects
<1>3. QED
  BY <1>2

\* The same with positions that are told apart, and the bound on the length.
LEMMA KeepPositions ==
  ASSUME NEW T, NEW S, NEW s \in Seq(T)
  PROVE  /\ Keep(s, S) \in Seq(T)
         /\ Len(Keep(s, S)) <= Len(s)
         /\ \E pos \in [DOMAIN Keep(s, S) -> DOMAIN s] :
              /\ \A a \in DOMAIN Keep(s, S) : Keep(s, S)[a] = s[pos[a]] /\ s[pos[a]] \in S
              /\ \A a, b \in DOMAIN Keep(s, S) : pos[a] = pos[b] => a = b
              /\ \A k \in DOMAIN s : s[k] \in S => \E a \in DOMAIN Keep(s, S) : pos[a] = k
<1>1. PICK r : r = Keep(s, S)
  OBVIOUS
<1>2. r \in Seq(T) /\ Selects(r, s, S, Len(s))
  BY <1>1, KeepSelects
<1>3. DOMAIN r = 1..Len(r) /\ DOMAIN s = 1..Len(s) /\ Len(r) \in Nat /\ Len(s) \in Nat
  BY <1>2
<1>4. PICK pos \in [1..Len(r) -> 1..Len(s)] :
        /\ \A a \in 1..Len(r) : r[a] = s[pos[a]] /\ s[pos[a]] \in S
        /\ \A a, b \in 1..Len(r) : a < b => pos[a] < pos[b]
        /\ \A k \in 1..Len(s) : s[k] \in S => \E a \in 1..Len(r) : pos[a] = k
  BY <1>2 DEF Selects
<1>5. ASSUME NEW a \in 1..Len(r), NEW b \in 1..Len(r), pos[a] = pos[b]
      PROVE  a = b
  <2>1. ~ (a < b) /\ ~ (b < a)
    BY <1>3, <1>4, <1>5
  <2>2. QED
    BY <1>3, <2>1
<1>6. Len(r) <= Len(s)
  <2> DEFINE J == {a \in 1..Len(r) : pos[a] < a}
  <2>1. J = {}
    <3>1. SUFFICES ASSUME J # {} PROVE FALSE
      OBVIOUS
    <3>2. J \in SUBSET Nat
      BY <1>3
    <3>3. PICK a \in J : \A b \in J : a <= b
      BY <3>1, <3>2, LeastElement
    <3>4. a \in 1..Len(r) /\ pos[a] \in 1..Len(s) /\ pos[a] < a
      BY <3>3, <1>4
    <3>5. a # 1
      BY <3>4, <1>3
    <3>6. a - 1 \in 1..Len(r) /\ a - 1 < a
      BY <3>4, <3>5, <1>3
    <3>7. pos[a - 1] \in 1..Len(s) /\ pos[a - 1] < pos[a]
      BY <3>4, <3>6, <1>4
    <3>8. a - 1 \notin J
      BY <3>3, <3>4, <3>6, <1>3
    <3>9. QED
      BY <3>4, <3>6, <3>7, <3>8, <1>3
  <2>2. CASE Len(r) = 0
    BY <2>2, <1>3
  <2>3. CASE Len(r) # 0
    <3>1. Len(r) \in 1..Len(r) /\ Len(r) \notin J
      BY <2>1, <2>3, <1>3
    <3>2. pos[Len(r)] \in 1..Len(s) /\ ~ (pos[Len(r)] < Len(r))
      BY <3>1, <1>4
    <3>3. QED
      BY <3>2, <1>3
  <2>4. QED
    BY <2>2, <2>3
<1>7. \E p \in [DOMAIN r -> DOMAIN s] :
        /\ \A a \in DOMAIN r : r[a] = s[p[a]] /\ s[p[a]] \in S
        /\ \A a, b \in DOMAIN r : p[a] = p[b] => a = b
        /\ \A k \in DOMAIN s : s[k] \in S => \E a \in DOMAIN r : p[a] = k
  <2>1. pos \in [DOMAIN r -> DOMAIN s]
    BY <1>3
  <2>2. \A a \in DOMAIN r : r[a] = s[pos[a]] /\ s[pos[a]] \in S
    BY <1>3, <1>4
  <2>3. \A a, b \in DOMAIN r : pos[a] = pos[b] => a = b
    BY <1>3, <1>5
  <2>4. \A k \in DOMAIN s : s[k] \in S => \E a \in DOMAIN r : pos[a] = k
    BY <1>3, <1>4
  <2>5. QED
    BY <2>1, <2>2, <2>3, <2>4, Zenon
<1>8. QED
  BY <1>1, <1>2, <1>6, <1>7

\* There are n numbers from 1 to n.
LEMMA CountTo ==
  ASSUME NEW n \in Nat
  PROVE  IsFiniteSet(1..n) /\ Cardinality(1..n) = n
BY FS_Interval

\* The values of a function that does not repeat one are as many as its
\* arguments.
LEMMA CountImage ==
  ASSUME NEW f, f = [x \in DOMAIN f |-> f[x]], IsFiniteSet(DOMAIN f),
         \A x, y \in DOMAIN f : f[x] = f[y] => x = y
  PROVE  LET image == {f[x] : x \in DOMAIN f}
         IN  IsFiniteSet(image) /\ Cardinality(image) = Cardinality(DOMAIN f)
<1> DEFINE image == {f[x] : x \in DOMAIN f}
<1>1. f \in Bijection(DOMAIN f, image)
  BY DEF Bijection, Injection, Surjection, IsInjective
<1>2. QED
  BY <1>1, FS_Bijection DEF ExistsBijection

\* Counting is enough to tell that a set of elements of a list without
\* repetitions is all of them.
LEMMA CountingDistinct ==
  ASSUME NEW T, NEW qs \in Seq(T), IsInjective(qs),
         NEW answered, answered \subseteq Range(qs)
  PROVE  /\ Cardinality(answered) >= Len(qs) <=> Range(qs) \subseteq answered
         /\ Range(qs) \subseteq answered <=> \A k \in 1..Len(qs) : qs[k] \in answered
<1>1. Len(qs) \in Nat /\ DOMAIN qs = 1..Len(qs)
  OBVIOUS
<1>2. qs \in Bijection(1..Len(qs), Range(qs))
  BY <1>1 DEF Bijection, Injection, Surjection, IsInjective, Range
<1>3. IsFiniteSet(1..Len(qs)) /\ Cardinality(1..Len(qs)) = Len(qs)
  BY <1>1, CountTo
<1>4. IsFiniteSet(Range(qs)) /\ Cardinality(Range(qs)) = Len(qs)
  BY <1>2, <1>3, FS_Bijection DEF ExistsBijection
<1>5. /\ IsFiniteSet(answered)
      /\ Cardinality(answered) <= Len(qs)
      /\ Cardinality(answered) = Len(qs) => Range(qs) = answered
  BY <1>4, FS_Subset
<1>6. Cardinality(answered) \in Nat
  BY <1>5, FS_CardinalityType
<1>7. Range(qs) \subseteq answered => Cardinality(answered) = Len(qs)
  <2>1. Range(qs) \subseteq answered => Range(qs) = answered
    OBVIOUS
  <2>2. QED
    BY <2>1, <1>4
<1>8. Range(qs) \subseteq answered <=> \A k \in 1..Len(qs) : qs[k] \in answered
  BY <1>1 DEF Range
<1>9. QED
  BY <1>1, <1>5, <1>6, <1>7, <1>8
=============================================================================
