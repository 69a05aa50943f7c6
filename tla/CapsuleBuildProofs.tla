------------------------- MODULE CapsuleBuildProofs -------------------------
(***************************************************************************)
(* The capsule a build deploys, for any components, selections and number  *)
(* of builds.                                                              *)
(*                                                                         *)
(* What the loops over the components compute needs induction over their   *)
(* number, which is done here with the least counterexample: a set of      *)
(* natural numbers that is not empty has a least element.                  *)
(***************************************************************************)
EXTENDS CapsuleBuild, FiniteSetTheorems, WellFoundedInduction, TLAPS

N == Len(AllComponents)

-----------------------------------------------------------------------------
(***************************************************************************)
(* Induction, and the loop over the components.                            *)
(***************************************************************************)
LEMMA LeastElement ==
    ASSUME NEW S, S \subseteq Nat, S # {}
    PROVE  \E x \in S : \A y \in S : x <= y
<1>1. PICK x \in S : \A y \in S : <<y, x>> \notin OpToRel(<, Nat)
    BY WFMin, NatLessThanWellFounded
<1>2. \A y \in S : ~(y < x)
    BY <1>1 DEF OpToRel
<1>3. QED
    BY <1>2

\* Induction over 0..n for the set S of the numbers that have the property.
LEMMA UpTo ==
    ASSUME NEW n \in Nat, NEW S, 0 \in S,
           \A m \in 1..n : m - 1 \in S => m \in S
    PROVE  0..n \subseteq S
<1> DEFINE Bad == {m \in 0..n : m \notin S}
<1> SUFFICES ASSUME Bad # {} PROVE FALSE
    OBVIOUS
<1>5. Bad \subseteq Nat
    OBVIOUS
<1> HIDE DEF Bad
<1>1. PICK m \in Bad : \A k \in Bad : m <= k
    BY LeastElement, <1>5
<1> USE DEF Bad
<1>2. m \in 1..n
    BY <1>1
<1>3. m - 1 \in S
    BY <1>1, <1>2
<1>4. QED
    BY <1>1, <1>2, <1>3

-----------------------------------------------------------------------------
\* The components are told apart, and the dummies are the first and the last.
LEMMA ComponentsInOrder ==
    ASSUME Assumptions
    PROVE  /\ AllComponents \in Seq(Range(AllComponents))
           /\ N \in Nat /\ N >= 2 /\ DOMAIN AllComponents = 1..N
           /\ \A n \in 1..N : AllComponents[n] \in Range(AllComponents)
           /\ \A c \in Range(AllComponents) : \E n \in 1..N : AllComponents[n] = c
           /\ \A n, m \in 1..N : AllComponents[n] = AllComponents[m] => n = m
           /\ \A n \in 1..N : AllComponents[n] = DUMMY_START <=> n = 1
           /\ \A n \in 1..N : AllComponents[n] = DUMMY_END <=> n = N
<1> DEFINE S == Range(Components) \cup {DUMMY_START, DUMMY_END}
           len == Len(Components)
<1>1. Components \in Seq(Range(Components)) /\ Components \in Seq(S)
    BY DEF Assumptions
<1>2. <<DUMMY_START>> \in Seq(S) /\ <<DUMMY_END>> \in Seq(S)
    OBVIOUS
<1>3. DUMMY_START # DUMMY_END
    BY DEF DUMMY_START, DUMMY_END
<1>4. /\ AllComponents \in Seq(S) /\ N = len + 2
      /\ AllComponents[1] = DUMMY_START /\ AllComponents[N] = DUMMY_END
      /\ \A n \in 2..(N - 1) : AllComponents[n] = Components[n - 1]
    BY <1>1, <1>2 DEF AllComponents, N
<1>5. len \in Nat /\ DOMAIN Components = 1..len
    BY <1>1
<1>6. \A n \in 1..len : Components[n] \notin {DUMMY_START, DUMMY_END}
    BY <1>5 DEF Assumptions, Range
<1>7. \A n, m \in 1..len : Components[n] = Components[m] => n = m
    BY <1>5 DEF Assumptions, IsInjective
<1>8. DOMAIN AllComponents = 1..N
    BY <1>4 DEF N
<1>9. \A n \in 2..(N - 1) : n - 1 \in 1..len
    BY <1>4, <1>5
<1>10. \A n \in 1..N : AllComponents[n] = DUMMY_START <=> n = 1
    BY <1>3, <1>4, <1>5, <1>6, <1>9
<1>11. \A n \in 1..N : AllComponents[n] = DUMMY_END <=> n = N
    BY <1>3, <1>4, <1>5, <1>6, <1>9
<1>12. ASSUME NEW n \in 1..N, NEW m \in 1..N, AllComponents[n] = AllComponents[m]
       PROVE  n = m
  <2>1. CASE n \in {1, N}
    BY <1>10, <1>11, <1>12, <2>1
  <2>2. CASE m \in {1, N}
    BY <1>10, <1>11, <1>12, <2>2
  <2>3. CASE n \in 2..(N - 1) /\ m \in 2..(N - 1)
    <3>1. Components[n - 1] = Components[m - 1]
      BY <1>4, <1>12, <2>3
    <3>2. n - 1 = m - 1
      BY <1>7, <1>9, <2>3, <3>1
    <3>3. QED
      BY <2>3, <3>2
  <2>4. N \in Nat
    BY <1>4, <1>5
  <2>5. QED
    BY <2>1, <2>2, <2>3, <2>4
<1>13. AllComponents \in Seq(Range(AllComponents))
    BY <1>4, <1>8 DEF Range, N
<1>14. /\ \A n \in 1..N : AllComponents[n] \in Range(AllComponents)
       /\ \A c \in Range(AllComponents) : \E n \in 1..N : AllComponents[n] = c
    BY <1>8 DEF Range
<1>15. QED
    BY <1>4, <1>5, <1>8, <1>10, <1>11, <1>12, <1>13, <1>14

-----------------------------------------------------------------------------
(***************************************************************************)
(* Places(T).                                                              *)
(***************************************************************************)
\* One turn of the loop.
Turn(T, places, n) == IF AllComponents[n] \in T THEN Append(places, n) ELSE places

\* u has the results of the turns up to n.
Turns(T, u, n) == u = [m \in 0..n |-> IF m = 0 THEN <<>> ELSE Turn(T, u[m - 1], m)]

LEMMA TurnsExist == ASSUME NEW T, NEW n \in Nat PROVE \E u : Turns(T, u, n)
<1> DEFINE S == {m \in 0..n : \E u : Turns(T, u, m)}
<1>1. 0 \in S
  <2> DEFINE u == [m \in 0..0 |-> <<>>]
  <2>1. u = [m \in 0..0 |-> IF m = 0 THEN <<>> ELSE Turn(T, u[m - 1], m)]
    OBVIOUS
  <2>2. Turns(T, u, 0)
    BY <2>1 DEF Turns
  <2>3. QED
    BY <2>2
<1>2. ASSUME NEW m \in 1..n, m - 1 \in S PROVE m \in S
  <2>1. PICK u : Turns(T, u, m - 1)
    BY <1>2
  <2> DEFINE v == [k \in 0..m |-> IF k = m THEN Turn(T, u[m - 1], m) ELSE u[k]]
  <2>2. u = [k \in 0..(m - 1) |-> IF k = 0 THEN <<>> ELSE Turn(T, u[k - 1], k)]
    BY <2>1 DEF Turns
  <2>3. ASSUME NEW k \in 0..m
        PROVE  v[k] = IF k = 0 THEN <<>> ELSE Turn(T, v[k - 1], k)
    <3>1. CASE k = m
      BY <1>2, <3>1
    <3>2. CASE k = 0
      BY <1>2, <2>2, <3>2
    <3>3. CASE k \in 1..(m - 1)
      <4>1. v[k] = u[k] /\ v[k - 1] = u[k - 1]
        BY <1>2, <3>3
      <4>2. u[k] = Turn(T, u[k - 1], k)
        BY <2>2, <3>3
      <4>3. QED
        BY <3>3, <4>1, <4>2
    <3>4. QED
      BY <1>2, <3>1, <3>2, <3>3
  <2> HIDE DEF v
  <2>4. v = [k \in 0..m |-> v[k]]
    BY DEF v
  <2>5. Turns(T, v, m)
    BY <2>3, <2>4 DEF Turns
  <2>6. QED
    BY <2>5
<1> HIDE DEF S
<1>3. 0..n \subseteq S
    BY <1>1, <1>2, UpTo
<1>4. QED
    BY <1>3 DEF S

\* What the loop has found after n turns: the places up to n of what is in T, in
\* their order; if it has found n, these are all.
Found(T, places, n) ==
    /\ places \in Seq(1..n)
    /\ \A i, j \in 1..Len(places) : i < j => places[i] < places[j]
    /\ \A m \in 1..n : AllComponents[m] \in T <=> \E i \in 1..Len(places) : places[i] = m
    /\ Len(places) <= n
    /\ Len(places) = n => \A i \in 1..n : places[i] = i

LEMMA TurnsFind ==
    ASSUME NEW T, NEW n \in Nat, NEW u, Turns(T, u, n)
    PROVE  Found(T, u[n], n)
<1> DEFINE S == {m \in 0..n : Found(T, u[m], m)}
<1>1. u = [m \in 0..n |-> IF m = 0 THEN <<>> ELSE Turn(T, u[m - 1], m)]
    BY DEF Turns
<1>2. 0 \in S
  <2>1. u[0] = <<>>
    BY <1>1
  <2>2. Found(T, <<>>, 0)
    BY DEF Found
  <2>3. QED
    BY <2>1, <2>2
<1>3. ASSUME NEW m \in 1..n, m - 1 \in S PROVE m \in S
  <2> DEFINE p == u[m - 1]  q == u[m]
  <2>1. Found(T, p, m - 1)
    BY <1>3
  <2>2. q = Turn(T, p, m)
    BY <1>1, <1>3
  <2> HIDE DEF p, q
  <2>3. p \in Seq(1..m) /\ Len(p) \in 0..(m - 1)
    BY <2>1 DEF Found
  <2>4. ASSUME AllComponents[m] \in T PROVE Found(T, q, m)
    <3>1. q = Append(p, m)
      BY <2>2, <2>4 DEF Turn
    <3>2. /\ q \in Seq(1..m) /\ Len(q) = Len(p) + 1
          /\ q[Len(p) + 1] = m /\ \A i \in 1..Len(p) : q[i] = p[i]
      BY <2>3, <3>1
    <3>3. \A i \in 1..Len(p) : p[i] \in 1..(m - 1)
      BY <2>1 DEF Found
    <3>4. \A i, j \in 1..Len(q) : i < j => q[i] < q[j]
      <4>1. \A i, j \in 1..Len(p) : i < j => p[i] < p[j]
        BY <2>1 DEF Found
      <4>2. \A i \in 1..Len(q) : i \in 1..Len(p) \/ i = Len(p) + 1
        BY <2>3, <3>2
      <4>3. \A i \in 1..Len(p) : q[i] = p[i] /\ q[i] < m
        BY <1>3, <3>2, <3>3
      <4>4. ASSUME NEW i \in 1..Len(q), NEW j \in 1..Len(q), i < j
            PROVE  q[i] < q[j]
        <5>1. i \in 1..Len(p)
          BY <2>3, <4>2, <4>4
        <5>2. CASE j = Len(p) + 1
          BY <3>2, <4>3, <5>1, <5>2
        <5>3. CASE j \in 1..Len(p)
          BY <4>1, <4>3, <4>4, <5>1, <5>3
        <5>4. QED
          BY <4>2, <5>2, <5>3
      <4>5. QED
        BY <4>4
    <3>5. ASSUME NEW k \in 1..m
          PROVE  AllComponents[k] \in T <=> \E i \in 1..Len(q) : q[i] = k
      <4>1. CASE k = m
        BY <2>3, <2>4, <3>2, <4>1
      <4>2. CASE k \in 1..(m - 1)
        <5>1. AllComponents[k] \in T <=> \E i \in 1..Len(p) : p[i] = k
          BY <2>1, <4>2 DEF Found
        <5>2. ASSUME NEW i \in 1..Len(p), p[i] = k
              PROVE  \E j \in 1..Len(q) : q[j] = k
          <6>1. i \in 1..Len(q) /\ q[i] = k
            BY <2>3, <3>2, <5>2
          <6>2. QED
            BY <6>1
        <5>3. ASSUME NEW i \in 1..Len(q), q[i] = k
              PROVE  \E j \in 1..Len(p) : p[j] = k
          <6>1. i # Len(p) + 1
            BY <1>3, <3>2, <4>2, <5>3
          <6>2. i \in 1..Len(p)
            BY <2>3, <3>2, <6>1
          <6>3. p[i] = k
            BY <3>2, <5>3, <6>2
          <6>4. QED
            BY <6>2, <6>3
        <5>4. QED
          BY <5>1, <5>2, <5>3
      <4>3. QED
        BY <1>3, <4>1, <4>2
    <3>6. Len(q) = m => \A i \in 1..m : q[i] = i
      <4>1. Len(p) = m - 1 => \A i \in 1..(m - 1) : p[i] = i
        BY <2>1 DEF Found
      <4>2. SUFFICES ASSUME Len(q) = m, NEW i \in 1..m PROVE q[i] = i
        OBVIOUS
      <4>3. Len(p) = m - 1
        BY <1>3, <2>3, <3>2, <4>2
      <4>4. CASE i = m
        BY <3>2, <4>3, <4>4
      <4>5. CASE i \in 1..(m - 1)
        BY <3>2, <4>1, <4>3, <4>5
      <4>6. QED
        BY <1>3, <4>2, <4>4, <4>5
    <3>7. Len(q) <= m
      BY <2>3, <3>2
    <3>8. QED
      BY <3>2, <3>4, <3>5, <3>6, <3>7 DEF Found
  <2>5. ASSUME AllComponents[m] \notin T PROVE Found(T, q, m)
    <3>1. q = p
      BY <2>2, <2>5 DEF Turn
    <3>2. \A i \in 1..Len(p) : p[i] \in 1..(m - 1)
      BY <2>1 DEF Found
    <3>3. ASSUME NEW k \in 1..m
          PROVE  AllComponents[k] \in T <=> \E i \in 1..Len(q) : q[i] = k
      <4>1. CASE k = m
        BY <1>3, <2>5, <3>1, <3>2, <4>1
      <4>2. CASE k \in 1..(m - 1)
        BY <2>1, <3>1, <4>2 DEF Found
      <4>3. QED
        BY <1>3, <4>1, <4>2
    <3>4. \A i, j \in 1..Len(q) : i < j => q[i] < q[j]
      BY <2>1, <3>1 DEF Found
    <3>5. Len(q) <= m /\ Len(q) # m
      BY <1>3, <2>3, <3>1
    <3>6. QED
      BY <2>3, <3>1, <3>3, <3>4, <3>5 DEF Found
  <2>6. Found(T, q, m)
    BY <2>4, <2>5
  <2>7. QED
    BY <2>6 DEF q
<1> HIDE DEF S
<1>4. 0..n \subseteq S
    BY <1>2, <1>3, UpTo
<1>5. QED
    BY <1>4 DEF S

\* Places(T) are the places of the components that are in T, in their order.
LEMMA PlacesAreFound == ASSUME Assumptions, NEW T PROVE Found(T, Places(T), N)
<1>1. N \in Nat
    BY ComponentsInOrder
<1> DEFINE u == CHOOSE u : Turns(T, u, N)
<1>2. Turns(T, u, N)
    BY <1>1, TurnsExist
<1>3. Places(T) = u[N]
    BY DEF Places, Turns, Turn, N
<1> HIDE DEF u
<1>4. QED
    BY <1>1, <1>2, <1>3, TurnsFind

-----------------------------------------------------------------------------
(***************************************************************************)
(* The lists and the payloads.                                             *)
(***************************************************************************)
\* A list that has as many values as there are components has that of each.
LEMMA ListIsOfComponents ==
    ASSUME Assumptions, NEW empty
    PROVE  /\ List(empty) \in Seq(Range(AllComponents))
           /\ Len(List(empty)) <= N
           /\ Len(List(empty)) = N => \A n \in 1..N : List(empty)[n] = AllComponents[n]
<1> DEFINE p == Places(Range(AllComponents) \ empty)  l == Len(p)
<1>1. Found(Range(AllComponents) \ empty, p, N)
    BY PlacesAreFound
<1>2. List(empty) = [k \in DOMAIN p |-> AllComponents[p[k]]]
    BY DEF List, Chosen
<1> HIDE DEF p
<1>3. p \in Seq(1..N) /\ l \in Nat /\ DOMAIN p = 1..l
    BY <1>1 DEF Found
<1>4. \A k \in 1..l : AllComponents[p[k]] \in Range(AllComponents)
    BY <1>3, ComponentsInOrder
<1>5. List(empty) \in Seq(Range(AllComponents)) /\ Len(List(empty)) = l
    BY <1>2, <1>3, <1>4
<1>6. l <= N /\ (l = N => \A n \in 1..N : p[n] = n)
    BY <1>1 DEF Found
<1>7. QED
    BY <1>2, <1>3, <1>5, <1>6

\* The dummies are always selected.
LEMMA DummiesAreSelected ==
    ASSUME Assumptions, config \in Configurations
    PROVE  /\ DUMMY_START \in Included /\ DUMMY_END \in Included
           /\ Included = Range(AllComponents) \cap Range(Selected)
<1> DEFINE s == config.selection
           S == Range(s) \cup {DUMMY_START, DUMMY_END}
<1>1. s \in Seq(S)
  <2>1. s \in Selections
    BY DEF Configurations
  <2>2. s \in Seq(Range(s))
    BY <2>1 DEF Assumptions
  <2>3. QED
    BY <2>2
<1> HIDE DEF S, s
<1>2. <<DUMMY_START, DUMMY_END>> \in Seq(S)
    BY DEF S
<1>3. /\ Selected \in Seq(S) /\ Len(Selected) = Len(s) + 2 /\ Len(s) \in Nat
      /\ Selected[Len(s) + 1] = DUMMY_START /\ Selected[Len(s) + 2] = DUMMY_END
    BY <1>1, <1>2 DEF Selected, s
<1>4. DOMAIN Selected = 1..Len(Selected) /\ Selected # <<>>
    BY <1>3
<1>5. \A c : Contains(Selected, c) <=> c \in Range(Selected)
    BY <1>4 DEF Contains, Range
<1>6. Included = Range(AllComponents) \cap Range(Selected)
    BY <1>4, <1>5 DEF Included
<1>7. DUMMY_START \in Range(Selected) /\ DUMMY_END \in Range(Selected)
    BY <1>3, <1>4 DEF Range
<1>8. DUMMY_START \in Range(AllComponents) /\ DUMMY_END \in Range(AllComponents)
    BY ComponentsInOrder
<1>9. QED
    BY <1>6, <1>7, <1>8

\* What the client expects of a capsule.
WellFormed(c) ==
    /\ c \in Seq(Range(c)) /\ Named(c)
    /\ \A n \in DOMAIN c :
         /\ c[n].component = DUMMY_START <=> n = 1
         /\ c[n].component = DUMMY_END <=> n = Len(c)

\* An increasing sequence of numbers up to n with 1 and n has them at its ends.
LEMMA FirstAndLast ==
    ASSUME NEW n \in Nat, NEW p \in Seq(1..n), 1 \in Range(p), n \in Range(p),
           \A k, m \in 1..Len(p) : k < m => p[k] < p[m]
    PROVE  \A k \in 1..Len(p) : (p[k] = 1 <=> k = 1) /\ (p[k] = n <=> k = Len(p))
<1>0. Len(p) \in Nat
    OBVIOUS
<1>1. DOMAIN p = 1..Len(p) /\ Len(p) \in Nat /\ \A k \in 1..Len(p) : p[k] \in 1..n
    OBVIOUS
<1>2. PICK i \in 1..Len(p) : p[i] = 1
    BY <1>1 DEF Range
<1>3. PICK j \in 1..Len(p) : p[j] = n
    BY <1>1 DEF Range
<1>4. ~(1 < i)
    BY <1>1, <1>2
<1>5. ~(j < Len(p))
    BY <1>1, <1>3
<1>6. i = 1 /\ j = Len(p)
  <2>1. i = 1
    BY <1>1, <1>4
  <2>2. j = Len(p)
    BY <1>0, <1>5
  <2>3. QED
    BY <2>1, <2>2
<1>7. ASSUME NEW k \in 1..Len(p) PROVE p[k] = 1 => k = 1
  <2>1. ~(1 < k /\ p[k] = 1)
    BY <1>1, <1>2, <1>6
  <2>2. QED
    BY <1>1, <2>1
<1>8. ASSUME NEW k \in 1..Len(p) PROVE p[k] = n => k = Len(p)
  <2>1. ~(k < Len(p) /\ p[k] = n)
    BY <1>1, <1>3, <1>6
  <2>2. k < Len(p) \/ k = Len(p)
    BY <1>0
  <2>3. QED
    BY <2>1, <2>2
<1>9. QED
    BY <1>2, <1>3, <1>6, <1>7, <1>8

\* The payloads are of the places of what is selected, which are those of the first
\* and of the last component and some in between.
LEMMA PayloadsInOrder ==
    ASSUME Assumptions, config \in Configurations
    PROVE  /\ Found(Included, Places(Included), N)
           /\ DOMAIN CreatePayloads = 1..Len(Places(Included))
           /\ Len(CreatePayloads) = Len(Places(Included))
           /\ \A k \in DOMAIN CreatePayloads :
                 /\ Places(Included)[k] \in 1..N
                 /\ CreatePayloads[k] = Payload(Places(Included)[k])
                 /\ CreatePayloads[k].component = AllComponents[Places(Included)[k]]
           /\ WellFormed(CreatePayloads)
<1> DEFINE p == Places(Included)  l == Len(p)
<1>1. Found(Included, p, N)
    BY PlacesAreFound
<1>6. N \in Nat /\ N >= 2
    BY ComponentsInOrder
<1>2. CreatePayloads = [k \in DOMAIN p |-> Payload(p[k])]
    BY DEF CreatePayloads
<1> HIDE DEF p
<1>3. p \in Seq(1..N) /\ l \in Nat /\ DOMAIN p = 1..l
    BY <1>1 DEF Found
<1>4. DOMAIN CreatePayloads = 1..l /\ Len(CreatePayloads) = l
    BY <1>2, <1>3
<1>5. ASSUME NEW k \in 1..l
      PROVE  /\ p[k] \in 1..N
             /\ CreatePayloads[k] = Payload(p[k])
             /\ CreatePayloads[k].component = AllComponents[p[k]]
  <2>1. p[k] \in 1..N
    BY <1>3, <1>6
  <2>2. CreatePayloads[k] = Payload(p[k])
    BY <1>2, <1>3
  <2>3. Payload(p[k]).component = AllComponents[p[k]]
    BY DEF Payload
  <2>4. QED
    BY <2>1, <2>2, <2>3
<1>7. 1 \in Range(p) /\ N \in Range(p)
  <2>1. \A n \in 1..N : AllComponents[n] \in Included => n \in Range(p)
    BY <1>1, <1>3 DEF Found, Range
  <2>2. 1 \in 1..N /\ N \in 1..N
    BY <1>6
  <2>3. AllComponents[1] = DUMMY_START /\ AllComponents[N] = DUMMY_END
    BY <2>2, ComponentsInOrder
  <2>4. QED
    BY <2>1, <2>2, <2>3, DummiesAreSelected
<1>8. \A k, m \in 1..l : k < m => p[k] < p[m]
    BY <1>1 DEF Found
<1>9. \A k \in 1..l : (p[k] = 1 <=> k = 1) /\ (p[k] = N <=> k = l)
    BY <1>3, <1>6, <1>7, <1>8, FirstAndLast
<1>10. WellFormed(CreatePayloads)
  <2>1. CreatePayloads \in Seq(Range(CreatePayloads))
    BY <1>2, <1>3 DEF Range
  <2>2. Named(CreatePayloads)
    BY <1>4, <1>5, ComponentsInOrder DEF Named
  <2>3. ASSUME NEW n \in DOMAIN CreatePayloads
        PROVE  /\ CreatePayloads[n].component = DUMMY_START <=> n = 1
               /\ CreatePayloads[n].component = DUMMY_END <=> n = Len(CreatePayloads)
    <3>1. n \in 1..l /\ p[n] \in 1..N /\ CreatePayloads[n].component = AllComponents[p[n]]
      BY <1>4, <1>5
    <3>2. /\ AllComponents[p[n]] = DUMMY_START <=> p[n] = 1
          /\ AllComponents[p[n]] = DUMMY_END <=> p[n] = N
      BY <3>1, ComponentsInOrder
    <3>3. QED
      BY <1>4, <1>9, <3>1, <3>2
  <2>4. QED
    BY <2>1, <2>2, <2>3 DEF WellFormed
<1>11. QED
    BY <1>1, <1>4, <1>5, <1>10 DEF p

\* What a build that could write its JSON file promises of its capsule.
OfThisBuild(caps) ==
    /\ {caps[n].component : n \in DOMAIN caps} = Range(AllComponents) \cap Range(Selected)
    /\ \A n, m \in DOMAIN caps : n < m => Place(caps[n].component) < Place(caps[m].component)
    /\ \A n \in DOMAIN caps :
         LET c == caps[n].component
         IN  caps[n] = [component |-> c, pem |-> [key |-> c, cert |-> c],
                        certificate |-> c, fields |-> c]

\* What MakePems makes, as long as the configuration stays the same.
PemsAreMade ==
    /\ pems = [n \in DOMAIN List(config.keys) |->
                 [key |-> List(config.keys)[n], cert |-> List(config.certs)[n]]]
    /\ Len(List(config.keys)) = Len(List(config.certs))

\* With lists of one length, each payload has what belongs to its component.
LEMMA PayloadsAreOfThisBuild ==
    ASSUME Assumptions, config \in Configurations, PemsAreMade, ListsAreValid
    PROVE  OfThisBuild(CreatePayloads)
<1> DEFINE p == Places(Included)  l == Len(p)  pay == CreatePayloads
<1>1. N \in Nat /\ DOMAIN AllComponents = 1..N
    BY ComponentsInOrder
<1>2. Len(pems) = Len(List(config.keys))
  <2>1. List(config.keys) \in Seq(Range(AllComponents))
    BY ListIsOfComponents
  <2>2. QED
    BY <2>1 DEF PemsAreMade
<1>3. /\ Len(List(config.keys)) = N /\ Len(List(config.certs)) = N
      /\ Len(List(config.fields)) = N
  <2> DEFINE lengths == {N, Len(pems), Len(List(config.certs)), Len(List(config.fields))}
  <2>1. Cardinality(lengths) = 1
    BY DEF ListsAreValid, N
  <2>2. IsFiniteSet(lengths)
    <3>1. \A empty : Len(List(empty)) \in 0..N
      <4>1. ASSUME NEW empty PROVE Len(List(empty)) \in 0..N
        BY <1>1, ListIsOfComponents
      <4>2. QED
        BY <4>1
    <3>2. lengths \subseteq 0..N
      BY <1>1, <1>2, <3>1
    <3>3. QED
      <4>1. IsFiniteSet(0..N)
        BY <1>1, FS_Interval
      <4>2. QED
        BY <3>2, <4>1, FS_Subset
  <2> HIDE DEF lengths
  <2>3. \E x : lengths = {x}
    BY <2>1, <2>2, FS_Singleton
  <2>4. QED
    BY <1>2, <2>3 DEF lengths
<1>4. ASSUME NEW n \in 1..N
      PROVE  Payload(n) = [component |-> AllComponents[n],
                           pem |-> [key |-> AllComponents[n], cert |-> AllComponents[n]],
                           certificate |-> AllComponents[n], fields |-> AllComponents[n]]
  <2>1. /\ List(config.keys)[n] = AllComponents[n]
        /\ List(config.certs)[n] = AllComponents[n]
        /\ List(config.fields)[n] = AllComponents[n]
    BY <1>3, ListIsOfComponents
  <2>2. n \in DOMAIN List(config.keys)
    BY <1>3, ListIsOfComponents
  <2>3. pems[n] = [key |-> AllComponents[n], cert |-> AllComponents[n]]
    BY <2>1, <2>2 DEF PemsAreMade
  <2>4. QED
    BY <2>1, <2>3 DEF Payload
<1>5. \A n \in 1..N : Place(AllComponents[n]) = n
    BY <1>1, ComponentsInOrder DEF Place
<1>6. Found(Included, p, N) /\ DOMAIN pay = 1..l
    BY PayloadsInOrder
<1>7. \A k \in 1..l : p[k] \in 1..N /\ pay[k] = Payload(p[k])
                       /\ pay[k].component = AllComponents[p[k]]
    BY <1>6, PayloadsInOrder
<1> HIDE DEF p, pay
<1>8. {pay[n].component : n \in DOMAIN pay} = Included
  <2>1. ASSUME NEW c \in Included PROVE \E k \in DOMAIN pay : pay[k].component = c
    <3>1. PICK n \in 1..N : AllComponents[n] = c
      BY ComponentsInOrder, DummiesAreSelected
    <3>2. PICK k \in 1..l : p[k] = n
      BY <1>6, <3>1, <2>1 DEF Found
    <3>3. QED
      BY <1>6, <1>7, <3>1, <3>2
  <2>2. ASSUME NEW k \in DOMAIN pay PROVE pay[k].component \in Included
    <3>1. k \in 1..l /\ p[k] \in 1..N
      BY <1>6, <1>7, <2>2
    <3>2. AllComponents[p[k]] \in Included
      BY <1>6, <3>1 DEF Found
    <3>3. QED
      BY <1>7, <3>1, <3>2
  <2>3. QED
    BY <2>1, <2>2
<1>9. \A n, m \in DOMAIN pay : n < m => Place(pay[n].component) < Place(pay[m].component)
  <2> SUFFICES ASSUME NEW n \in 1..l, NEW m \in 1..l, n < m
               PROVE  Place(pay[n].component) < Place(pay[m].component)
    BY <1>6
  <2>1. p[n] < p[m]
    BY <1>6 DEF Found
  <2>2. Place(pay[n].component) = p[n] /\ Place(pay[m].component) = p[m]
    BY <1>5, <1>7
  <2>3. QED
    BY <2>1, <2>2
<1>10. \A n \in DOMAIN pay :
         pay[n] = [component |-> pay[n].component,
                   pem |-> [key |-> pay[n].component, cert |-> pay[n].component],
                   certificate |-> pay[n].component, fields |-> pay[n].component]
    BY <1>4, <1>6, <1>7
<1>11. QED
    BY <1>8, <1>9, <1>10, DummiesAreSelected DEF OfThisBuild, pay

-----------------------------------------------------------------------------
(***************************************************************************)
(* The inductive invariant.                                                *)
(***************************************************************************)
\* The outcome is that of a build that is over; the PEM files and the checked lists
\* are those of the configuration of the build under way.
Building ==
    /\ pc # "idle" => outcome = "none"
    /\ pc \in {"script", "write", "tool"} => PemsAreMade
    /\ pc \in {"write", "tool"} => ListsAreValid

\* A JSON file that is whole and a capsule are what a client can take, whichever
\* build they are of.
AllWellFormed ==
    /\ json = "whole" => WellFormed(payloads)
    /\ capsule # <<>> => WellFormed(capsule)

\* The JSON file, unless it could not be written, and then the capsule are of this
\* build.
FromThisBuild ==
    /\ pc = "tool" /\ ~unwritten => OfThisBuild(payloads)
    /\ outcome = "done" /\ ~unwritten => OfThisBuild(capsule)

Inv == TypeOK /\ Building /\ AllWellFormed /\ FromThisBuild

LEMMA InvInit == ASSUME Assumptions, Init PROVE Inv
<1>1. Len(pems) <= Len(AllComponents) /\ Named(payloads) /\ Named(capsule)
  <2>1. pems = <<>> /\ payloads = <<>> /\ capsule = <<>>
    BY DEF Init
  <2>2. Len(<<>>) = 0 /\ Len(AllComponents) \in Nat
    BY ComponentsInOrder
  <2>3. Named(<<>>)
    BY DEF Named
  <2>4. QED
    BY <2>1, <2>2, <2>3, 0 <= Len(AllComponents)
<1>2. config \in Configurations /\ builds \in 0..MaxBuilds
    BY DEF Init, Assumptions
<1>3. unwritten \in BOOLEAN
    BY DEF Init
<1>4. TypeOK
    BY <1>1, <1>2, <1>3 DEF Init, TypeOK
<1>5. Building /\ AllWellFormed /\ FromThisBuild
    BY DEF Init, Building, AllWellFormed, FromThisBuild
<1>6. QED
    BY <1>4, <1>5 DEF Inv

-----------------------------------------------------------------------------
(***************************************************************************)
(* Each step of the task.                                                  *)
(***************************************************************************)
\* What a step leaves as it is that leaves the configuration, or the PEM files too.
LEMMA SameConfiguration ==
    ASSUME config' = config
    PROVE  /\ payloads' = CreatePayloads => (OfThisBuild(payloads)' <=> OfThisBuild(CreatePayloads))
           /\ payloads' = payloads => (OfThisBuild(payloads)' <=> OfThisBuild(payloads))
           /\ capsule' = capsule => (OfThisBuild(capsule)' <=> OfThisBuild(capsule))
           /\ capsule' = payloads => (OfThisBuild(capsule)' <=> OfThisBuild(payloads))
BY DEF OfThisBuild, Selected

LEMMA SamePems ==
    ASSUME config' = config, pems' = pems
    PROVE  (PemsAreMade' <=> PemsAreMade) /\ (ListsAreValid' <=> ListsAreValid)
BY DEF PemsAreMade, ListsAreValid, List

\* The files stay what a client can take when they stay as they are.
LEMMA SameFiles ==
    ASSUME UNCHANGED <<json, payloads, capsule>>, AllWellFormed PROVE AllWellFormed'
BY DEF AllWellFormed, WellFormed, Named

LEMMA BuildInv == ASSUME Assumptions, Inv, Build PROVE Inv'
<1> USE DEF Inv, TypeOK, Build
<1>1. builds' \in 0..MaxBuilds
    BY DEF Assumptions
<1>2. /\ pc' = "pems" /\ outcome' = "none" /\ config' \in Configurations
      /\ json' \in {"absent", "torn", "whole"} /\ pems' = pems /\ capsule' = capsule
    OBVIOUS
<1>3. unwritten' \in BOOLEAN
    OBVIOUS
<1>4. Named(payloads)' /\ Named(capsule)'
  <2>1. Named(<<>>)
    BY DEF Named
  <2>2. QED
    BY <2>1 DEF Named
<1>5. TypeOK'
    BY <1>1, <1>2, <1>3, <1>4
<1>6. Building'
    BY <1>2 DEF Building
<1>7. AllWellFormed'
    BY DEF AllWellFormed, WellFormed, Named
<1>8. FromThisBuild'
    BY <1>2 DEF FromThisBuild
<1>9. QED
    BY <1>5, <1>6, <1>7, <1>8

LEMMA MakePemsInv == ASSUME Assumptions, Inv, MakePems PROVE Inv'
<1> USE DEF Inv
<1>1. /\ pc = "pems" /\ outcome = "none"
      /\ UNCHANGED <<config, json, payloads, capsule, unwritten, builds>>
    BY DEF MakePems, Building
<1>2. CASE Len(List(config.keys)) = Len(List(config.certs))
  <2>1. /\ pems' = [n \in DOMAIN List(config.keys) |->
                      [key |-> List(config.keys)[n], cert |-> List(config.certs)[n]]]
        /\ pc' = "script" /\ outcome' = "none"
    BY <1>1, <1>2 DEF MakePems
  <2>2. PemsAreMade'
    BY <1>1, <1>2, <2>1 DEF PemsAreMade, List
  <2>3. Len(pems)' <= Len(AllComponents)
    <3>1. /\ List(config.keys) \in Seq(Range(AllComponents))
          /\ Len(List(config.keys)) <= Len(AllComponents)
      BY ListIsOfComponents DEF N
    <3>2. Len(pems)' = Len(List(config.keys))
      BY <2>1, <3>1
    <3>3. QED
      BY <3>1, <3>2
  <2>4. TypeOK'
    BY <1>1, <2>1, <2>3 DEF TypeOK, Named
  <2>5. Building' /\ FromThisBuild'
    BY <2>1, <2>2 DEF Building, FromThisBuild
  <2>6. QED
    BY <1>1, <2>4, <2>5, SameFiles
<1>3. CASE Len(List(config.keys)) # Len(List(config.certs))
  <2>1. pc' = "idle" /\ outcome' = "failed" /\ pems' = pems
    BY <1>3 DEF MakePems, Fail
  <2>2. TypeOK'
    BY <1>1, <2>1 DEF TypeOK, Named
  <2>3. Building' /\ FromThisBuild'
    BY <2>1 DEF Building, FromThisBuild
  <2>4. QED
    BY <1>1, <2>2, <2>3, SameFiles
<1>4. QED
    BY <1>2, <1>3

LEMMA CheckArgumentsInv == ASSUME Assumptions, Inv, CheckArguments PROVE Inv'
<1> USE DEF Inv
<1>1. /\ pc = "script" /\ outcome = "none" /\ PemsAreMade
      /\ UNCHANGED <<config, pems, json, payloads, capsule, unwritten, builds>>
    BY DEF CheckArguments, Building
<1>2. CASE ListsAreValid /\ CreatePayloads # <<>>
  <2>1. pc' = "write" /\ outcome' = "none"
    BY <1>1, <1>2 DEF CheckArguments
  <2>2. TypeOK'
    BY <1>1, <2>1 DEF TypeOK, Named
  <2>3. Building' /\ FromThisBuild'
    BY <1>1, <1>2, <2>1, SamePems DEF Building, FromThisBuild
  <2>4. QED
    BY <1>1, <2>2, <2>3, SameFiles
<1>3. CASE ~(ListsAreValid /\ CreatePayloads # <<>>)
  <2>1. pc' = "idle" /\ outcome' = "failed"
    BY <1>3 DEF CheckArguments, Fail
  <2>2. TypeOK'
    BY <1>1, <2>1 DEF TypeOK, Named
  <2>3. Building' /\ FromThisBuild'
    BY <2>1 DEF Building, FromThisBuild
  <2>4. QED
    BY <1>1, <2>2, <2>3, SameFiles
<1>4. QED
    BY <1>2, <1>3

LEMMA WriteJsonFileInv == ASSUME Assumptions, Inv, WriteJsonFile PROVE Inv'
<1> USE DEF Inv
<1>1. /\ pc = "write" /\ outcome = "none" /\ PemsAreMade /\ ListsAreValid
      /\ pc' = "tool" /\ UNCHANGED <<config, pems, capsule, outcome, builds>>
    BY DEF WriteJsonFile, Building
<1>2. config \in Configurations
    BY DEF TypeOK
<1>3. Building'
    BY <1>1, SamePems DEF Building
<1>4. WellFormed(CreatePayloads) /\ OfThisBuild(CreatePayloads)
    BY <1>1, <1>2, PayloadsInOrder, PayloadsAreOfThisBuild
<1>5. unwritten' \in BOOLEAN
    BY DEF WriteJsonFile, TypeOK
<1>6. CASE json' = "whole" /\ payloads' = CreatePayloads
  <2>1. TypeOK'
    BY <1>1, <1>4, <1>5, <1>6 DEF TypeOK, Named, WellFormed
  <2>2. AllWellFormed'
    BY <1>1, <1>4, <1>6 DEF AllWellFormed, WellFormed, Named
  <2>3. FromThisBuild'
    BY <1>1, <1>4, <1>6, SameConfiguration DEF FromThisBuild
  <2>4. QED
    BY <1>3, <2>1, <2>2, <2>3
<1>7. CASE unwritten'
  <2>1. \/ json' = "whole" /\ payloads' = CreatePayloads
        \/ json' = "torn" /\ payloads' = <<>>
        \/ UNCHANGED <<json, payloads>>
    BY DEF WriteJsonFile
  <2>2. Named(<<>>)
    BY DEF Named
  <2>3. TypeOK'
    BY <1>1, <1>4, <1>5, <2>1, <2>2 DEF TypeOK, Named, WellFormed
  <2>4. AllWellFormed'
    BY <1>1, <1>4, <2>1 DEF AllWellFormed, WellFormed, Named
  <2>5. FromThisBuild'
    BY <1>1, <1>7 DEF FromThisBuild
  <2>6. QED
    BY <1>3, <2>3, <2>4, <2>5
<1>8. QED
    BY <1>6, <1>7 DEF WriteJsonFile

LEMMA GenerateCapsuleInv == ASSUME Assumptions, Inv, GenerateCapsule PROVE Inv'
<1> USE DEF Inv
<1>1. /\ pc = "tool" /\ pc' = "idle"
      /\ UNCHANGED <<config, pems, json, payloads, unwritten, builds>>
    BY DEF GenerateCapsule, Fail
<1>2. Building'
    BY <1>1 DEF Building
<1>3. CASE json = "whole" /\ capsule' = payloads /\ outcome' = "done"
  <2>1. WellFormed(payloads)
    BY <1>3 DEF AllWellFormed
  <2>2. TypeOK'
    BY <1>1, <1>3 DEF TypeOK, Named
  <2>3. AllWellFormed'
    BY <1>1, <1>3, <2>1 DEF AllWellFormed, WellFormed, Named
  <2>4. FromThisBuild'
    BY <1>1, <1>3, SameConfiguration DEF FromThisBuild
  <2>5. QED
    BY <1>2, <2>2, <2>3, <2>4
<1>4. CASE capsule' = capsule /\ outcome' = "failed"
  <2>1. TypeOK'
    BY <1>1, <1>4 DEF TypeOK, Named
  <2>2. AllWellFormed'
    BY <1>1, <1>4, SameFiles
  <2>3. FromThisBuild'
    BY <1>1, <1>4 DEF FromThisBuild
  <2>4. QED
    BY <1>2, <2>1, <2>2, <2>3
<1>5. QED
    BY <1>3, <1>4 DEF GenerateCapsule, Fail

LEMMA InvNext == ASSUME Assumptions, Inv, [Next]_vars PROVE Inv'
<1>1. CASE UNCHANGED vars
  <2>1. UNCHANGED <<pc, config, pems, json, payloads, capsule, outcome, unwritten, builds>>
    BY <1>1 DEF vars
  <2>2. TypeOK'
    BY <2>1 DEF Inv, TypeOK, Named
  <2>3. Building' /\ AllWellFormed' /\ FromThisBuild'
    BY <2>1, SamePems, SameFiles, SameConfiguration DEF Inv, Building, FromThisBuild
  <2>4. QED
    BY <2>2, <2>3 DEF Inv
<1>2. QED
    BY <1>1, BuildInv, MakePemsInv, CheckArgumentsInv, WriteJsonFileInv,
       GenerateCapsuleInv DEF Next

LEMMA CapsuleInvariant == ASSUME Assumptions PROVE Spec => []Inv
BY InvInit, InvNext, PTL DEF Spec

\* Every variable of the task keeps its type, whatever is configured and whichever
\* writes fail: there are never more PEM files than components.
THEOREM CapsuleTypeCorrect == ASSUME Assumptions PROVE Spec => []TypeOK
<1>1. Inv => TypeOK
    BY DEF Inv
<1>2. QED
    BY <1>1, CapsuleInvariant, PTL

\* For any components, selections and number of builds: a build that could write its
\* JSON file deploys the capsule of its own selection, in the order of the
\* components, with the key, the certificate and the fields of each.
THEOREM CapsulesAreOfTheirBuild == ASSUME Assumptions PROVE Spec => []CapsuleIsOfThisBuild
<1>1. Inv => CapsuleIsOfThisBuild
    BY DEF Inv, FromThisBuild, OfThisBuild, CapsuleIsOfThisBuild
<1>2. QED
    BY <1>1, CapsuleInvariant, PTL

\* For any components, selections and number of builds, every capsule that is ever
\* deployed has the start payload at its beginning, the end payload at its end, and
\* neither in between, also when the JSON file is that of an earlier build.
THEOREM CapsulesAreWellFormed == ASSUME Assumptions PROVE Spec => []CapsuleIsWellFormed
<1>1. Inv => CapsuleIsWellFormed
    BY DEF Inv, AllWellFormed, WellFormed, CapsuleIsWellFormed
<1>2. QED
    BY <1>1, CapsuleInvariant, PTL
=============================================================================
