------------------------- MODULE RpcFailoverProofs --------------------------
(***************************************************************************)
(* Lemmas about the failover client that its two users share: the list of  *)
(* endpoints is never empty, and the client moves around in it.            *)
(***************************************************************************)
EXTENDS RpcFailover, FiniteSetTheorems, SequenceTheorems,
        WellFoundedInduction, TLAPS

\* A set of numbers that is not empty has a smallest element.
LEMMA SmallestExists ==
  ASSUME NEW S \in SUBSET Nat, S # {}
  PROVE  \E x \in S : \A y \in S : x <= y
<1>1. PICK x \in S : \A y \in S : <<y, x>> \notin OpToRel(<, Nat)
  BY NatLessThanWellFounded, WFMin
<1>2. ASSUME NEW y \in S PROVE x <= y
  <2>1. x \in Nat /\ y \in Nat
    OBVIOUS
  <2>2. ~ (y < x)
    <3> DEFINE pair == <<y, x>>
    <3>1. pair \in Nat \X Nat /\ pair[1] = y /\ pair[2] = x
      BY <2>1
    <3>2. pair \notin {p \in Nat \X Nat : p[1] < p[2]}
      BY <1>1 DEF OpToRel
    <3> HIDE DEF pair
    <3> QED BY <3>1, <3>2
  <2> QED BY <2>1, <2>2
<1> QED BY <1>2

\* There are finitely many first places, and at least one: that of the first
\* url that is not blank.
LEMMA PlacesFinite ==
  IsFiniteSet(FirstPlaces) /\ Cardinality(FirstPlaces) \in Nat \ {0}
<1>0. Urls \in Seq(STRING)
  BY FailoverAssumption, Zenon
<1>1. DOMAIN Urls = 1..Len(Urls) /\ Len(Urls) \in Nat
  BY <1>0, LenProperties
<1>2. IsFiniteSet(1..Len(Urls))
  BY <1>1, FS_Interval
<1>3. FirstPlaces \subseteq 1..Len(Urls)
  BY <1>1 DEF FirstPlaces
<1>4. IsFiniteSet(FirstPlaces)
  BY <1>2, <1>3, FS_Subset
<1>5. FirstPlaces # {}
  <2>1. PICK i \in DOMAIN Urls : Urls[i] # ""
    BY FailoverAssumption
  <2> DEFINE same == {j \in DOMAIN Urls : Urls[j] = Urls[i]}
  <2>2. same \in SUBSET Nat /\ same # {}
    <3>1. i \in same
      BY <2>1
    <3> QED BY <1>1, <3>1
  <2>3. PICK first \in same : \A j \in same : first <= j
    BY <2>2, <1>1, SmallestExists
  <2>4. first \in FirstPlaces
    <3>1. first \in 1..Len(Urls) /\ Urls[first] = Urls[i]
      BY <1>1
    <3>2. Urls[first] # ""
      BY <2>1, <3>1, Zenon
    <3>3. ASSUME NEW j \in 1..Len(Urls), j < first PROVE Urls[j] # Urls[first]
      <4>1. ~ (first <= j)
        BY <1>1, <3>1, <3>3
      <4>2. j \notin same
        BY <2>3, <4>1, Zenon
      <4>3. j \in DOMAIN Urls
        BY <1>1, <3>3, Zenon
      <4> QED BY <3>1, <4>2, <4>3, Zenon
    <3> QED BY <1>1, <3>1, <3>2, <3>3, Zenon DEF FirstPlaces
  <2> QED BY <2>4
<1> QED BY <1>4, <1>5, FS_CardinalityType, FS_EmptySet

\* The endpoints are numbered from 1.
LEMMA EndpointsList ==
  /\ Len(Endpoints) \in Nat \ {0}
  /\ DOMAIN Endpoints = 1..Len(Endpoints)
<1> DEFINE n == Cardinality(FirstPlaces)
<1>1. n \in Nat \ {0}
  BY PlacesFinite
<1> DEFINE urls == {Urls[Place(i)] : i \in 1..n}
<1>2. Endpoints \in [1..n -> urls]
  BY DEF Endpoints
<1> HIDE DEF n, urls
<1>3. Endpoints \in Seq(urls)
  BY <1>1, <1>2, SeqDef
<1>4. Len(Endpoints) = n
  BY <1>1, <1>2, <1>3, LenProperties
<1> QED BY <1>1, <1>2, <1>4

\* rotate() moves on to the next endpoint, from the last one to the first.
LEMMA RotatedNext ==
  ASSUME current \in DOMAIN Endpoints
  PROVE  /\ Rotated \in DOMAIN Endpoints
         /\ current < Len(Endpoints) => Rotated = current + 1
         /\ current = Len(Endpoints) => Rotated = 1
<1> DEFINE n == Len(Endpoints)
<1>1. n \in Nat \ {0} /\ current \in 1..n
  BY EndpointsList
<1> HIDE DEF n
<1>2. current < n => current % n = current
  BY <1>1
<1>3. current = n => current % n = 0
  BY <1>1
<1>4. Rotated = (current % n) + 1
  BY DEF Rotated, n
<1> QED BY <1>1, <1>2, <1>3, <1>4, EndpointsList DEF n
=============================================================================
