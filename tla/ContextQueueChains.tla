-------------------------- MODULE ContextQueueChains --------------------------
(***************************************************************************)
(* For any items, priorities and capacity: the linked lists of             *)
(* ContextQueue are the sequences of AbstractQueue.                        *)
(*                                                                         *)
(* ChainFrom follows the links by recursion.  The argument never does: its *)
(* invariant is that there are three sequences, one for the free list and  *)
(* one for each buffer, which together hold every sled once and which the  *)
(* links follow.  Every operation says what becomes of the sequences, and  *)
(* one lemma, by induction over positions, says that ChainFrom can only    *)
(* yield them.                                                             *)
(***************************************************************************)
EXTENDS ContextQueueProofs, SequenceTheorems, WellFoundedInduction, FiniteSetTheorems

------------------------------------------------------------------------------
(* Every set of natural numbers has a least element: induction, in the form *)
(* the proofs below use it.                                                 *)
LEMMA LeastNatural ==
  ASSUME NEW T, T \subseteq Nat, T # {}
  PROVE  \E m \in T : \A k \in T : m <= k
<1> DEFINE R == OpToRel(<, Nat)
<1>1. IsWellFoundedOn(R, Nat)
  BY NatLessThanWellFounded
<1> HIDE DEF R
<1>2. PICK m \in T : \A k \in T : ~ (<<k, m>> \in R)
  BY <1>1, WFMin
<1>3. \A k \in T : k < m => <<k, m>> \in R
  BY DEF R, OpToRel
<1>4. \A k \in T : ~ k < m
  BY <1>2, <1>3
<1> QED
  BY <1>4

------------------------------------------------------------------------------
\* Sequences without repeats, and the links along them.
NoRepeats(s) == \A i, j \in DOMAIN s : s[i] = s[j] => i = j

Linked(nxt, s) ==
  \A i \in DOMAIN s : nxt[s[i]] = IF i < Len(s) THEN s[i + 1] ELSE NULL

\* s with e at position k.
Insert(s, k, e) ==
  [i \in 1 .. Len(s) + 1 |-> IF i < k THEN s[i] ELSE IF i = k THEN e ELSE s[i - 1]]

(* Where the elements of Insert come from.                                  *)
LEMMA InsertAtPlace ==
  ASSUME NEW S, NEW s \in Seq(S), NEW k \in 1 .. Len(s) + 1, NEW e \in S
  PROVE  /\ Insert(s, k, e) \in Seq(S)
         /\ Len(Insert(s, k, e)) = Len(s) + 1
         /\ DOMAIN Insert(s, k, e) = 1 .. Len(s) + 1
         /\ Insert(s, k, e) # <<>>
         /\ Insert(s, k, e)[k] = e
         /\ \A i \in 1 .. k - 1 : i \in DOMAIN s /\ Insert(s, k, e)[i] = s[i]
         /\ \A i \in k + 1 .. Len(s) + 1 : i - 1 \in DOMAIN s /\ Insert(s, k, e)[i] = s[i - 1]
<1> DEFINE t == Insert(s, k, e)
<1>1. Len(s) \in Nat /\ DOMAIN s = 1 .. Len(s) /\ \A i \in 1 .. Len(s) : s[i] \in S
  OBVIOUS
<1>2. t \in [1 .. Len(s) + 1 -> S]
  BY <1>1 DEF Insert
<1>3. t \in Seq(S) /\ Len(t) = Len(s) + 1 /\ DOMAIN t = 1 .. Len(s) + 1
  BY <1>1, <1>2
<1>4. t[k] = e
  BY <1>1 DEF Insert
<1>5. \A i \in 1 .. k - 1 : i \in DOMAIN s /\ t[i] = s[i]
  BY <1>1 DEF Insert
<1>6. \A i \in k + 1 .. Len(s) + 1 : i - 1 \in DOMAIN s /\ t[i] = s[i - 1]
  BY <1>1 DEF Insert
<1>7. t # <<>>
  BY <1>1, <1>3
<1> QED
  BY <1>3, <1>4, <1>5, <1>6, <1>7

(* Inserting adds one member, and repeats nothing if that is new.           *)
LEMMA InsertMembers ==
  ASSUME NEW S, NEW s \in Seq(S), NEW k \in 1 .. Len(s) + 1, NEW e \in S
  PROVE  /\ Members(Insert(s, k, e)) = Members(s) \cup {e}
         /\ NoRepeats(s) /\ e \notin Members(s) => NoRepeats(Insert(s, k, e))
<1> DEFINE t == Insert(s, k, e)
<1>0. Len(s) \in Nat /\ DOMAIN s = 1 .. Len(s) /\ k \in Nat \ {0}
  OBVIOUS
<1>1. /\ DOMAIN t = 1 .. Len(s) + 1
      /\ t[k] = e
      /\ \A i \in 1 .. k - 1 : i \in DOMAIN s /\ t[i] = s[i]
      /\ \A i \in k + 1 .. Len(s) + 1 : i - 1 \in DOMAIN s /\ t[i] = s[i - 1]
  BY InsertAtPlace
<1> HIDE DEF t
<1>2. \A i \in DOMAIN t : i = k \/ i \in 1 .. k - 1 \/ i \in k + 1 .. Len(s) + 1
  BY <1>0, <1>1
<1>3. Members(t) \subseteq Members(s) \cup {e}
  <2> SUFFICES ASSUME NEW i \in DOMAIN t PROVE t[i] \in Members(s) \cup {e}
    BY DEF Members
  <2> QED
    BY <1>1, <1>2 DEF Members
<1>4. \A i \in DOMAIN s : \/ i \in DOMAIN t /\ t[i] = s[i]
                          \/ i + 1 \in DOMAIN t /\ t[i + 1] = s[i]
  <2> SUFFICES ASSUME NEW i \in DOMAIN s
               PROVE  \/ i \in DOMAIN t /\ t[i] = s[i]
                      \/ i + 1 \in DOMAIN t /\ t[i + 1] = s[i]
    OBVIOUS
  <2>1. CASE i < k
    BY <2>1, <1>0, <1>1
  <2>2. CASE ~ i < k
    <3>1. i + 1 \in k + 1 .. Len(s) + 1 /\ (i + 1) - 1 = i
      BY <2>2, <1>0
    <3> QED
      BY <3>1, <1>0, <1>1
  <2> QED
    BY <2>1, <2>2
<1>5. e \in Members(t)
  BY <1>0, <1>1 DEF Members
<1>6. Members(s) \cup {e} \subseteq Members(t)
  BY <1>4, <1>5 DEF Members
<1>7. ASSUME NoRepeats(s), e \notin Members(s), NEW i \in DOMAIN t, NEW j \in DOMAIN t,
             t[i] = t[j]
      PROVE  i = j
  <2>1. \A m \in DOMAIN s : s[m] # e
    BY <1>7 DEF Members
  <2>2. \A m, n \in DOMAIN s : s[m] = s[n] => m = n
    BY <1>7 DEF NoRepeats
  <2>3. i \in Int /\ j \in Int
    BY <1>1
  <2>4. CASE i = k \/ j = k
    BY <2>4, <2>1, <1>1, <1>2, <1>7
  <2>5. CASE i \in 1 .. k - 1 /\ j \in 1 .. k - 1
    BY <2>5, <2>2, <1>1, <1>7
  <2>6. CASE i \in k + 1 .. Len(s) + 1 /\ j \in k + 1 .. Len(s) + 1
    <3>1. i - 1 = j - 1
      BY <2>6, <2>2, <1>1, <1>7
    <3> QED
      BY <3>1, <2>3
  <2>7. CASE i \in 1 .. k - 1 /\ j \in k + 1 .. Len(s) + 1
    <3>1. i = j - 1
      BY <2>7, <2>2, <1>1, <1>7
    <3> QED
      BY <3>1, <2>7, <1>0
  <2>8. CASE j \in 1 .. k - 1 /\ i \in k + 1 .. Len(s) + 1
    <3>1. j = i - 1
      BY <2>8, <2>2, <1>1, <1>7
    <3> QED
      BY <3>1, <2>8, <1>0
  <2> QED
    BY <1>2, <2>4, <2>5, <2>6, <2>7, <2>8
<1>8. NoRepeats(s) /\ e \notin Members(s) => NoRepeats(t)
  BY <1>7 DEF NoRepeats
<1> QED
  BY <1>3, <1>6, <1>8 DEF t

(* The links that put e at position k of a list.                            *)
LEMMA InsertLinked ==
  ASSUME NEW S, NEW s \in Seq(S), NEW k \in 1 .. Len(s) + 1, NEW e \in S,
         NEW nxt, NEW nxt2, Linked(nxt, s),
         nxt2[e] = IF k <= Len(s) THEN s[k] ELSE NULL,
         k > 1 => nxt2[s[k - 1]] = e,
         \A i \in DOMAIN s : i # k - 1 => nxt2[s[i]] = nxt[s[i]]
  PROVE  Linked(nxt2, Insert(s, k, e))
<1> DEFINE t == Insert(s, k, e)
<1>0. Len(s) \in Nat /\ DOMAIN s = 1 .. Len(s) /\ k \in Nat \ {0} /\ k <= Len(s) + 1
  OBVIOUS
<1>a. s \in Seq(S) /\ k \in 1 .. Len(s) + 1 /\ e \in S
  OBVIOUS
<1>1. /\ DOMAIN t = 1 .. Len(s) + 1
      /\ Len(t) = Len(s) + 1
      /\ t[k] = e
      /\ \A i \in 1 .. k - 1 : i \in DOMAIN s /\ t[i] = s[i]
      /\ \A i \in k + 1 .. Len(s) + 1 : i - 1 \in DOMAIN s /\ t[i] = s[i - 1]
  BY ONLY <1>a, InsertAtPlace
<1> HIDE DEF t
<1> SUFFICES ASSUME NEW i \in DOMAIN t
             PROVE  nxt2[t[i]] = IF i < Len(t) THEN t[i + 1] ELSE NULL
  BY DEF Linked, t
<1>2. i \in Nat \ {0} /\ i <= Len(s) + 1
  BY <1>0, <1>1
<1>3. CASE i = k
  <2>1. i < Len(t) => i + 1 \in k + 1 .. Len(s) + 1 /\ (i + 1) - 1 = k
    BY <1>0, <1>1, <1>2, <1>3
  <2>2. i < Len(t) => t[i + 1] = s[k]
    BY <2>1, <1>1
  <2> QED
    BY <2>2, <1>0, <1>1, <1>3
<1>4. CASE i = k - 1
  <2>1. i \in 1 .. k - 1 /\ i + 1 = k /\ i < Len(t) /\ k > 1
    BY <1>4, <1>0, <1>1, <1>2
  <2> QED
    BY <2>1, <1>1, <1>4
<1>5. CASE i < k - 1
  <2>1. i \in 1 .. k - 1 /\ i + 1 \in 1 .. k - 1 /\ i < Len(s) /\ i < Len(t) /\ i # k - 1
    BY <1>5, <1>0, <1>1, <1>2
  <2>2. t[i] = s[i] /\ t[i + 1] = s[i + 1] /\ i \in DOMAIN s
    BY <2>1, <1>1
  <2> QED
    BY <2>1, <2>2 DEF Linked
<1>6. CASE i > k
  <2>1. i \in k + 1 .. Len(s) + 1 /\ i - 1 # k - 1
    BY <1>6, <1>0, <1>2
  <2>2. t[i] = s[i - 1] /\ i - 1 \in DOMAIN s
    BY <2>1, <1>1
  <2>3. nxt2[t[i]] = IF i - 1 < Len(s) THEN s[(i - 1) + 1] ELSE NULL
    BY <2>1, <2>2 DEF Linked
  <2>4. i < Len(t) => /\ i + 1 \in k + 1 .. Len(s) + 1 /\ (i + 1) - 1 = i /\ (i - 1) + 1 = i
                      /\ i - 1 < Len(s)
    BY <1>0, <1>1, <1>2, <2>1
  <2>5. i < Len(t) => t[i + 1] = s[i]
    BY <2>4, <1>1
  <2>6. ~ (i < Len(t)) => ~ (i - 1 < Len(s))
    BY <1>0, <1>1, <1>2
  <2> QED
    BY <2>3, <2>4, <2>5, <2>6
<1> QED
  BY <1>0, <1>2, <1>3, <1>4, <1>5, <1>6

(* A list without its head.                                                 *)
LEMMA TailList ==
  ASSUME NEW S, NEW s \in Seq(S), s # <<>>, NEW nxt, Linked(nxt, s), NoRepeats(s),
         NULL \notin S
  PROVE  /\ s[1] \in S /\ 1 \in DOMAIN s
         /\ Tail(s) \in Seq(S)
         /\ Len(Tail(s)) = Len(s) - 1
         /\ Members(s) = Members(Tail(s)) \cup {s[1]}
         /\ s[1] \notin Members(Tail(s))
         /\ NoRepeats(Tail(s))
         /\ Linked(nxt, Tail(s))
         /\ nxt[s[1]] = IF Tail(s) = <<>> THEN NULL ELSE Tail(s)[1]
         /\ Tail(s) # <<>> => Tail(s)[1] # NULL /\ Tail(s)[Len(Tail(s))] = s[Len(s)]
<1> DEFINE t == Tail(s)
<1>1. Len(s) \in Nat \ {0} /\ DOMAIN s = 1 .. Len(s) /\ 1 \in DOMAIN s
      /\ \A i \in DOMAIN s : s[i] \in S
  OBVIOUS
<1>2. t \in Seq(S) /\ Len(t) = Len(s) - 1 /\ DOMAIN t = 1 .. Len(s) - 1
  OBVIOUS
<1>3. \A i \in DOMAIN t : i \in Int /\ i + 1 \in DOMAIN s /\ i + 1 # 1 /\ t[i] = s[i + 1]
  BY <1>1
<1>4. t = <<>> <=> Len(s) = 1
  BY <1>1, <1>2
<1> HIDE DEF t
<1>5. ASSUME NEW i \in DOMAIN s, i # 1 PROVE i - 1 \in DOMAIN t /\ t[i - 1] = s[i]
  <2>1. i - 1 \in DOMAIN t /\ (i - 1) + 1 = i
    BY <1>1, <1>2, <1>5
  <2> QED
    BY <2>1, <1>3
<1>6. Members(s) = Members(t) \cup {s[1]}
  BY <1>1, <1>3, <1>5 DEF Members
<1>7. s[1] \notin Members(t)
  BY <1>1, <1>3 DEF Members, NoRepeats
<1>8. NoRepeats(t)
  <2> SUFFICES ASSUME NEW i \in DOMAIN t, NEW j \in DOMAIN t, t[i] = t[j] PROVE i = j
    BY DEF NoRepeats
  <2>1. i + 1 = j + 1
    BY <1>3 DEF NoRepeats
  <2> QED
    BY <2>1, <1>3
<1>9. Linked(nxt, t)
  <2> SUFFICES ASSUME NEW i \in DOMAIN t
               PROVE  nxt[t[i]] = IF i < Len(t) THEN t[i + 1] ELSE NULL
    BY DEF Linked
  <2>1. nxt[t[i]] = IF i + 1 < Len(s) THEN s[(i + 1) + 1] ELSE NULL
    BY <1>3 DEF Linked
  <2>2. i < Len(t) <=> i + 1 < Len(s)
    BY <1>1, <1>2, <1>3
  <2>3. i < Len(t) => i + 1 \in DOMAIN t
    BY <1>2, <1>3
  <2> QED
    BY <2>1, <2>2, <2>3, <1>3
<1>10. nxt[s[1]] = IF 1 < Len(s) THEN s[1 + 1] ELSE NULL
  BY <1>1 DEF Linked
<1>11. t # <<>> => /\ 1 < Len(s) /\ 1 \in DOMAIN t /\ Len(t) \in DOMAIN t
                   /\ t[1] = s[1 + 1] /\ t[Len(t)] = s[Len(s)] /\ t[1] \in S
  <2> SUFFICES ASSUME t # <<>>
               PROVE  /\ 1 < Len(s) /\ 1 \in DOMAIN t /\ Len(t) \in DOMAIN t
                      /\ t[1] = s[1 + 1] /\ t[Len(t)] = s[Len(s)] /\ t[1] \in S
    OBVIOUS
  <2>1. 1 < Len(s) /\ 1 \in DOMAIN t /\ Len(t) \in DOMAIN t /\ Len(t) + 1 = Len(s)
    BY <1>1, <1>2, <1>4
  <2> QED
    BY <2>1, <1>1, <1>3
<1> QED
  BY <1>1, <1>2, <1>4, <1>6, <1>7, <1>8, <1>9, <1>10, <1>11 DEF t

------------------------------------------------------------------------------
\* s from position k on.
From(s, k) == [j \in 1 .. Len(s) - k + 1 |-> s[k + j - 1]]

(* One link further along the list.                                         *)
LEMMA FromStep ==
  ASSUME NEW S, NEW s \in Seq(S), NEW k \in DOMAIN s
  PROVE  /\ From(s, k) = <<s[k]>> \o (IF k < Len(s) THEN From(s, k + 1) ELSE <<>>)
         /\ From(s, 1) = s
<1>0. Len(s) \in Nat \ {0} /\ DOMAIN s = 1 .. Len(s) /\ k \in Nat \ {0} /\ k <= Len(s)
      /\ s \in [1 .. Len(s) -> S]
  OBVIOUS
<1>1. \A i \in DOMAIN s : /\ From(s, i) \in [1 .. Len(s) - i + 1 -> S]
                          /\ From(s, i) \in Seq(S) /\ Len(From(s, i)) = Len(s) - i + 1
  <2> SUFFICES ASSUME NEW i \in DOMAIN s
               PROVE  /\ From(s, i) \in [1 .. Len(s) - i + 1 -> S]
                      /\ From(s, i) \in Seq(S) /\ Len(From(s, i)) = Len(s) - i + 1
    OBVIOUS
  <2>1. i \in Nat \ {0} /\ Len(s) - i + 1 \in Nat
    BY <1>0
  <2>2. From(s, i) \in [1 .. Len(s) - i + 1 -> S]
    BY <1>0, <2>1 DEF From
  <2> QED
    BY <2>1, <2>2
<1>2. From(s, 1) = s
  BY <1>0 DEF From
<1>3. CASE k < Len(s)
  <2>1. k + 1 \in DOMAIN s
    BY <1>0, <1>3
  <2> DEFINE a == From(s, k)
             b == <<s[k]>> \o From(s, k + 1)
  <2>2. b \in Seq(S) /\ Len(b) = Len(s) - k + 1 /\ Len(a) = Len(s) - k + 1 /\ a \in Seq(S)
    BY <1>0, <1>1, <2>1
  <2>3. b[1] = s[k] /\ \A j \in 2 .. Len(s) - k + 1 : b[j] = From(s, k + 1)[j - 1]
    BY <1>0, <1>1, <2>1
  <2>4. \A j \in 2 .. Len(s) - k + 1 : From(s, k + 1)[j - 1] = s[k + j - 1]
    <3> SUFFICES ASSUME NEW j \in 2 .. Len(s) - k + 1
                 PROVE  From(s, k + 1)[j - 1] = s[k + j - 1]
      OBVIOUS
    <3>1. j - 1 \in 1 .. Len(s) - (k + 1) + 1 /\ (k + 1) + (j - 1) - 1 = k + j - 1
      BY <1>0
    <3> QED
      BY <3>1 DEF From
  <2>5. \A j \in 1 .. Len(s) - k + 1 : a[j] = s[k + j - 1]
    BY DEF From
  <2> HIDE DEF a, b
  <2>6. \A j \in 1 .. Len(s) - k + 1 : a[j] = b[j]
    <3> SUFFICES ASSUME NEW j \in 1 .. Len(s) - k + 1 PROVE a[j] = b[j]
      OBVIOUS
    <3>1. CASE j = 1
      BY <3>1, <1>0, <2>3, <2>5
    <3>2. CASE j # 1
      BY <3>2, <1>0, <2>3, <2>4, <2>5
    <3> QED
      BY <3>1, <3>2
  <2>7. a = b
    BY <1>0, <2>2, <2>6, SeqEqual
  <2> QED
    BY <1>2, <1>3, <2>7 DEF a, b
<1>4. CASE k = Len(s)
  <2>1. From(s, k) \in [1 .. 1 -> S] /\ From(s, k)[1] = s[k]
    BY <1>0, <1>1, <1>4 DEF From
  <2>2. From(s, k) = <<s[k]>>
    BY <2>1
  <2> QED
    BY <1>2, <1>4, <2>2
<1> QED
  BY <1>0, <1>3, <1>4

\* The equation that defines the function `chain` in ChainFrom.
Follows(S, nxt, c) ==
  c = [i \in S |-> <<i>> \o (IF nxt[i] = NULL THEN <<>> ELSE c[nxt[i]])]

\* The lists of `lists` hold every element of S in one place, and the links
\* follow them.
Listed(S, nxt, lists) ==
  /\ NULL \notin S
  /\ \A s \in lists : s \in Seq(S) /\ NoRepeats(s) /\ Linked(nxt, s)
  /\ \A i \in S : \E s \in lists : i \in Members(s)
  /\ \A s, t \in lists : s # t => Members(s) \cap Members(t) = {}

(* There is a function that follows the links ...                           *)
LEMMA FollowsExists ==
  ASSUME NEW S, NEW nxt, NEW lists, Listed(S, nxt, lists)
  PROVE  \E c : Follows(S, nxt, c)
<1> DEFINE L(i) == CHOOSE s \in lists : i \in Members(s)
           K(i) == CHOOSE k \in DOMAIN L(i) : L(i)[k] = i
           c == [i \in S |-> From(L(i), K(i))]
<1>1. \A i \in S : L(i) \in lists /\ i \in Members(L(i))
  BY DEF Listed
<1>2. \A i \in S : K(i) \in DOMAIN L(i) /\ L(i)[K(i)] = i
  BY <1>1 DEF Members
<1>3. ASSUME NEW s \in lists, NEW k \in DOMAIN s
      PROVE  s[k] \in S /\ L(s[k]) = s /\ K(s[k]) = k
  <2>1. s[k] \in S
    BY DEF Listed
  <2>2. s[k] \in Members(s)
    BY DEF Members
  <2>3. L(s[k]) = s
    BY <1>1, <2>1, <2>2 DEF Listed
  <2>4. K(s[k]) \in DOMAIN s /\ s[K(s[k])] = s[k]
    BY <1>2, <2>1, <2>3
  <2>5. K(s[k]) = k
    BY <2>4 DEF Listed, NoRepeats
  <2> QED
    BY <2>1, <2>3, <2>5
<1>4. \A s \in lists : \A k \in DOMAIN s : c[s[k]] = From(s, k)
  BY <1>3
<1> HIDE DEF c
<1>5. ASSUME NEW i \in S
      PROVE  c[i] = <<i>> \o (IF nxt[i] = NULL THEN <<>> ELSE c[nxt[i]])
  <2>1. PICK s \in lists : \E k \in DOMAIN s : s[k] = i
    BY <1>1, <1>2
  <2>2. PICK k \in DOMAIN s : s[k] = i
    BY <2>1
  <2>3. s \in Seq(S) /\ Linked(nxt, s) /\ NULL \notin S
    BY DEF Listed
  <2>4. c[i] = <<i>> \o (IF k < Len(s) THEN From(s, k + 1) ELSE <<>>)
    BY <1>4, <2>2, <2>3, FromStep
  <2>5. nxt[i] = IF k < Len(s) THEN s[k + 1] ELSE NULL
    BY <2>2, <2>3 DEF Linked
  <2>6. CASE k < Len(s)
    <3>1. k + 1 \in DOMAIN s /\ s[k + 1] \in S
      BY <2>3, <2>6
    <3> QED
      BY <1>4, <2>3, <2>4, <2>5, <2>6, <3>1
  <2>7. CASE ~ k < Len(s)
    BY <2>4, <2>5, <2>7
  <2> QED
    BY <2>6, <2>7
<1>6. c = [i \in S |-> c[i]]
  BY DEF c
<1>7. c = [i \in S |-> <<i>> \o (IF nxt[i] = NULL THEN <<>> ELSE c[nxt[i]])]
  BY <1>5, <1>6
<1> QED
  BY <1>7 DEF Follows

(* ... and it yields the lists: by induction from their ends.               *)
LEMMA FollowsLists ==
  ASSUME NEW S, NEW nxt, NEW lists, Listed(S, nxt, lists),
         NEW c, Follows(S, nxt, c), NEW s \in lists, s # <<>>
  PROVE  c[s[1]] = s
<1>1. s \in Seq(S) /\ Linked(nxt, s) /\ NULL \notin S
  BY DEF Listed
<1>2. Len(s) \in Nat \ {0} /\ DOMAIN s = 1 .. Len(s) /\ \A i \in DOMAIN s : s[i] \in S
  BY <1>1
<1> DEFINE T == {m \in Nat : m < Len(s) /\ c[s[Len(s) - m]] # From(s, Len(s) - m)}
<1>3. ASSUME NEW k \in DOMAIN s
      PROVE  c[s[k]] = <<s[k]>> \o (IF k < Len(s) THEN c[s[k + 1]] ELSE <<>>)
  <2>1. c[s[k]] = <<s[k]>> \o (IF nxt[s[k]] = NULL THEN <<>> ELSE c[nxt[s[k]]])
    BY <1>2 DEF Follows
  <2>2. nxt[s[k]] = IF k < Len(s) THEN s[k + 1] ELSE NULL
    BY <1>1 DEF Linked
  <2>3. k < Len(s) => s[k + 1] # NULL
    BY <1>1, <1>2
  <2> QED
    BY <2>1, <2>2, <2>3
<1>4. T = {}
  <2> SUFFICES ASSUME T # {} PROVE FALSE
    OBVIOUS
  <2>1. PICK m \in T : \A n \in T : m <= n
    <3>1. T \subseteq Nat /\ T # {}
      OBVIOUS
    <3> HIDE DEF T
    <3> QED
      BY <3>1, LeastNatural
  <2> DEFINE k == Len(s) - m
  <2>2. m \in Nat /\ m < Len(s) /\ c[s[k]] # From(s, k)
    OBVIOUS
  <2>3. k \in DOMAIN s
    BY <1>2, <2>2
  <2>4. CASE m = 0
    <3>1. k = Len(s)
      BY <2>4, <1>2
    <3>2. ~ k < Len(s)
      BY <3>1, <1>2
    <3> HIDE DEF k
    <3>3. From(s, k) = <<s[k]>> \o <<>>
      BY <3>2, <1>1, <2>3, FromStep
    <3>4. c[s[k]] = <<s[k]>> \o <<>>
      BY <3>2, <1>3, <2>3
    <3> QED
      BY <3>3, <3>4, <2>2
  <2>5. CASE m > 0
    <3>1. m - 1 \in Nat /\ m - 1 < Len(s) /\ Len(s) - (m - 1) = k + 1 /\ ~ (m <= m - 1)
      BY <2>2, <2>5, <1>2
    <3>2. m - 1 \notin T
      BY <2>1, <3>1
    <3>3. c[s[k + 1]] = From(s, k + 1)
      BY <3>1, <3>2
    <3>4. k < Len(s)
      BY <1>2, <2>2, <2>5
    <3>5. From(s, k) = <<s[k]>> \o From(s, k + 1)
      BY <3>4, <1>1, <2>3, FromStep
    <3>6. c[s[k]] = <<s[k]>> \o c[s[k + 1]]
      BY <3>4, <1>3, <2>3
    <3> QED
      BY <3>3, <3>5, <3>6, <2>2
  <2> QED
    BY <2>2, <2>4, <2>5
<1>5. Len(s) - 1 \in Nat /\ Len(s) - 1 < Len(s) /\ Len(s) - (Len(s) - 1) = 1 /\ 1 \in DOMAIN s
  BY <1>2
<1>6. c[s[1]] = From(s, 1)
  BY <1>4, <1>5
<1> QED
  BY <1>1, <1>5, <1>6, FromStep

------------------------------------------------------------------------------
\* The sled push_with_priority is inserting.
New == IF cursor = NULL THEN {} ELSE {cursor.new}

\* Three sequences that hold every element of S once, those of new excepted.
Split(S, new, f, p, q) ==
  /\ f \in Seq(S) /\ p \in Seq(S) /\ q \in Seq(S)
  /\ NoRepeats(f) /\ NoRepeats(p) /\ NoRepeats(q)
  /\ Members(f) \cap (Members(p) \cup Members(q) \cup new) = {}
  /\ Members(p) \cap (Members(q) \cup new) = {}
  /\ Members(q) \cap new = {}
  /\ S = Members(f) \cup Members(p) \cup Members(q) \cup new

\* ... and that the links follow.
Lists(S, nxt, new, f, p, q) ==
  /\ Split(S, new, f, p, q)
  /\ Linked(nxt, f) /\ Linked(nxt, p) /\ Linked(nxt, q)

Begins(head, s) == head = IF s = <<>> THEN NULL ELSE s[1]

Tracks(buffer, s) ==
  buffer = IF s = <<>> THEN NULL
           ELSE [len |-> Len(s) % LenMod, first |-> s[1], last |-> s[Len(s)]]

\* The walk stands before position k of the push chain, behind which nothing
\* of lower priority than the new sled is left.
Stands(q, k) ==
  /\ k \in 1 .. Len(q) + 1
  /\ cursor.curr = IF k <= Len(q) THEN q[k] ELSE NULL
  /\ cursor.prev = IF k > 1 THEN q[k - 1] ELSE NULL
  /\ \A j \in 1 .. k - 1 : priority[q[j]] >= priority[cursor.new]

Walks(q) ==
  cursor # NULL => /\ q # <<>>
                   /\ cursor \in Cursor(Sleds)
                   /\ next[cursor.new] = NULL
                   /\ \E k \in 1 .. Len(q) + 1 : Stands(q, k)

\* What the sleds hold.
Filled(con, pri, full, free) ==
  /\ \A i \in free : con[i] = NULL
  /\ \A i \in full : con[i] \in Items /\ pri[i] \in Priorities

\* Sled e holds x with priority pr.
Put(con, pri, e, x, pr) == con[e] = x /\ pri[e] = pr

\* The two functions are the same on T.
Agree(fun, fun2, T) == \A i \in T : fun2[i] = fun[i]

\* The free list, the pop chain and the push chain are f, p and q.
Shape(f, p, q) ==
  /\ Lists(Sleds, next, New, f, p, q)
  /\ Begins(free_list, f) /\ Tracks(pop_buffer, p) /\ Tracks(push_buffer, q)
  /\ Filled(content, priority, Members(p) \cup Members(q) \cup New, Members(f))
  /\ Walks(q)

(* The inductive invariant of this module.                                  *)
Chained ==
  /\ cursor # NULL => alive
  /\ alive => \E f, p, q : Shape(f, p, q)
  /\ ~ alive => Held = {} /\ pop_buffer = NULL /\ push_buffer = NULL

------------------------------------------------------------------------------
(* Links that agree along a list are the same list.                         *)
LEMMA SameLinks ==
  ASSUME NEW nxt, NEW nxt2, NEW s, Linked(nxt, s), \A i \in Members(s) : nxt2[i] = nxt[i]
  PROVE  Linked(nxt2, s)
BY DEF Linked, Members

(* Taking the head of the free list: the first half of both pushes.         *)
LEMMA ListsTake ==
  ASSUME NEW S, NULL \notin S, NEW nxt \in [S -> S \cup {NULL}],
         NEW f, NEW p, NEW q, Lists(S, nxt, {}, f, p, q), f # <<>>,
         NEW nxt2, nxt2 = [nxt EXCEPT ![f[1]] = NULL]
  PROVE  /\ f[1] \in S
         /\ Lists(S, nxt2, {f[1]}, Tail(f), p, q)
         /\ nxt2[f[1]] = NULL
         /\ Begins(nxt[f[1]], Tail(f))
         /\ Members(f) = Members(Tail(f)) \cup {f[1]}
<1>1. Split(S, {}, f, p, q) /\ Linked(nxt, f) /\ Linked(nxt, p) /\ Linked(nxt, q)
  BY DEF Lists
<1>2. f \in Seq(S) /\ NoRepeats(f)
  BY <1>1 DEF Split
<1>3. /\ f[1] \in S /\ Tail(f) \in Seq(S)
      /\ Members(f) = Members(Tail(f)) \cup {f[1]} /\ f[1] \notin Members(Tail(f))
      /\ NoRepeats(Tail(f)) /\ Linked(nxt, Tail(f))
      /\ nxt[f[1]] = IF Tail(f) = <<>> THEN NULL ELSE Tail(f)[1]
  BY <1>1, <1>2, TailList
<1>4. Split(S, {f[1]}, Tail(f), p, q)
  BY <1>1, <1>3 DEF Split
<1>5. \A i \in S : i # f[1] => nxt2[i] = nxt[i]
  OBVIOUS
<1>6. /\ \A i \in Members(Tail(f)) \cup Members(p) \cup Members(q) : i \in S /\ i # f[1]
  BY <1>3, <1>4 DEF Split
<1>7. Linked(nxt2, Tail(f)) /\ Linked(nxt2, p) /\ Linked(nxt2, q)
  <2>1. \A s : Linked(nxt, s) /\ (\A i \in Members(s) : nxt2[i] = nxt[i]) => Linked(nxt2, s)
    BY SameLinks
  <2>2. \A i \in Members(Tail(f)) \cup Members(p) \cup Members(q) : nxt2[i] = nxt[i]
    BY <1>5, <1>6
  <2> QED
    BY ONLY <1>1, <1>3, <2>1, <2>2
<1>8. nxt2[f[1]] = NULL
  BY <1>3
<1> QED
  BY <1>3, <1>4, <1>7, <1>8 DEF Lists, Begins

\* The changes of the links that put e at position k of q.
Relinked(S, nxt, nxt2, q, k, e) ==
  /\ nxt2[e] = IF k <= Len(q) THEN q[k] ELSE NULL
  /\ k > 1 => nxt2[q[k - 1]] = e
  /\ \A i \in S : i # e /\ (k > 1 => i # q[k - 1]) => nxt2[i] = nxt[i]

(* The new sled joins the push chain at position k.                         *)
LEMMA ListsJoin ==
  ASSUME NEW S, NULL \notin S, NEW nxt, NEW e \in S,
         NEW f, NEW p, NEW q \in Seq(S), Lists(S, nxt, {e}, f, p, q), NEW k \in 1 .. Len(q) + 1,
         NEW nxt2, Relinked(S, nxt, nxt2, q, k, e)
  PROVE  Lists(S, nxt2, {}, f, p, Insert(q, k, e))
<1> DEFINE t == Insert(q, k, e)
<1>1. Split(S, {e}, f, p, q) /\ Linked(nxt, f) /\ Linked(nxt, p) /\ Linked(nxt, q)
  BY DEF Lists
<1>2. q \in Seq(S) /\ NoRepeats(q) /\ e \notin Members(q)
  BY <1>1 DEF Split
<1>3. t \in Seq(S)
  BY <1>2, InsertAtPlace
<1>4. Members(t) = Members(q) \cup {e} /\ NoRepeats(t)
  BY <1>2, InsertMembers
<1>5. k \in Int /\ Len(q) \in Nat /\ DOMAIN q = 1 .. Len(q)
  BY <1>2
<1>6. k > 1 => q[k - 1] \in Members(q)
  BY <1>5 DEF Members
<1>7. \A i \in DOMAIN q : i # k - 1 => nxt2[q[i]] = nxt[q[i]]
  <2> SUFFICES ASSUME NEW i \in DOMAIN q, i # k - 1 PROVE nxt2[q[i]] = nxt[q[i]]
    OBVIOUS
  <2>1. q[i] \in Members(q) /\ q[i] \in S
    BY <1>2 DEF Members
  <2>2. k > 1 => k - 1 \in DOMAIN q
    BY <1>5
  <2>3. k > 1 => q[i] # q[k - 1]
    BY <1>2, <2>2 DEF NoRepeats
  <2> QED
    BY <1>2, <2>1, <2>3 DEF Relinked
<1>8. Linked(nxt2, t)
  <2>1. \A i \in DOMAIN q : i # k - 1 => nxt2[q[i]] = nxt[q[i]]
    BY <1>7
  <2>2. /\ q \in Seq(S) /\ k \in 1 .. Len(q) + 1 /\ e \in S /\ Linked(nxt, q)
        /\ nxt2[e] = IF k <= Len(q) THEN q[k] ELSE NULL
        /\ k > 1 => nxt2[q[k - 1]] = e
    BY <1>1, <1>2 DEF Relinked
  <2> QED
    BY ONLY <2>1, <2>2, InsertLinked
<1>9. \A i \in Members(f) \cup Members(p) : i \in S /\ i # e /\ (k > 1 => i # q[k - 1])
  BY <1>1, <1>6 DEF Split
<1>10. Linked(nxt2, f) /\ Linked(nxt2, p)
  <2>1. \A s : Linked(nxt, s) /\ (\A i \in Members(s) : nxt2[i] = nxt[i]) => Linked(nxt2, s)
    BY SameLinks
  <2>2. \A i \in Members(f) \cup Members(p) : nxt2[i] = nxt[i]
    BY <1>9 DEF Relinked
  <2> QED
    BY ONLY <1>1, <2>1, <2>2
<1> HIDE DEF t
<1>11. Split(S, {}, f, p, t)
  BY <1>1, <1>3, <1>4 DEF Split
<1> QED
  BY <1>8, <1>10, <1>11 DEF Lists, t

(* The head of the pop chain becomes the head of the free list.             *)
LEMMA ListsPop ==
  ASSUME NEW S, NULL \notin S, NEW nxt \in [S -> S \cup {NULL}],
         NEW f, NEW p, NEW q, Lists(S, nxt, {}, f, p, q), p # <<>>,
         NEW free, Begins(free, f),
         NEW nxt2, nxt2 = [nxt EXCEPT ![p[1]] = free]
  PROVE  /\ Lists(S, nxt2, {}, Insert(f, 1, p[1]), Tail(p), q)
         /\ Begins(p[1], Insert(f, 1, p[1]))
<1> DEFINE e == p[1]
           t == Insert(f, 1, p[1])
<1>1. Split(S, {}, f, p, q) /\ Linked(nxt, f) /\ Linked(nxt, p) /\ Linked(nxt, q)
  BY DEF Lists
<1>2. f \in Seq(S) /\ p \in Seq(S) /\ NoRepeats(f) /\ NoRepeats(p)
  BY <1>1 DEF Split
<1>3. /\ e \in S /\ 1 \in DOMAIN p /\ Tail(p) \in Seq(S)
      /\ Members(p) = Members(Tail(p)) \cup {e} /\ e \notin Members(Tail(p))
      /\ NoRepeats(Tail(p)) /\ Linked(nxt, Tail(p))
  BY <1>1, <1>2, TailList
<1>4. e \notin Members(f)
  BY <1>1, <1>3 DEF Split
<1>5. 1 \in 1 .. Len(f) + 1 /\ Len(f) \in Nat /\ DOMAIN f = 1 .. Len(f)
  BY <1>2
<1>6. t \in Seq(S) /\ t # <<>> /\ t[1] = e
  BY <1>2, <1>3, <1>5, InsertAtPlace
<1>7. Members(t) = Members(f) \cup {e} /\ NoRepeats(t)
  BY <1>2, <1>3, <1>4, <1>5, InsertMembers
<1>8. free = IF 1 <= Len(f) THEN f[1] ELSE NULL
  <2>1. f = <<>> <=> ~ (1 <= Len(f))
    BY <1>2
  <2> QED
    BY <2>1 DEF Begins
<1>9. nxt2[e] = free /\ \A i \in S : i # e => nxt2[i] = nxt[i]
  BY <1>3
<1>10. Linked(nxt2, t)
  <2>1. \A i \in DOMAIN f : nxt2[f[i]] = nxt[f[i]]
    BY <1>2, <1>4, <1>9 DEF Members
  <2>2. ~ 1 > 1
    OBVIOUS
  <2>3. nxt2[e] = IF 1 <= Len(f) THEN f[1] ELSE NULL
    BY <1>8, <1>9
  <2> HIDE DEF e
  <2>4. Linked(nxt2, Insert(f, 1, e))
    BY ONLY <1>1, <1>2, <1>3, <1>5, <2>1, <2>2, <2>3, InsertLinked
  <2> QED
    BY <2>4 DEF e
<1>11. \A i \in Members(Tail(p)) \cup Members(q) : i \in S /\ i # e
  BY <1>1, <1>3 DEF Split
<1>12. Linked(nxt2, Tail(p)) /\ Linked(nxt2, q)
  <2>1. \A s : Linked(nxt, s) /\ (\A i \in Members(s) : nxt2[i] = nxt[i]) => Linked(nxt2, s)
    BY SameLinks
  <2>2. \A i \in Members(Tail(p)) \cup Members(q) : nxt2[i] = nxt[i]
    BY <1>9, <1>11
  <2> QED
    BY ONLY <1>1, <1>3, <2>1, <2>2
<1> HIDE DEF t, e
<1>13. Split(S, {}, t, Tail(p), q)
  BY <1>1, <1>3, <1>4, <1>6, <1>7 DEF Split
<1> QED
  BY <1>3, <1>6, <1>7, <1>10, <1>12, <1>13 DEF Lists, Begins, t, e

\* The free list once there is a vacant sled.
RoomList(f) == IF Exhausted THEN [i \in 1 .. capacity |-> capacity + i - 1] ELSE f

(* Growing the array keeps the chains; the new half is the free list.       *)
LEMMA ListsRoom ==
  ASSUME TypeOK, NEW f, NEW p, NEW q, Lists(Sleds, next, {}, f, p, q),
         Begins(free_list, f), NEW g, g = RoomList(f)
  PROVE  /\ Lists(RoomSleds, RoomNext, {}, g, p, q)
         /\ g # <<>>
         /\ RoomFree = g[1]
         /\ Members(g) \subseteq Members(f) \cup (RoomSleds \ Sleds)
         /\ RoomSleds = Sleds \cup Members(g)
<1> USE QueueAssumption
<1>1. Split(Sleds, {}, f, p, q) /\ Linked(next, f) /\ Linked(next, p) /\ Linked(next, q)
  BY DEF Lists
<1>2. NULL \notin Sleds /\ capacity \in Nat \ {0}
  BY DEF Sleds, TypeOK
<1>3. CASE ~ Exhausted
  <2>1. g = f /\ RoomFree = free_list /\ free_list # NULL /\ RoomCapacity = capacity
    BY <1>3 DEF RoomList, RoomFree, Exhausted, RoomCapacity
  <2>2. RoomSleds = Sleds
    BY <2>1 DEF RoomSleds, Sleds
  <2>3. RoomNext = next
    BY <2>1, <2>2 DEF RoomNext, RoomSleds, TypeOK
  <2>4. f # <<>> /\ free_list = f[1]
    BY <2>1 DEF Begins
  <2>5. Members(f) \subseteq Sleds
    BY <1>1 DEF Split
  <2> QED
    BY <2>1, <2>2, <2>3, <2>4, <2>5
<1>4. CASE Exhausted
  <2>1. /\ g = [i \in 1 .. capacity |-> capacity + i - 1]
        /\ RoomFree = capacity /\ RoomCapacity = 2 * capacity /\ free_list = NULL
    BY <1>4 DEF RoomList, RoomFree, Exhausted, RoomCapacity
  <2>2. f = <<>>
    <3> SUFFICES ASSUME f # <<>> PROVE FALSE
      OBVIOUS
    <3>1. f \in Seq(Sleds)
      BY <1>1 DEF Split
    <3>2. f[1] \in Sleds
      BY <3>1
    <3> QED
      BY <1>2, <2>1, <3>2 DEF Begins
  <2>3. Members(f) = {}
    BY <2>2 DEF Members
  <2>4. /\ RoomSleds = 0 .. 2 * capacity - 1 /\ Sleds = 0 .. capacity - 1
        /\ \A i \in Sleds : i \in RoomSleds
    BY <1>2, <2>1 DEF RoomSleds, Sleds
  <2>5. g \in [1 .. capacity -> RoomSleds]
    BY <1>2, <2>1, <2>4
  <2>6. g \in Seq(RoomSleds) /\ Len(g) = capacity /\ DOMAIN g = 1 .. capacity
    BY <1>2, <2>5
  <2>7. g[1] = capacity /\ g # <<>>
    BY <1>2, <2>1, <2>6
  <2>8. \A i \in DOMAIN g : g[i] = capacity + i - 1
    BY <2>1, <2>6
  <2>9. NoRepeats(g)
    BY <1>2, <2>6, <2>8 DEF NoRepeats
  <2>10. Members(g) = RoomSleds \ Sleds
    <3>1. \A i \in DOMAIN g : g[i] \in RoomSleds \ Sleds
      BY <1>2, <2>4, <2>6, <2>8
    <3>2. ASSUME NEW j \in RoomSleds \ Sleds PROVE \E i \in DOMAIN g : g[i] = j
      <4>1. j - capacity + 1 \in DOMAIN g /\ capacity + (j - capacity + 1) - 1 = j
        BY <1>2, <2>4, <2>6
      <4> QED
        BY <4>1, <2>8
    <3> QED
      BY <3>1, <3>2 DEF Members
  <2>11. \A i \in Sleds : RoomNext[i] = next[i]
    BY <2>4 DEF RoomNext, RoomSleds
  <2>12. \A i \in RoomSleds \ Sleds :
           RoomNext[i] = IF i < 2 * capacity - 1 THEN i + 1 ELSE NULL
    BY <1>2, <2>1, <2>4 DEF RoomNext, RoomSleds, FreshLinks
  <2>13. Linked(RoomNext, g)
    <3> SUFFICES ASSUME NEW i \in DOMAIN g
                 PROVE  RoomNext[g[i]] = IF i < Len(g) THEN g[i + 1] ELSE NULL
      BY DEF Linked
    <3>1. g[i] \in RoomSleds \ Sleds /\ g[i] = capacity + i - 1 /\ i \in 1 .. capacity
      BY <2>6, <2>8, <2>10 DEF Members
    <3>2. i < Len(g) => i + 1 \in DOMAIN g
      BY <1>2, <2>6
    <3>3. i < Len(g) => g[i + 1] = capacity + (i + 1) - 1
      BY <3>2, <2>8
    <3>4. RoomNext[g[i]] = IF g[i] < 2 * capacity - 1 THEN g[i] + 1 ELSE NULL
      BY <3>1, <2>12
    <3>5. i < Len(g) <=> g[i] < 2 * capacity - 1
      BY <3>1, <2>6, <1>2
    <3>6. capacity + (i + 1) - 1 = (capacity + i - 1) + 1
      BY <3>1, <1>2
    <3> QED
      BY <3>1, <3>3, <3>4, <3>5, <3>6
  <2>14. Members(p) \subseteq Sleds /\ Members(q) \subseteq Sleds
         /\ Members(p) \cap Members(q) = {} /\ Sleds = Members(p) \cup Members(q)
         /\ NoRepeats(p) /\ NoRepeats(q) /\ p \in Seq(Sleds) /\ q \in Seq(Sleds)
    BY <1>1, <2>3 DEF Split
  <2>15. p \in Seq(RoomSleds) /\ q \in Seq(RoomSleds)
    <3>1. \A s : s \in Seq(Sleds) => s \in Seq(RoomSleds)
      <4> SUFFICES ASSUME NEW s \in Seq(Sleds) PROVE s \in Seq(RoomSleds)
        OBVIOUS
      <4>1. s \in [1 .. Len(s) -> Sleds] /\ Len(s) \in Nat
        OBVIOUS
      <4>2. \A i \in Sleds : i \in RoomSleds
        BY <2>4
      <4>3. s \in [1 .. Len(s) -> RoomSleds]
        BY ONLY <4>1, <4>2
      <4> QED
        BY ONLY <4>1, <4>3
    <3> QED
      BY <3>1, <2>14
  <2>16. Linked(RoomNext, p) /\ Linked(RoomNext, q)
    <3>1. \A s : Linked(next, s) /\ (\A i \in Members(s) : RoomNext[i] = next[i])
                   => Linked(RoomNext, s)
      BY SameLinks
    <3> QED
      BY <3>1, <1>1, <2>11, <2>14
  <2>17. \A i \in Sleds : i \in RoomSleds
    BY <2>4
  <2>18. Split(RoomSleds, {}, g, p, q)
    BY <2>6, <2>9, <2>10, <2>14, <2>15, <2>17 DEF Split
  <2> QED
    BY <2>1, <2>7, <2>10, <2>13, <2>16, <2>17, <2>18 DEF Lists
<1> QED
  BY <1>3, <1>4

------------------------------------------------------------------------------
(* The chains of the array are the lists, and the sled outside of them.     *)
LEMMA ListsListed ==
  ASSUME NEW S, NULL \notin S, NEW nxt, NEW new, \A n \in new : nxt[n] = NULL,
         NEW f, NEW p, NEW q, Lists(S, nxt, new, f, p, q)
  PROVE  Listed(S, nxt, {f, p, q} \cup {<<n>> : n \in new})
<1>1. Split(S, new, f, p, q) /\ Linked(nxt, f) /\ Linked(nxt, p) /\ Linked(nxt, q)
  BY DEF Lists
<1> DEFINE lists == {f, p, q} \cup {<<n>> : n \in new}
<1>2. ASSUME NEW n \in new
      PROVE  /\ <<n>> \in Seq(S) /\ NoRepeats(<<n>>) /\ Linked(nxt, <<n>>)
             /\ Members(<<n>>) = {n} /\ <<n>> \in lists
  <2>1. n \in S
    BY <1>1 DEF Split
  <2>2. <<n>> \in Seq(S) /\ DOMAIN <<n>> = {1} /\ <<n>>[1] = n /\ Len(<<n>>) = 1
    BY <2>1
  <2>3. ~ 1 < 1
    OBVIOUS
  <2> QED
    BY <2>2, <2>3 DEF NoRepeats, Linked, Members
<1>3. f \in lists /\ p \in lists /\ q \in lists
  OBVIOUS
<1>4. \A s \in lists : s \in Seq(S) /\ NoRepeats(s) /\ Linked(nxt, s)
  <2> SUFFICES ASSUME NEW s \in lists PROVE s \in Seq(S) /\ NoRepeats(s) /\ Linked(nxt, s)
    OBVIOUS
  <2>1. s = f \/ s = p \/ s = q \/ \E n \in new : s = <<n>>
    OBVIOUS
  <2> QED
    BY <1>1, <1>2, <2>1 DEF Split
<1>5. \A i \in S : \E s \in lists : i \in Members(s)
  <2> SUFFICES ASSUME NEW i \in S PROVE \E s \in lists : i \in Members(s)
    OBVIOUS
  <2>1. i \in Members(f) \/ i \in Members(p) \/ i \in Members(q) \/ i \in new
    BY <1>1 DEF Split
  <2>2. i \in new => <<i>> \in lists /\ i \in Members(<<i>>)
    BY <1>2
  <2> HIDE DEF lists
  <2> QED
    BY <1>3, <2>1, <2>2
<1>6. ASSUME NEW s \in lists, NEW t \in lists, s # t PROVE Members(s) \cap Members(t) = {}
  <2>1. s = f \/ s = p \/ s = q \/ \E n \in new : s = <<n>>
    OBVIOUS
  <2>2. t = f \/ t = p \/ t = q \/ \E n \in new : t = <<n>>
    OBVIOUS
  <2>3. CASE s \in {f, p, q} /\ t \in {f, p, q}
    BY <2>3, <1>1, <1>6 DEF Split
  <2>4. CASE s \in {f, p, q} /\ \E n \in new : t = <<n>>
    BY <2>4, <1>1, <1>2 DEF Split
  <2>5. CASE (\E n \in new : s = <<n>>) /\ t \in {f, p, q}
    BY <2>5, <1>1, <1>2 DEF Split
  <2>6. CASE (\E n \in new : s = <<n>>) /\ (\E n \in new : t = <<n>>)
    <3>1. PICK n \in new : s = <<n>>
      BY <2>6
    <3>2. PICK m \in new : t = <<m>>
      BY <2>6
    <3>3. n # m
      BY <3>1, <3>2, <1>6
    <3> QED
      BY <3>1, <3>2, <3>3, <1>2
  <2> QED
    BY <2>1, <2>2, <2>3, <2>4, <2>5, <2>6
<1> HIDE DEF lists
<1>7. Listed(S, nxt, lists)
  BY <1>4, <1>5, <1>6 DEF Listed
<1> QED
  BY <1>7 DEF lists

(* ChainFrom yields the list that begins at its argument.                   *)
LEMMA ChainFromList ==
  ASSUME NEW lists, Listed(Sleds, next, lists), NEW s \in lists, NEW head, Begins(head, s)
  PROVE  ChainFrom(head) = s
<1> DEFINE chain == CHOOSE c : c = [i \in Sleds |-> <<i>> \o (IF next[i] = NULL THEN <<>>
                                                             ELSE c[next[i]])]
<1>1. \E c : Follows(Sleds, next, c)
  BY FollowsExists
<1>2. \E c : c = [i \in Sleds |-> <<i>> \o (IF next[i] = NULL THEN <<>> ELSE c[next[i]])]
  BY <1>1 DEF Follows
<1>3. chain = [i \in Sleds |-> <<i>> \o (IF next[i] = NULL THEN <<>> ELSE chain[next[i]])]
  BY ONLY <1>2
<1>4. ChainFrom(head) = IF head = NULL THEN <<>> ELSE chain[head]
  BY DEF ChainFrom
<1> HIDE DEF chain
<1>5. Follows(Sleds, next, chain)
  BY <1>3 DEF Follows
<1>6. s # <<>> => chain[s[1]] = s
  BY <1>5, FollowsLists
<1>7. s \in Seq(Sleds) /\ NULL \notin Sleds
  BY DEF Listed
<1>8. s # <<>> => s[1] # NULL
  BY <1>7
<1> QED
  BY <1>4, <1>6, <1>8 DEF Begins

(* A tracker of a list that is not empty is not None.                       *)
LEMMA TrackerOfList ==
  ASSUME NEW S, S \subseteq Nat, NEW s \in Seq(S), NEW buffer, Tracks(buffer, s)
  PROVE  /\ buffer = NULL <=> s = <<>>
         /\ buffer # NULL => /\ buffer.first = s[1] /\ buffer.last = s[Len(s)]
                             /\ buffer.len = Len(s) % LenMod
<1> SUFFICES ASSUME s # <<>>
             PROVE  /\ buffer # NULL
                    /\ buffer.first = s[1] /\ buffer.last = s[Len(s)]
                    /\ buffer.len = Len(s) % LenMod
  BY DEF Tracks
<1>1. /\ Len(s) \in Nat \ {0} /\ LenMod \in Nat \ {0}
      /\ s[1] \in S /\ s[Len(s)] \in S
  BY QueueAssumption
<1>2. buffer = [len |-> Len(s) % LenMod, first |-> s[1], last |-> s[Len(s)]]
  BY DEF Tracks
<1>3. Len(s) % LenMod \in 0 .. LenMod - 1
  BY <1>1
<1>4. buffer \in Tracker(Nat)
  BY <1>1, <1>2, <1>3 DEF Tracker
<1>5. buffer # NULL
  BY <1>4, NoneAssumption
<1> QED
  BY <1>2, <1>5

ChainsAreLists ==
  \A f, p, q : TypeOK /\ Shape(f, p, q) => /\ ChainFrom(free_list) = f
                                            /\ Chain(pop_buffer) = p
                                            /\ Chain(push_buffer) = q

(* In every state of the invariant, what ChainFrom computes is the lists.   *)
LEMMA ChainsAre == ChainsAreLists
<1> SUFFICES ASSUME NEW f, NEW p, NEW q, TypeOK, Shape(f, p, q)
             PROVE  /\ ChainFrom(free_list) = f
                    /\ Chain(pop_buffer) = p
                    /\ Chain(push_buffer) = q
  BY DEF ChainsAreLists
<1> DEFINE lists == {f, p, q} \cup {<<n>> : n \in New}
<1>1. NULL \notin Sleds /\ Sleds \subseteq Nat
  BY QueueAssumption DEF TypeOK, Sleds
<1>2. /\ Lists(Sleds, next, New, f, p, q)
      /\ Begins(free_list, f) /\ Tracks(pop_buffer, p) /\ Tracks(push_buffer, q)
  BY DEF Shape
<1>3. \A n \in New : next[n] = NULL
  BY DEF Shape, Walks, New
<1>4. Listed(Sleds, next, lists)
  BY <1>1, <1>2, <1>3, ListsListed
<1>5. f \in lists /\ p \in lists /\ q \in lists
  OBVIOUS
<1> HIDE DEF lists
<1>6. \A s \in lists : \A head : Begins(head, s) => ChainFrom(head) = s
  BY <1>4, ChainFromList
<1>7. ASSUME NEW s \in lists, NEW buffer, Tracks(buffer, s), s \in Seq(Sleds)
      PROVE  Chain(buffer) = s
  <2>1. /\ buffer = NULL <=> s = <<>>
        /\ buffer # NULL => buffer.first = s[1]
    BY <1>1, <1>7, TrackerOfList
  <2>2. buffer # NULL => Begins(buffer.first, s)
    BY <2>1 DEF Begins
  <2> QED
    BY <1>6, <2>1, <2>2 DEF Chain
<1>8. p \in Seq(Sleds) /\ q \in Seq(Sleds)
  BY <1>2 DEF Lists, Split
<1> QED
  BY <1>2, <1>5, <1>6, <1>7, <1>8

(* The same of the state after a step.                                      *)
LEMMA ChainsAreNext == ChainsAreLists'
BY ChainsAre, PTL

------------------------------------------------------------------------------
(* What the two pushes do to the lists before they join the new sled.       *)
LEMMA OccupyLists ==
  ASSUME TypeOK, cursor = NULL, NEW pr \in Priorities, NEW x \in Items,
         Occupy(pr, x, next'),
         NEW f, NEW p, NEW q, Shape(f, p, q), NEW g, g = RoomList(f),
         NEW links, links = [RoomNext EXCEPT ![RoomFree] = NULL]
  PROVE  /\ Sleds' = RoomSleds
         /\ RoomFree = g[1] /\ g[1] \in RoomSleds
         /\ Lists(RoomSleds, links, {g[1]}, Tail(g), p, q)
         /\ Begins(free_list', Tail(g))
         /\ Filled(content', priority', Members(p) \cup Members(q) \cup {g[1]},
                   Members(Tail(g)))
         /\ Put(content', priority', g[1], x, pr)
         /\ Agree(content, content', Members(p) \cup Members(q))
         /\ Agree(priority, priority', Members(p) \cup Members(q))
<1> USE QueueAssumption
<1>1. /\ Lists(Sleds, next, {}, f, p, q) /\ Begins(free_list, f)
      /\ Filled(content, priority, Members(p) \cup Members(q), Members(f))
  BY DEF Shape, New
<1>2. /\ Lists(RoomSleds, RoomNext, {}, g, p, q) /\ g # <<>> /\ RoomFree = g[1]
      /\ Members(g) \subseteq Members(f) \cup (RoomSleds \ Sleds)
  BY <1>1, ListsRoom
<1>3. Sleds' = RoomSleds /\ NULL \notin RoomSleds
  BY RoomType DEF Occupy, Sleds, RoomSleds
<1>4. /\ RoomNext \in [RoomSleds -> RoomSleds \cup {NULL}]
      /\ RoomContent \in [RoomSleds -> Items \cup {NULL}]
      /\ RoomPriority \in [RoomSleds -> Nat]
      /\ Sleds \subseteq RoomSleds
  BY RoomType
<1>5. /\ g[1] \in RoomSleds
      /\ Lists(RoomSleds, links, {g[1]}, Tail(g), p, q)
      /\ links[g[1]] = NULL
      /\ Begins(RoomNext[g[1]], Tail(g))
      /\ Members(g) = Members(Tail(g)) \cup {g[1]}
  <2>1. links = [RoomNext EXCEPT ![g[1]] = NULL]
    BY <1>2
  <2> QED
    BY <1>2, <1>3, <1>4, <2>1, ListsTake
<1>6. /\ content' = [RoomContent EXCEPT ![g[1]] = x]
      /\ priority' = [RoomPriority EXCEPT ![g[1]] = pr]
      /\ free_list' = RoomNext[g[1]]
  BY <1>2 DEF Occupy
<1>7. \A i \in RoomSleds : /\ RoomContent[i] = IF i \in Sleds THEN content[i] ELSE NULL
                           /\ RoomPriority[i] = IF i \in Sleds THEN priority[i] ELSE 0
  BY DEF RoomContent, RoomPriority, RoomSleds
<1>8. content'[g[1]] = x /\ priority'[g[1]] = pr
  BY <1>4, <1>5, <1>6
<1>9. \A i \in RoomSleds : i # g[1] => /\ content'[i] = RoomContent[i]
                                       /\ priority'[i] = RoomPriority[i]
  BY <1>4, <1>5, <1>6
<1>10. Members(p) \cup Members(q) \subseteq Sleds
  BY <1>1 DEF Lists, Split
<1>11. /\ g[1] \notin Members(p) \cup Members(q) \cup Members(Tail(g))
       /\ Members(Tail(g)) \subseteq RoomSleds
  BY <1>5 DEF Lists, Split
<1>12. \A i \in Members(p) \cup Members(q) : /\ content'[i] = content[i]
                                             /\ priority'[i] = priority[i]
  BY <1>4, <1>7, <1>9, <1>10, <1>11
<1>13. \A i \in Members(Tail(g)) : content'[i] = NULL
  BY <1>1, <1>2, <1>5, <1>7, <1>9, <1>11 DEF Filled
<1>14. Filled(content', priority', Members(p) \cup Members(q) \cup {g[1]}, Members(Tail(g)))
  BY <1>1, <1>8, <1>12, <1>13 DEF Filled
<1>15. /\ Put(content', priority', g[1], x, pr)
       /\ Agree(content, content', Members(p) \cup Members(q))
       /\ Agree(priority, priority', Members(p) \cup Members(q))
  BY <1>8, <1>12 DEF Put, Agree
<1> QED
  BY <1>2, <1>3, <1>5, <1>6, <1>14, <1>15

------------------------------------------------------------------------------
\* The length counters: u16 arithmetic.
(* Division by LenMod leaves a remainder,                                   *)
LEMMA DivMod ==
  ASSUME NEW a \in Int, NEW m \in Nat \ {0}
  PROVE  /\ a = m * (a \div m) + (a % m)
         /\ a \div m \in Int /\ a % m \in 0 .. m - 1
OBVIOUS

(* and only one.                                                            *)
LEMMA ModUnique ==
  ASSUME NEW a \in Int, NEW m \in Nat \ {0}, NEW b \in Int, NEW r \in 0 .. m - 1,
         a = m * b + r
  PROVE  a % m = r
OBVIOUS

(* Counting modulo m after the fact or as one goes makes no difference.     *)
LEMMA ModStep ==
  ASSUME NEW a \in Int, NEW m \in Nat \ {0}, NEW d \in Int
  PROVE  ((a % m) + d) % m = (a + d) % m
<1> DEFINE b == a \div m
           r == a % m
           c == (r + d) \div m
           s == (r + d) % m
<1>1. a = m * b + r /\ r \in 0 .. m - 1 /\ b \in Int
  BY DivMod
<1> HIDE DEF b, r
<1>2. r + d \in Int
  BY <1>1
<1>3. r + d = m * c + s /\ s \in 0 .. m - 1 /\ c \in Int
  BY <1>2, DivMod
<1> HIDE DEF c, s
<1>4. m * (b + c) = m * b + m * c
  BY <1>1, <1>3
<1>5. a + d = m * (b + c) + s /\ a + d \in Int /\ b + c \in Int
  BY <1>1, <1>3, <1>4
<1>6. (a + d) % m = s
  BY <1>3, <1>5, ModUnique
<1> QED
  BY <1>6 DEF s, r

(* The tracker of the push chain that e joins at position k; each way of    *)
(* pushing updates it so.                                                   *)
LEMMA TrackJoined ==
  ASSUME NEW S, S \subseteq Nat, NEW q \in Seq(S), NEW e \in S,
         NEW k \in 1 .. Len(q) + 1, NEW buffer, Tracks(buffer, q)
  PROVE  /\ q = <<>> => Tracks(Single(e), Insert(q, k, e))
         /\ q # <<>> /\ k = 1 => Tracks(Joined(buffer, e, buffer.last), Insert(q, k, e))
         /\ q # <<>> /\ k > 1 /\ k <= Len(q) =>
              Tracks(Joined(buffer, buffer.first, buffer.last), Insert(q, k, e))
         /\ q # <<>> /\ k = Len(q) + 1 =>
              Tracks(Joined(buffer, buffer.first, e), Insert(q, k, e))
<1> DEFINE t == Insert(q, k, e)
<1>1. /\ t # <<>> /\ Len(t) = Len(q) + 1 /\ t[k] = e
      /\ \A i \in 1 .. k - 1 : t[i] = q[i]
      /\ \A i \in k + 1 .. Len(q) + 1 : t[i] = q[i - 1]
  BY InsertAtPlace
<1> HIDE DEF t
<1>2. Len(q) \in Nat /\ k \in Int /\ k >= 1 /\ k <= Len(q) + 1 /\ LenMod \in Nat \ {0}
      /\ (q = <<>> <=> Len(q) = 0)
  BY QueueAssumption
<1>3. k = 1 => t[1] = e
  BY <1>1
<1>4. k > 1 => t[1] = q[1]
  BY <1>1, <1>2
<1>5. k = Len(q) + 1 => t[Len(t)] = e
  BY <1>1
<1>6. k <= Len(q) => t[Len(t)] = q[Len(q)]
  <2> SUFFICES ASSUME k <= Len(q) PROVE t[Len(t)] = q[Len(q)]
    OBVIOUS
  <2>1. Len(t) \in k + 1 .. Len(q) + 1 /\ Len(t) - 1 = Len(q)
    BY <1>1, <1>2
  <2> QED
    BY <1>1, <2>1
<1>7. Tracks([len |-> (Len(q) + 1) % LenMod, first |-> t[1], last |-> t[Len(t)]], t)
  BY <1>1 DEF Tracks
<1>8. CASE q = <<>>
  <2>1. k = 1 /\ k = Len(q) + 1 /\ Len(q) + 1 = 1
    BY <1>2, <1>8
  <2>2. Single(e) = [len |-> (Len(q) + 1) % LenMod, first |-> t[1], last |-> t[Len(t)]]
    BY <1>3, <1>5, <2>1 DEF Single
  <2> QED
    BY <1>7, <1>8, <2>2 DEF t
<1>9. CASE q # <<>>
  <2>1. buffer.first = q[1] /\ buffer.last = q[Len(q)] /\ buffer.len = Len(q) % LenMod
    BY <1>9 DEF Tracks
  <2>2. (buffer.len + 1) % LenMod = (Len(q) + 1) % LenMod
    <3>1. Len(q) \in Int /\ 1 \in Int /\ LenMod \in Nat \ {0}
      BY <1>2
    <3>2. ((Len(q) % LenMod) + 1) % LenMod = (Len(q) + 1) % LenMod
      BY ONLY <3>1, ModStep
    <3> QED
      BY <2>1, <3>2
  <2>3. \A a, b : a = t[1] /\ b = t[Len(t)] => Tracks(Joined(buffer, a, b), t)
    BY <1>7, <2>2 DEF Joined
  <2>4. k = 1 => k <= Len(q)
    BY <1>2, <1>9
  <2>5. k = Len(q) + 1 => k > 1
    BY <1>2, <1>9
  <2> QED
    BY <1>3, <1>4, <1>5, <1>6, <1>9, <2>1, <2>3, <2>4, <2>5 DEF t
<1> QED
  BY <1>8, <1>9

(* The tracker of the pop chain once its head is gone.                      *)
LEMMA TrackTail ==
  ASSUME NEW S, S \subseteq Nat, NEW p \in Seq(S), p # <<>>, NoRepeats(p),
         NEW nxt, Linked(nxt, p), NEW buffer, Tracks(buffer, p)
  PROVE  /\ nxt[p[1]] = NULL => Tracks(NULL, Tail(p))
         /\ nxt[p[1]] # NULL =>
              Tracks([len   |-> (buffer.len - 1) % LenMod,
                      first |-> nxt[p[1]],
                      last  |-> buffer.last], Tail(p))
<1> DEFINE t == Tail(p)
<1>1. Len(p) \in Nat \ {0} /\ LenMod \in Nat \ {0} /\ NULL \notin S
  <2>1. LenMod \in Nat \ {0} /\ NULL \notin Nat
    BY QueueAssumption
  <2>2. Len(p) \in Nat \ {0}
    OBVIOUS
  <2>3. NULL \notin S
    BY <2>1
  <2> QED
    BY <2>1, <2>2, <2>3
<1>2. /\ Len(t) = Len(p) - 1
      /\ nxt[p[1]] = IF t = <<>> THEN NULL ELSE t[1]
      /\ t # <<>> => t[1] # NULL /\ t[Len(t)] = p[Len(p)]
  BY <1>1, TailList
<1> HIDE DEF t
<1>3. buffer.last = p[Len(p)] /\ buffer.len = Len(p) % LenMod
  BY DEF Tracks
<1>4. (buffer.len - 1) % LenMod = Len(t) % LenMod
  <2>1. Len(p) % LenMod \in Int
    BY <1>1, DivMod
  <2>2. (Len(p) % LenMod) + (-1) = (Len(p) % LenMod) - 1 /\ Len(p) + (-1) = Len(p) - 1
    BY <1>1, <2>1
  <2>3. ((Len(p) % LenMod) + (-1)) % LenMod = (Len(p) + (-1)) % LenMod
    <3>1. Len(p) \in Int /\ -1 \in Int /\ LenMod \in Nat \ {0}
      BY <1>1
    <3> QED
      BY ONLY <3>1, ModStep
  <2> QED
    BY <1>2, <1>3, <2>2, <2>3
<1>5. CASE t = <<>>
  BY <1>2, <1>5 DEF Tracks, t
<1>6. CASE t # <<>>
  BY <1>2, <1>3, <1>4, <1>6 DEF Tracks, t
<1> QED
  BY <1>5, <1>6

------------------------------------------------------------------------------
(* A push chain of the state, as a list of naturals with its tracker.       *)
LEMMA PushChain ==
  ASSUME TypeOK, NEW f, NEW p, NEW q, Shape(f, p, q)
  PROVE  /\ q \in Seq(Sleds) /\ Len(q) \in Nat /\ DOMAIN q = 1 .. Len(q)
         /\ q = <<>> <=> Len(q) = 0
         /\ push_buffer = NULL <=> q = <<>>
         /\ q # <<>> => /\ push_buffer.first = q[1] /\ push_buffer.last = q[Len(q)]
                        /\ 1 \in DOMAIN q /\ Len(q) \in DOMAIN q
         /\ Sleds \subseteq Nat /\ NULL \notin Sleds
<1>1. Sleds \subseteq Nat /\ NULL \notin Sleds
  BY QueueAssumption DEF TypeOK, Sleds
<1>2. q \in Seq(Sleds) /\ Tracks(push_buffer, q)
  BY DEF Shape, Lists, Split
<1>3. /\ push_buffer = NULL <=> q = <<>>
      /\ push_buffer # NULL => push_buffer.first = q[1] /\ push_buffer.last = q[Len(q)]
  BY <1>1, <1>2, TrackerOfList
<1>4. /\ Len(q) \in Nat /\ DOMAIN q = 1 .. Len(q) /\ (q = <<>> <=> Len(q) = 0)
      /\ q # <<>> => 1 \in DOMAIN q /\ Len(q) \in DOMAIN q
  BY <1>2
<1> QED
  BY <1>1, <1>2, <1>3, <1>4

(* push_back appends the head of the free list to the push chain.           *)
LEMMA PushBackShape ==
  ASSUME TypeOK, NEW pr \in Priorities, NEW x \in Items, PushBack(pr, x),
         NEW f, NEW p, NEW q, Shape(f, p, q), NEW g, g = RoomList(f),
         NEW e, e = g[1], NEW f2, f2 = Tail(g), NEW q2, q2 = Insert(q, Len(q) + 1, e)
  PROVE  /\ Shape(f2, p, q2)'
         /\ Put(content', priority', e, x, pr)
         /\ Agree(content, content', Members(p) \cup Members(q))
         /\ Agree(priority, priority', Members(p) \cup Members(q))
<1>1. cursor = NULL /\ cursor' = NULL /\ pop_buffer' = pop_buffer /\ Occupy(pr, x, next')
  BY DEF PushBack, Idle, Occupy
<1>2. PICK links : links = [RoomNext EXCEPT ![RoomFree] = NULL]
  OBVIOUS
<1>3. /\ Sleds' = RoomSleds
      /\ RoomFree = e /\ e \in RoomSleds
      /\ Lists(RoomSleds, links, {e}, f2, p, q)
      /\ Begins(free_list', f2)
      /\ Filled(content', priority', Members(p) \cup Members(q) \cup {e}, Members(f2))
      /\ Put(content', priority', e, x, pr)
      /\ Agree(content, content', Members(p) \cup Members(q))
      /\ Agree(priority, priority', Members(p) \cup Members(q))
  BY <1>1, <1>2, OccupyLists
<1>4. /\ Len(q) \in Nat /\ DOMAIN q = 1 .. Len(q) /\ (q = <<>> <=> Len(q) = 0)
      /\ push_buffer = NULL <=> q = <<>>
      /\ q # <<>> => push_buffer.first = q[1] /\ push_buffer.last = q[Len(q)]
                     /\ Len(q) \in DOMAIN q
  BY PushChain
<1>5. /\ RoomSleds \subseteq Nat /\ NULL \notin RoomSleds /\ q \in Seq(RoomSleds)
      /\ links \in [RoomSleds -> RoomSleds \cup {NULL}]
  BY <1>2, <1>3, RoomType, QueueAssumption DEF RoomSleds, Lists, Split
<1>6. PICK k : k = Len(q) + 1
  OBVIOUS
<1>7. k \in 1 .. Len(q) + 1 /\ ~ k <= Len(q) /\ k - 1 = Len(q)
  BY <1>4, <1>6
<1>8. links[e] = NULL
  BY <1>2, <1>3, RoomType
<1>9. Relinked(RoomSleds, links, next', q, k, e)
  <2>1. CASE push_buffer = NULL
    <3>1. next' = links /\ ~ k > 1
      BY <2>1, <1>2, <1>4, <1>6 DEF PushBack, Occupy
    <3> QED
      BY <3>1, <1>7, <1>8 DEF Relinked
  <2>2. CASE push_buffer # NULL
    <3>1. q # <<>> /\ q[Len(q)] \in Members(q) /\ push_buffer.last = q[k - 1] /\ k > 1
      BY <2>2, <1>4, <1>6, <1>7 DEF Members
    <3>2. q[k - 1] # e /\ q[k - 1] \in RoomSleds
      BY <3>1, <1>3, <1>7 DEF Lists, Split
    <3>3. next' = [links EXCEPT ![q[k - 1]] = e]
      BY <2>2, <3>1, <1>2, <1>3 DEF PushBack, Occupy
    <3>4. next'[e] = NULL
      BY ONLY <3>2, <3>3, <1>3, <1>5, <1>8
    <3>5. next'[q[k - 1]] = e
      BY ONLY <3>2, <3>3, <1>5
    <3>6. \A i \in RoomSleds : i # e /\ i # q[k - 1] => next'[i] = links[i]
      BY ONLY <3>2, <3>3, <1>5
    <3> QED
      BY <3>1, <3>4, <3>5, <3>6, <1>7 DEF Relinked
  <2> QED
    BY <2>1, <2>2
<1>10. q2 = Insert(q, k, e)
  BY <1>6
<1>11. Lists(RoomSleds, next', {}, f2, p, q2) /\ Members(q2) = Members(q) \cup {e}
  <2>1. e \in RoomSleds /\ Lists(RoomSleds, links, {e}, f2, p, q) /\ NULL \notin RoomSleds
        /\ k \in 1 .. Len(q) + 1
    BY <1>3, <1>5, <1>7
  <2>2. Lists(RoomSleds, next', {}, f2, p, Insert(q, k, e))
    BY ONLY <2>1, <1>5, <1>9, ListsJoin
  <2>3. Members(Insert(q, k, e)) = Members(q) \cup {e}
    BY ONLY <2>1, <1>5, InsertMembers
  <2> QED
    BY <1>10, <2>2, <2>3
<1>12. Tracks(push_buffer', q2)
  <2>1. Tracks(push_buffer, q)
    BY DEF Shape
  <2>2. q = <<>> => Tracks(Single(e), q2)
    BY ONLY <2>1, <1>3, <1>5, <1>7, <1>10, TrackJoined
  <2>3. q # <<>> => Tracks(Joined(push_buffer, push_buffer.first, e), q2)
    BY ONLY <2>1, <1>3, <1>5, <1>6, <1>7, <1>10, TrackJoined
  <2> QED
    BY <2>2, <2>3, <1>3, <1>4 DEF PushBack
<1>13. Tracks(pop_buffer', p)
  BY <1>1 DEF Shape
<1>14. Shape(f2, p, q2)'
  <2>1. Members(p) \cup Members(q2) \cup {} = Members(p) \cup Members(q) \cup {e}
    BY <1>11
  <2>2. New' = {} /\ Walks(q2)'
    BY <1>1 DEF New, Walks
  <2>3. Filled(content', priority', Members(p) \cup Members(q2) \cup {}, Members(f2))
    BY <1>3, <2>1
  <2> QED
    BY <1>3, <1>11, <1>12, <1>13, <2>2, <2>3 DEF Shape
<1> QED
  BY <1>3, <1>14

(* push_with_priority up to its loop: the new sled is the push chain if     *)
(* that was empty, and is held by the walk otherwise.                       *)
LEMMA PushWithPriorityShape ==
  ASSUME TypeOK, NEW pr \in Priorities, NEW x \in Items, PushWithPriority(pr, x),
         NEW f, NEW p, NEW q, Shape(f, p, q), NEW g, g = RoomList(f),
         NEW e, e = g[1], NEW f2, f2 = Tail(g)
  PROVE  /\ push_buffer = NULL <=> q = <<>>
         /\ q = <<>> => Shape(f2, p, Insert(q, 1, e))'
         /\ q # <<>> => Shape(f2, p, q)'
         /\ Put(content', priority', e, x, pr)
         /\ Agree(content, content', Members(p) \cup Members(q))
         /\ Agree(priority, priority', Members(p) \cup Members(q))
<1>1. cursor = NULL /\ pop_buffer' = pop_buffer /\ Occupy(pr, x, next')
  BY DEF PushWithPriority, Idle, Occupy
<1>2. next' = [RoomNext EXCEPT ![RoomFree] = NULL]
  BY DEF PushWithPriority, Occupy
<1>3. /\ Sleds' = RoomSleds
      /\ RoomFree = e /\ e \in RoomSleds
      /\ Lists(RoomSleds, next', {e}, f2, p, q)
      /\ Begins(free_list', f2)
      /\ Filled(content', priority', Members(p) \cup Members(q) \cup {e}, Members(f2))
      /\ Put(content', priority', e, x, pr)
      /\ Agree(content, content', Members(p) \cup Members(q))
      /\ Agree(priority, priority', Members(p) \cup Members(q))
  <2>1. PICK links : links = [RoomNext EXCEPT ![RoomFree] = NULL]
    OBVIOUS
  <2>2. /\ Sleds' = RoomSleds
        /\ RoomFree = e /\ e \in RoomSleds
        /\ Lists(RoomSleds, links, {e}, f2, p, q)
        /\ Begins(free_list', f2)
        /\ Filled(content', priority', Members(p) \cup Members(q) \cup {e}, Members(f2))
        /\ Put(content', priority', e, x, pr)
        /\ Agree(content, content', Members(p) \cup Members(q))
        /\ Agree(priority, priority', Members(p) \cup Members(q))
    BY <1>1, <2>1, OccupyLists
  <2> QED
    BY <1>2, <2>1, <2>2
<1>4. /\ Len(q) \in Nat /\ DOMAIN q = 1 .. Len(q) /\ (q = <<>> <=> Len(q) = 0)
      /\ push_buffer = NULL <=> q = <<>>
      /\ q # <<>> => push_buffer.first = q[1] /\ 1 \in DOMAIN q
  BY PushChain
<1>5. RoomSleds \subseteq Nat /\ NULL \notin RoomSleds /\ q \in Seq(RoomSleds)
  BY <1>3, RoomType, QueueAssumption DEF RoomSleds, Lists, Split
<1>6. next'[e] = NULL
  BY <1>2, <1>3, RoomType
<1>7. Tracks(pop_buffer', p) /\ Tracks(push_buffer, q)
  BY <1>1 DEF Shape
<1>8. CASE q = <<>>
  <2>1. cursor' = NULL /\ push_buffer' = Single(e)
    BY <1>1, <1>3, <1>4, <1>8 DEF PushWithPriority
  <2>2. PICK q2 : q2 = Insert(q, 1, e)
    OBVIOUS
  <2>3. 1 \in 1 .. Len(q) + 1 /\ ~ 1 <= Len(q) /\ ~ 1 > 1
    BY <1>4, <1>8
  <2>4. Relinked(RoomSleds, next', next', q, 1, e)
    BY <1>6, <2>3 DEF Relinked
  <2>5. Lists(RoomSleds, next', {}, f2, p, Insert(q, 1, e))
    BY ONLY <1>3, <1>5, <2>3, <2>4, ListsJoin
  <2>6. Members(Insert(q, 1, e)) = Members(q) \cup {e}
    BY ONLY <1>3, <1>5, <2>3, InsertMembers
  <2>7. Tracks(push_buffer', q2)
    <3>1. Tracks(Single(e), Insert(q, 1, e))
      BY ONLY <1>3, <1>5, <1>7, <1>8, <2>3, TrackJoined
    <3> QED
      BY <2>1, <2>2, <3>1
  <2>8. New' = {} /\ Walks(q2)'
    BY <2>1 DEF New, Walks
  <2>9. Filled(content', priority', Members(p) \cup Members(q2) \cup {}, Members(f2))
    <3>1. Members(p) \cup Members(q2) \cup {} = Members(p) \cup Members(q) \cup {e}
      BY <2>2, <2>6
    <3> QED
      BY <1>3, <3>1
  <2>10. Shape(f2, p, q2)'
    BY <1>3, <1>7, <2>2, <2>5, <2>7, <2>8, <2>9 DEF Shape
  <2>11. Shape(f2, p, Insert(q, 1, e))'
    BY <2>2, <2>10
  <2> QED
    BY <1>3, <1>4, <1>8, <2>11
<1>9. CASE q # <<>>
  <2>1. /\ cursor' = [new |-> e, prev |-> NULL, curr |-> push_buffer.first]
        /\ push_buffer' = push_buffer
    BY <1>3, <1>4, <1>9 DEF PushWithPriority
  <2>2. q[1] \in RoomSleds /\ push_buffer.first = q[1] /\ 1 \in 1 .. Len(q) + 1
        /\ 1 <= Len(q)
    BY <1>4, <1>5, <1>9
  <2>3. cursor' \in Cursor(RoomSleds) /\ cursor' # NULL
    <3>1. cursor' \in Cursor(RoomSleds)
      BY <1>3, <2>1, <2>2 DEF Cursor
    <3>2. Cursor(RoomSleds) \subseteq Cursor(Nat)
      BY <1>5 DEF Cursor
    <3> QED
      BY <3>1, <3>2, NoneAssumption
  <2>4. New' = {e}
    BY <2>1, <2>3 DEF New
  <2>5. Stands(q, 1)'
    BY <2>1, <2>2 DEF Stands
  <2>6. Walks(q)'
    BY <1>3, <1>6, <1>9, <2>1, <2>2, <2>3, <2>5 DEF Walks
  <2>7. Shape(f2, p, q)'
    BY <1>3, <1>7, <2>1, <2>4, <2>6 DEF Shape
  <2> QED
    BY <1>3, <1>4, <1>9, <2>7
<1> QED
  BY <1>8, <1>9

(* One iteration of the loop moves the walk one place on: the sled it       *)
(* passes does not have a lower priority.                                   *)
LEMMA WalkShape ==
  ASSUME TypeOK, Walk, NEW f, NEW p, NEW q, Shape(f, p, q)
  PROVE  Shape(f, p, q)'
<1>1. /\ cursor # NULL /\ cursor.curr # NULL
      /\ ~ priority[cursor.new] > priority[cursor.curr]
      /\ cursor' = [cursor EXCEPT !.prev = cursor.curr, !.curr = next[cursor.curr]]
      /\ UNCHANGED <<array, free_list, pop_buffer, push_buffer>>
      /\ Sleds' = Sleds
  BY DEF Walk, array, Sleds
<1>2. q # <<>> /\ cursor \in Cursor(Sleds) /\ next[cursor.new] = NULL
  BY <1>1 DEF Shape, Walks
<1>3. PICK k \in 1 .. Len(q) + 1 : Stands(q, k)
  BY <1>1 DEF Shape, Walks
<1>4. /\ Len(q) \in Nat /\ DOMAIN q = 1 .. Len(q) /\ q \in Seq(Sleds)
      /\ NULL \notin Sleds /\ Sleds \subseteq Nat
  BY PushChain
<1>5. k <= Len(q) /\ cursor.curr = q[k] /\ k \in DOMAIN q /\ k \in Int /\ q[k] \in Sleds
  BY <1>1, <1>3, <1>4 DEF Stands
<1>6. next[q[k]] = IF k < Len(q) THEN q[k + 1] ELSE NULL
  BY <1>5 DEF Shape, Lists, Linked
<1>7. /\ cursor'.new = cursor.new /\ cursor'.prev = q[k] /\ cursor'.curr = next[q[k]]
      /\ cursor.new \in Sleds /\ next[q[k]] \in Sleds \cup {NULL}
      /\ cursor' \in Cursor(Sleds)
  BY <1>1, <1>2, <1>5 DEF Cursor, TypeOK
<1>8. cursor' # NULL
  <2>1. Cursor(Sleds) \subseteq Cursor(Nat)
    BY <1>4 DEF Cursor
  <2> QED
    BY <1>7, <2>1, NoneAssumption
<1>9. PICK m : m = k + 1
  OBVIOUS
<1>10. m \in 1 .. Len(q) + 1 /\ m - 1 = k /\ m > 1 /\ (m <= Len(q) <=> k < Len(q))
  BY <1>4, <1>5, <1>9
<1>11. \A j \in 1 .. m - 1 : priority[q[j]] >= priority[cursor.new]
  <2> SUFFICES ASSUME NEW j \in 1 .. m - 1 PROVE priority[q[j]] >= priority[cursor.new]
    OBVIOUS
  <2>1. CASE j = k
    <3>1. priority[q[k]] \in Int /\ priority[cursor.new] \in Int
      BY <1>5, <1>7 DEF TypeOK
    <3> QED
      BY <1>1, <1>5, <2>1, <3>1
  <2>2. CASE j # k
    <3>1. j \in 1 .. k - 1
      BY <1>5, <1>10, <2>2
    <3> QED
      BY <1>3, <3>1 DEF Stands
  <2> QED
    BY <2>1, <2>2
<1>12. priority' = priority /\ next' = next /\ content' = content
  BY <1>1 DEF array
<1>13. Stands(q, m)'
  <2>1. cursor'.curr = IF m <= Len(q) THEN q[m] ELSE NULL
    BY <1>6, <1>7, <1>9, <1>10
  <2>2. cursor'.prev = IF m > 1 THEN q[m - 1] ELSE NULL
    BY <1>7, <1>10
  <2>3. \A j \in 1 .. m - 1 : priority'[q[j]] >= priority'[cursor'.new]
    BY <1>7, <1>11, <1>12
  <2> QED
    BY <1>10, <2>1, <2>2, <2>3 DEF Stands
<1>14. Walks(q)'
  <2>1. next'[cursor'.new] = NULL /\ cursor' \in Cursor(Sleds')
    BY <1>1, <1>2, <1>7, <1>12
  <2> QED
    BY <1>2, <1>10, <1>13, <2>1 DEF Walks
<1>15. New' = New
  BY <1>1, <1>7, <1>8 DEF New
<1>16. Shape(f, p, q)'
  <2>1. /\ Lists(Sleds, next, New, f, p, q)
        /\ Begins(free_list, f) /\ Tracks(pop_buffer, p) /\ Tracks(push_buffer, q)
        /\ Filled(content, priority, Members(p) \cup Members(q) \cup New, Members(f))
    BY DEF Shape
  <2>2. free_list' = free_list /\ pop_buffer' = pop_buffer /\ push_buffer' = push_buffer
    BY <1>1
  <2> QED
    BY ONLY <1>1, <1>12, <1>14, <1>15, <2>1, <2>2 DEF Shape
<1> QED
  BY <1>16

(* What the two ways out of the loop have in common.                        *)
LEMMA JoinShape ==
  ASSUME TypeOK, NEW f, NEW p, NEW q, Shape(f, p, q), cursor # NULL,
         NEW e, e = cursor.new, NEW k \in 1 .. Len(q) + 1,
         Relinked(Sleds, next, next', q, k, e),
         NEW q2, q2 = Insert(q, k, e), Tracks(push_buffer', q2), cursor' = NULL,
         UNCHANGED <<capacity, content, priority, free_list, pop_buffer>>
  PROVE  Shape(f, p, q2)'
<1>1. /\ q \in Seq(Sleds) /\ NULL \notin Sleds
  BY PushChain
<1>2. e \in Sleds /\ New = {e}
  BY DEF Shape, Walks, Cursor, New
<1>3. Lists(Sleds, next, {e}, f, p, q) /\ k \in 1 .. Len(q) + 1
  BY <1>2 DEF Shape
<1>4. Lists(Sleds, next', {}, f, p, Insert(q, k, e))
  BY ONLY <1>1, <1>2, <1>3, Relinked(Sleds, next, next', q, k, e), ListsJoin
<1>5. Members(Insert(q, k, e)) = Members(q) \cup {e}
  BY ONLY <1>1, <1>2, <1>3, InsertMembers
<1>6. Members(p) \cup Members(q2) \cup {} = Members(p) \cup Members(q) \cup New
  BY <1>2, <1>5
<1>7. /\ Begins(free_list, f) /\ Tracks(pop_buffer, p)
      /\ Filled(content, priority, Members(p) \cup Members(q2) \cup {}, Members(f))
  BY <1>6 DEF Shape
<1>8. Sleds' = Sleds
  BY DEF Sleds
<1>9. New' = {} /\ Walks(q2)'
  BY DEF New, Walks
<1> QED
  BY <1>4, <1>7, <1>8, <1>9 DEF Shape

\* The place push_with_priority chooses for priority pr: behind every sled
\* whose priority is at least pr, if these come first.
Place(pri, q, k, pr) ==
  /\ \A j \in 1 .. k - 1 : pri[q[j]] >= pr
  /\ k <= Len(q) => pri[q[k]] < pr

(* The early return of push_with_priority puts the new sled where the walk  *)
(* stands, in front of the first sled of lower priority.                    *)
LEMMA InsertBeforeShape ==
  ASSUME TypeOK, InsertBefore, NEW f, NEW p, NEW q, Shape(f, p, q), NEW e, e = cursor.new
  PROVE  \E k \in 1 .. Len(q) + 1 : /\ Shape(f, p, Insert(q, k, e))'
                                    /\ Place(priority, q, k, priority[e])
<1>1. /\ cursor # NULL /\ cursor.curr # NULL
      /\ priority[e] > priority[cursor.curr]
      /\ cursor' = NULL
      /\ UNCHANGED <<capacity, content, priority, free_list, pop_buffer>>
  BY DEF InsertBefore
<1>2. q # <<>> /\ cursor \in Cursor(Sleds)
  BY <1>1 DEF Shape, Walks
<1>3. PICK k \in 1 .. Len(q) + 1 : Stands(q, k)
  BY <1>1 DEF Shape, Walks
<1>4. /\ Len(q) \in Nat /\ DOMAIN q = 1 .. Len(q) /\ q \in Seq(Sleds)
      /\ NULL \notin Sleds /\ Sleds \subseteq Nat
  BY PushChain
<1>5. k <= Len(q) /\ cursor.curr = q[k] /\ k \in DOMAIN q /\ k \in Int /\ q[k] \in Sleds
  BY <1>1, <1>3, <1>4 DEF Stands
<1>6. /\ e \in Sleds /\ e \notin Members(q)
  BY <1>1, <1>2 DEF Cursor, Shape, Lists, Split, New
<1>7. k > 1 => q[k - 1] \in Sleds /\ q[k - 1] # e /\ cursor.prev = q[k - 1]
  <2> SUFFICES ASSUME k > 1 PROVE q[k - 1] \in Sleds /\ q[k - 1] # e /\ cursor.prev = q[k - 1]
    OBVIOUS
  <2>1. k - 1 \in DOMAIN q
    BY <1>4, <1>5
  <2>2. q[k - 1] \in Members(q) /\ q[k - 1] \in Sleds
    BY <1>4, <2>1 DEF Members
  <2> QED
    BY <1>3, <1>6, <2>2 DEF Stands
<1>8. cursor.prev = NULL <=> k = 1
  BY <1>3, <1>4, <1>5, <1>7 DEF Stands
<1>9. next \in [Sleds -> Sleds \cup {NULL}]
  BY DEF TypeOK
<1>10. Relinked(Sleds, next, next', q, k, e)
  <2>1. CASE k = 1
    <3>1. next' = [next EXCEPT ![e] = q[k]] /\ ~ k > 1
      BY <1>5, <1>8, <2>1 DEF InsertBefore
    <3>2. next'[e] = q[k] /\ \A i \in Sleds : i # e => next'[i] = next[i]
      BY ONLY <3>1, <1>6, <1>9
    <3> QED
      BY <1>5, <3>1, <3>2 DEF Relinked
  <2>2. CASE k # 1
    <3>1. k > 1 /\ cursor.prev = q[k - 1]
      BY <1>5, <1>7, <2>2
    <3>2. next' = [next EXCEPT ![e] = q[k], ![q[k - 1]] = e]
      BY <1>5, <1>8, <2>2, <3>1 DEF InsertBefore
    <3>3. /\ next'[e] = q[k] /\ next'[q[k - 1]] = e
          /\ \A i \in Sleds : i # e /\ i # q[k - 1] => next'[i] = next[i]
      BY ONLY <3>1, <3>2, <1>6, <1>7, <1>9
    <3> QED
      BY <1>5, <3>1, <3>3 DEF Relinked
  <2> QED
    BY <2>1, <2>2
<1>11. PICK q2 : q2 = Insert(q, k, e)
  OBVIOUS
<1>12. Tracks(push_buffer', q2)
  <2>1. Tracks(push_buffer, q)
    BY DEF Shape
  <2>2. k = 1 => Tracks(Joined(push_buffer, e, push_buffer.last), q2)
    BY ONLY <1>2, <1>4, <1>6, <1>11, <2>1, k \in 1 .. Len(q) + 1, TrackJoined
  <2>3. k > 1 => Tracks(Joined(push_buffer, push_buffer.first, push_buffer.last), q2)
    BY ONLY <1>2, <1>4, <1>5, <1>6, <1>11, <2>1, k \in 1 .. Len(q) + 1, TrackJoined
  <2>4. k = 1 => push_buffer' = Joined(push_buffer, e, push_buffer.last)
    BY <1>8 DEF InsertBefore
  <2>5. k > 1 => push_buffer' = Joined(push_buffer, push_buffer.first, push_buffer.last)
    BY <1>5, <1>8 DEF InsertBefore
  <2>6. k = 1 \/ k > 1
    BY <1>5
  <2> QED
    BY <2>2, <2>3, <2>4, <2>5, <2>6
<1>13. Shape(f, p, q2)'
  BY <1>1, <1>10, <1>11, <1>12, JoinShape
<1>14. Place(priority, q, k, priority[e])
  <2>1. priority[e] \in Int /\ priority[q[k]] \in Int
    BY <1>5, <1>6 DEF TypeOK
  <2>2. priority[q[k]] < priority[e]
    BY <1>1, <1>5, <2>1
  <2> QED
    BY <1>3, <2>2 DEF Stands, Place
<1>15. Shape(f, p, Insert(q, k, e))'
  BY <1>11, <1>13
<1> QED
  BY <1>14, <1>15

(* The loop ran off the push chain: no sled of lower priority is in it.     *)
LEMMA InsertLastShape ==
  ASSUME TypeOK, InsertLast, NEW f, NEW p, NEW q, Shape(f, p, q), NEW e, e = cursor.new
  PROVE  \E k \in 1 .. Len(q) + 1 : /\ Shape(f, p, Insert(q, k, e))'
                                    /\ Place(priority, q, k, priority[e])
<1>1. /\ cursor # NULL /\ cursor.curr = NULL
      /\ next' = [next EXCEPT ![cursor.prev] = e]
      /\ push_buffer' = Joined(push_buffer, push_buffer.first, e)
      /\ cursor' = NULL
      /\ UNCHANGED <<capacity, content, priority, free_list, pop_buffer>>
  BY DEF InsertLast
<1>2. q # <<>> /\ cursor \in Cursor(Sleds) /\ next[e] = NULL
  BY <1>1 DEF Shape, Walks
<1>3. PICK k \in 1 .. Len(q) + 1 : Stands(q, k)
  BY <1>1 DEF Shape, Walks
<1>4. /\ Len(q) \in Nat /\ DOMAIN q = 1 .. Len(q) /\ q \in Seq(Sleds)
      /\ (q = <<>> <=> Len(q) = 0)
      /\ NULL \notin Sleds /\ Sleds \subseteq Nat
  BY PushChain
<1>5. ~ k <= Len(q)
  <2> SUFFICES ASSUME k <= Len(q) PROVE FALSE
    OBVIOUS
  <2>1. k \in DOMAIN q
    BY <1>4
  <2>2. q[k] \in Sleds
    BY <1>4, <2>1
  <2> QED
    BY <1>1, <1>3, <1>4, <2>2 DEF Stands
<1>6. k = Len(q) + 1 /\ k > 1 /\ k \in Int /\ k - 1 = Len(q)
  BY <1>2, <1>4, <1>5
<1>7. e \in Sleds /\ e \notin Members(q)
  BY <1>1, <1>2 DEF Cursor, Shape, Lists, Split, New
<1>8. q[k - 1] \in Sleds /\ q[k - 1] # e /\ cursor.prev = q[k - 1]
  <2>1. k - 1 \in DOMAIN q
    BY <1>4, <1>6
  <2>2. q[k - 1] \in Members(q) /\ q[k - 1] \in Sleds
    BY <1>4, <2>1 DEF Members
  <2> QED
    BY <1>3, <1>6, <1>7, <2>2 DEF Stands
<1>9. Relinked(Sleds, next, next', q, k, e)
  <2>1. next \in [Sleds -> Sleds \cup {NULL}]
    BY DEF TypeOK
  <2>2. next' = [next EXCEPT ![q[k - 1]] = e]
    BY <1>1, <1>8
  <2>3. /\ next'[e] = NULL /\ next'[q[k - 1]] = e
        /\ \A i \in Sleds : i # e /\ i # q[k - 1] => next'[i] = next[i]
    BY ONLY <2>1, <2>2, <1>2, <1>7, <1>8
  <2> QED
    BY <1>5, <1>6, <2>3 DEF Relinked
<1>10. PICK q2 : q2 = Insert(q, k, e)
  OBVIOUS
<1>11. Tracks(push_buffer', q2)
  <2>1. Tracks(push_buffer, q)
    BY DEF Shape
  <2>2. Tracks(Joined(push_buffer, push_buffer.first, e), q2)
    BY ONLY <1>2, <1>4, <1>6, <1>7, <1>10, <2>1, k \in 1 .. Len(q) + 1, TrackJoined
  <2> QED
    BY <1>1, <2>2
<1>12. Shape(f, p, q2)'
  BY <1>1, <1>9, <1>10, <1>11, JoinShape
<1>13. Place(priority, q, k, priority[e])
  BY <1>3, <1>5 DEF Stands, Place
<1>14. Shape(f, p, Insert(q, k, e))'
  BY <1>10, <1>12
<1> QED
  BY <1>13, <1>14

(* pop_front takes the head of the pop chain and gives its sled to the free *)
(* list.                                                                    *)
LEMMA PopFrontShape ==
  ASSUME TypeOK, PopFront, NEW f, NEW p, NEW q, Shape(f, p, q),
         NEW e, e = p[1], NEW p2, p2 = Tail(p), NEW f2, f2 = Insert(f, 1, e)
  PROVE  /\ p # <<>>
         /\ result' = content[e]
         /\ Shape(f2, p2, q)'
         /\ Agree(content, content', Members(p2) \cup Members(q))
         /\ Agree(priority, priority', Members(p2) \cup Members(q))
<1>1. /\ cursor = NULL /\ cursor' = NULL /\ pop_buffer # NULL
      /\ push_buffer' = push_buffer /\ Sleds' = Sleds
  BY DEF PopFront, Idle, Sleds
<1>2. Sleds \subseteq Nat /\ NULL \notin Sleds
  BY QueueAssumption DEF TypeOK, Sleds
<1>3. /\ Lists(Sleds, next, {}, f, p, q)
      /\ Begins(free_list, f) /\ Tracks(pop_buffer, p) /\ Tracks(push_buffer, q)
      /\ Filled(content, priority, Members(p) \cup Members(q), Members(f))
  BY <1>1 DEF Shape, New
<1>4. /\ p \in Seq(Sleds) /\ NoRepeats(p) /\ Linked(next, p) /\ f \in Seq(Sleds)
      /\ q \in Seq(Sleds)
  BY <1>3 DEF Lists, Split
<1>5. p # <<>> /\ pop_buffer.first = e
  <2>1. /\ pop_buffer = NULL <=> p = <<>>
        /\ pop_buffer # NULL => pop_buffer.first = p[1]
    BY ONLY <1>2, <1>3, <1>4, TrackerOfList
  <2> QED
    BY <1>1, <2>1
<1>6. e \in Sleds /\ Len(p) \in Nat /\ 1 \in DOMAIN p /\ e \in Members(p)
  BY <1>4, <1>5 DEF Members
<1>7. /\ next' = [next EXCEPT ![e] = free_list]
      /\ content' = [content EXCEPT ![e] = NULL]
      /\ priority' = [priority EXCEPT ![e] = 0]
      /\ free_list' = e
      /\ result' = content[e]
  BY <1>5 DEF PopFront
<1>8. /\ next \in [Sleds -> Sleds \cup {NULL}]
      /\ content \in [Sleds -> Items \cup {NULL}]
      /\ priority \in [Sleds -> Nat]
  BY DEF TypeOK
<1>9. /\ Lists(Sleds, next', {}, f2, p2, q) /\ Begins(e, f2)
  <2>1. PICK nxt2 : nxt2 = next'
    OBVIOUS
  <2>2. /\ nxt2 = [next EXCEPT ![p[1]] = free_list]
        /\ Lists(Sleds, next, {}, f, p, q) /\ Begins(free_list, f) /\ p # <<>>
    BY <1>3, <1>5, <1>7, <2>1
  <2>3. Lists(Sleds, nxt2, {}, Insert(f, 1, p[1]), Tail(p), q)
        /\ Begins(p[1], Insert(f, 1, p[1]))
    BY ONLY <1>2, <1>8, <2>2, ListsPop
  <2> QED
    BY <2>1, <2>3
<1>10. /\ Members(p) = Members(p2) \cup {e} /\ e \notin Members(p2)
  BY <1>2, <1>4, <1>5, TailList
<1>11. Members(f2) = Members(f) \cup {e}
  <2>1. 1 \in 1 .. Len(f) + 1
    BY <1>4
  <2> QED
    BY <1>4, <1>6, <2>1, InsertMembers
<1>12. Tracks(pop_buffer', p2)
  <2>1. next[e] = NULL => Tracks(NULL, p2)
    BY <1>2, <1>3, <1>4, <1>5, TrackTail
  <2>2. next[e] # NULL => Tracks([len   |-> (pop_buffer.len - 1) % LenMod,
                                  first |-> next[e],
                                  last  |-> pop_buffer.last], p2)
    BY <1>2, <1>3, <1>4, <1>5, TrackTail
  <2> QED
    BY <1>5, <2>1, <2>2 DEF PopFront
<1>13. Members(p2) \cup Members(q) \subseteq Sleds /\ e \notin Members(q)
  BY <1>3, <1>6, <1>10 DEF Lists, Split
<1>14. \A i \in Members(p2) \cup Members(q) : content'[i] = content[i] /\ priority'[i] = priority[i]
  BY <1>7, <1>8, <1>10, <1>13
<1>15. Filled(content', priority', Members(p2) \cup Members(q) \cup {}, Members(f2))
  <2>1. \A i \in Members(f2) : content'[i] = NULL
    <3>1. content'[e] = NULL
      BY <1>6, <1>7, <1>8
    <3>2. \A i \in Members(f) : i # e /\ i \in Sleds /\ content[i] = NULL
      BY <1>3, <1>6 DEF Lists, Split, Filled
    <3>3. \A i \in Members(f) : content'[i] = NULL
      BY <1>7, <1>8, <3>2
    <3> QED
      BY <1>11, <3>1, <3>3
  <2>2. \A i \in Members(p2) \cup Members(q) : content[i] \in Items /\ priority[i] \in Priorities
    BY <1>3, <1>10 DEF Filled
  <2> QED
    BY <1>14, <2>1, <2>2 DEF Filled
<1>16. Shape(f2, p2, q)'
  <2>1. New' = {} /\ Walks(q)'
    BY <1>1 DEF New, Walks
  <2> QED
    BY <1>1, <1>3, <1>7, <1>9, <1>12, <1>15, <2>1 DEF Shape
<1> QED
  BY <1>5, <1>7, <1>14, <1>16 DEF Agree

(* A pop_front that finds no tracker finds no chain.                        *)
LEMMA PopFrontEmptyShape ==
  ASSUME TypeOK, PopFrontEmpty, NEW f, NEW p, NEW q, Shape(f, p, q)
  PROVE  p = <<>> /\ Shape(f, p, q)'
<1>1. Sleds \subseteq Nat
  BY DEF TypeOK, Sleds
<1>2. p \in Seq(Sleds) /\ Tracks(pop_buffer, p)
  BY DEF Shape, Lists, Split
<1>3. p = <<>>
  BY <1>1, <1>2, TrackerOfList DEF PopFrontEmpty
<1>4. /\ UNCHANGED <<capacity, content, next, priority, free_list, pop_buffer, push_buffer>>
      /\ cursor = NULL /\ cursor' = NULL
  BY DEF PopFrontEmpty, array, Idle
<1> QED
  BY <1>3, <1>4 DEF Shape, Sleds, New, Walks

(* swap_buffers exchanges two lists.                                        *)
LEMMA SwapBuffersShape ==
  ASSUME SwapBuffers, NEW f, NEW p, NEW q, Shape(f, p, q)
  PROVE  Shape(f, q, p)'
<1>1. /\ UNCHANGED <<capacity, content, next, priority, free_list>>
      /\ cursor = NULL /\ cursor' = NULL
      /\ pop_buffer' = push_buffer /\ push_buffer' = pop_buffer
  BY DEF SwapBuffers, array, Idle
<1>2. Lists(Sleds, next, {}, f, q, p)
  BY <1>1 DEF Shape, New, Lists, Split
<1>3. Members(q) \cup Members(p) \cup {} = Members(p) \cup Members(q) \cup New
  BY <1>1 DEF New
<1>4. New' = {} /\ Walks(p)' /\ Sleds' = Sleds
  BY <1>1 DEF New, Walks, Sleds
<1> QED
  BY <1>1, <1>2, <1>3, <1>4 DEF Shape

(* What Drop does not reach holds nothing.                                  *)
LEMMA DropShape ==
  ASSUME TypeOK, Drop, NEW f, NEW p, NEW q, Shape(f, p, q)
  PROVE  Held' = {}
<1>1. Chain(pop_buffer) = p /\ Chain(push_buffer) = q
  BY ChainsAre DEF ChainsAreLists
<1>2. cursor = NULL /\ Sleds' = Sleds
  BY DEF Drop, Idle, Sleds
<1>3. content' = [i \in Sleds |-> IF i \in Members(p) \cup Members(q) THEN NULL ELSE content[i]]
  BY <1>1 DEF Drop
<1>4. \A i \in Sleds : i \in Members(f) \/ i \in Members(p) \cup Members(q)
  BY <1>2 DEF Shape, Lists, Split, New
<1>5. \A i \in Members(f) : content[i] = NULL
  BY DEF Shape, Filled
<1>6. \A i \in Sleds : content'[i] = NULL
  BY <1>3, <1>4, <1>5
<1> QED
  BY <1>2, <1>6 DEF Held

(* new_with_capacity: one free list of all the sleds.                       *)
LEMMA InitShape ==
  ASSUME Init, NEW f, f = [i \in 1 .. StartCapacity |-> i - 1]
  PROVE  Shape(f, <<>>, <<>>)
<1>1. StartCapacity \in Nat \ {0} /\ NULL \notin Nat
  BY QueueAssumption DEF StartCapacity
<1>2. /\ Sleds = 0 .. StartCapacity - 1
      /\ \A i \in Sleds : /\ next[i] = IF i < StartCapacity - 1 THEN i + 1 ELSE NULL
                          /\ content[i] = NULL
      /\ free_list = 0 /\ pop_buffer = NULL /\ push_buffer = NULL /\ cursor = NULL
  BY <1>1 DEF Init, Sleds, FreshLinks
<1>3. f \in [1 .. StartCapacity -> Sleds]
  BY <1>1, <1>2
<1>4. f \in Seq(Sleds) /\ Len(f) = StartCapacity /\ DOMAIN f = 1 .. StartCapacity
  BY <1>1, <1>3
<1>5. \A i \in DOMAIN f : f[i] = i - 1
  BY <1>4
<1>6. NoRepeats(f)
  BY <1>4, <1>5 DEF NoRepeats
<1>7. Members(f) = Sleds
  <2>1. ASSUME NEW j \in Sleds PROVE \E i \in DOMAIN f : f[i] = j
    <3>1. j + 1 \in DOMAIN f /\ (j + 1) - 1 = j
      BY <1>1, <1>2, <1>4
    <3> QED
      BY <1>5, <3>1
  <2> QED
    BY <1>3, <1>4, <2>1 DEF Members
<1>8. Linked(next, f)
  <2> SUFFICES ASSUME NEW i \in DOMAIN f
               PROVE  next[f[i]] = IF i < Len(f) THEN f[i + 1] ELSE NULL
    BY DEF Linked
  <2>1. f[i] = i - 1 /\ i - 1 \in Sleds /\ i \in 1 .. StartCapacity
    BY <1>1, <1>2, <1>4, <1>5
  <2>2. next[f[i]] = IF i - 1 < StartCapacity - 1 THEN (i - 1) + 1 ELSE NULL
    BY <1>2, <2>1
  <2>3. i < Len(f) => i + 1 \in DOMAIN f
    BY <1>1, <1>4, <2>1
  <2>4. i < Len(f) => f[i + 1] = (i + 1) - 1
    BY <1>5, <2>3
  <2>5. (i < Len(f) <=> i - 1 < StartCapacity - 1) /\ (i + 1) - 1 = (i - 1) + 1
    BY <1>1, <1>4, <2>1
  <2> QED
    BY <2>2, <2>4, <2>5
<1>9. /\ <<>> \in Seq(Sleds) /\ NoRepeats(<<>>) /\ Linked(next, <<>>) /\ Members(<<>>) = {}
  BY DEF NoRepeats, Linked, Members
<1>10. New = {} /\ Walks(<<>>)
  BY <1>2 DEF New, Walks
<1>11. Lists(Sleds, next, {}, f, <<>>, <<>>)
  BY <1>4, <1>6, <1>7, <1>8, <1>9 DEF Lists, Split
<1>12. f # <<>> /\ f[1] = 0
  BY <1>1, <1>4, <1>5
<1>13. Filled(content, priority, Members(<<>>) \cup Members(<<>>) \cup {}, Members(f))
  BY <1>2, <1>7, <1>9 DEF Filled
<1> QED
  BY <1>2, <1>10, <1>11, <1>12, <1>13 DEF Shape, Begins, Tracks

------------------------------------------------------------------------------
(* The invariant, and what becomes of the lists in each step.               *)
LEMMA InitChained == Init => Chained
<1> SUFFICES ASSUME Init PROVE Chained
  OBVIOUS
<1>1. PICK f : f = [i \in 1 .. StartCapacity |-> i - 1]
  OBVIOUS
<1>2. Shape(f, <<>>, <<>>)
  BY <1>1, InitShape
<1>3. cursor = NULL /\ alive
  BY DEF Init
<1> QED
  BY <1>2, <1>3 DEF Chained

(* Every step turns lists that share the array into lists that do.          *)
LEMMA NextChained == TypeOK /\ Chained /\ [Next]_vars => Chained'
<1> SUFFICES ASSUME TypeOK, Chained, [Next]_vars PROVE Chained'
  OBVIOUS
<1>a. ASSUME alive, alive', cursor' = NULL, NEW f, NEW p, NEW q, Shape(f, p, q)'
      PROVE  Chained'
  BY <1>a DEF Chained
<1>1. ASSUME NEW pr \in Priorities, NEW x \in Items, PushBack(pr, x) PROVE Chained'
  <2>1. alive /\ alive' /\ cursor' = NULL
    BY <1>1 DEF PushBack, Idle, TypeOK
  <2>2. PICK f, p, q : Shape(f, p, q)
    BY <2>1 DEF Chained
  <2>3. PICK g, e, f2, q2 : /\ g = RoomList(f) /\ e = g[1] /\ f2 = Tail(g)
                            /\ q2 = Insert(q, Len(q) + 1, e)
    OBVIOUS
  <2>4. Shape(f2, p, q2)'
    BY <1>1, <2>2, <2>3, PushBackShape
  <2> QED
    BY <1>a, <2>1, <2>4
<1>2. ASSUME NEW pr \in Priorities, NEW x \in Items, PushWithPriority(pr, x) PROVE Chained'
  <2>1. alive /\ alive'
    BY <1>2 DEF PushWithPriority, Idle, TypeOK
  <2>2. PICK f, p, q : Shape(f, p, q)
    BY <2>1 DEF Chained
  <2>3. PICK g, e, f2 : g = RoomList(f) /\ e = g[1] /\ f2 = Tail(g)
    OBVIOUS
  <2>4. /\ q = <<>> => Shape(f2, p, Insert(q, 1, e))'
        /\ q # <<>> => Shape(f2, p, q)'
    BY <1>2, <2>2, <2>3, PushWithPriorityShape
  <2>5. PICK q2 : Shape(f2, p, q2)'
    BY <2>4
  <2> QED
    BY <2>1, <2>5 DEF Chained
<1>3. CASE Walk
  <2>1. alive /\ alive'
    BY <1>3 DEF Walk, Chained
  <2>2. PICK f, p, q : Shape(f, p, q)
    BY <2>1 DEF Chained
  <2>3. Shape(f, p, q)'
    BY <1>3, <2>2, WalkShape
  <2> QED
    BY <2>1, <2>3 DEF Chained
<1>4. CASE InsertBefore
  <2>1. alive /\ alive' /\ cursor' = NULL
    BY <1>4 DEF InsertBefore, Chained
  <2>2. PICK f, p, q : Shape(f, p, q)
    BY <2>1 DEF Chained
  <2>3. PICK e : e = cursor.new
    OBVIOUS
  <2>4. PICK k \in 1 .. Len(q) + 1 : Shape(f, p, Insert(q, k, e))'
    BY <1>4, <2>2, <2>3, InsertBeforeShape
  <2> QED
    BY <1>a, <2>1, <2>4
<1>5. CASE InsertLast
  <2>1. alive /\ alive' /\ cursor' = NULL
    BY <1>5 DEF InsertLast, Chained
  <2>2. PICK f, p, q : Shape(f, p, q)
    BY <2>1 DEF Chained
  <2>3. PICK e : e = cursor.new
    OBVIOUS
  <2>4. PICK k \in 1 .. Len(q) + 1 : Shape(f, p, Insert(q, k, e))'
    BY <1>5, <2>2, <2>3, InsertLastShape
  <2> QED
    BY <1>a, <2>1, <2>4
<1>6. CASE PopFrontEmpty
  <2>1. alive /\ alive' /\ cursor' = NULL
    BY <1>6 DEF PopFrontEmpty, Idle
  <2>2. PICK f, p, q : Shape(f, p, q)
    BY <2>1 DEF Chained
  <2>3. Shape(f, p, q)'
    BY <1>6, <2>2, PopFrontEmptyShape
  <2> QED
    BY <1>a, <2>1, <2>3
<1>7. CASE PopFront
  <2>1. alive /\ alive' /\ cursor' = NULL
    BY <1>7 DEF PopFront, Idle
  <2>2. PICK f, p, q : Shape(f, p, q)
    BY <2>1 DEF Chained
  <2>3. PICK e, p2, f2 : e = p[1] /\ p2 = Tail(p) /\ f2 = Insert(f, 1, e)
    OBVIOUS
  <2>4. Shape(f2, p2, q)'
    BY <1>7, <2>2, <2>3, PopFrontShape
  <2> QED
    BY <1>a, <2>1, <2>4
<1>8. CASE SwapBuffers
  <2>1. alive /\ alive' /\ cursor' = NULL
    BY <1>8 DEF SwapBuffers, Idle
  <2>2. PICK f, p, q : Shape(f, p, q)
    BY <2>1 DEF Chained
  <2>3. Shape(f, q, p)'
    BY <1>8, <2>2, SwapBuffersShape
  <2> QED
    BY <1>a, <2>1, <2>3
<1>9. CASE Drop
  <2>1. alive /\ alive' = FALSE /\ cursor' = NULL /\ pop_buffer' = NULL /\ push_buffer' = NULL
    BY <1>9 DEF Drop, Idle
  <2>2. PICK f, p, q : Shape(f, p, q)
    BY <2>1 DEF Chained
  <2>3. Held' = {}
    BY <1>9, <2>2, DropShape
  <2> QED
    BY <2>1, <2>3 DEF Chained
<1>10. CASE UNCHANGED vars
  <2>1. /\ UNCHANGED <<capacity, content, next, priority, free_list, pop_buffer, push_buffer,
                       cursor, alive>>
    BY <1>10 DEF vars
  <2>2. Held' = Held /\ Sleds' = Sleds /\ New' = New
    BY <2>1 DEF Held, Sleds, New
  <2>3. \A f, p, q : Shape(f, p, q) => Shape(f, p, q)'
    BY <2>1, <2>2 DEF Shape, Walks, Stands
  <2> QED
    BY <2>1, <2>2, <2>3 DEF Chained
<1> QED
  BY <1>1, <1>2, <1>3, <1>4, <1>5, <1>6, <1>7, <1>8, <1>9, <1>10 DEF Next

(* In every reachable state of a queue that is alive, the free list, the    *)
(* pop buffer and the push buffer are three sequences that hold every sled  *)
(* of the array once (the sled of a running push_with_priority apart),      *)
(* which the `next` links follow and whose trackers name their ends and     *)
(* count them modulo 2^16; the walk of push_with_priority stands between    *)
(* two neighbours of the push sequence, with nothing of lower priority      *)
(* behind it; and a dropped queue holds nothing.                            *)
THEOREM ChainsInvariant == Spec => []Chained
<1>1. Spec => []TypeOK
  BY QueueInvariant, PTL
<1> QED
  BY <1>1, InitChained, NextChained, PTL DEF Spec

------------------------------------------------------------------------------
(* The chains context_queue.rs threads through its one array never overlap  *)
(* and never lose a sled: neither push, the walk, pop_front, swap_buffers   *)
(* nor growing the array links one chain into another or leaks a slot.      *)
THEOREM SledsPartitioned == Spec => []Partition
<1>1. TypeOK /\ Chained => Partition
  <2> SUFFICES ASSUME TypeOK, Chained, alive PROVE Partition
    BY DEF Partition
  <2>1. PICK f, p, q : Shape(f, p, q)
    BY DEF Chained
  <2>2. ChainFrom(free_list) = f /\ Chain(pop_buffer) = p /\ Chain(push_buffer) = q
    BY <2>1, ChainsAre DEF ChainsAreLists
  <2> DEFINE n == IF cursor = NULL THEN <<>> ELSE <<cursor.new>>
             chains == <<f, p, q, n>>
  <2>3. DOMAIN chains = 1 .. 4 /\ chains[1] = f /\ chains[2] = p /\ chains[3] = q /\ chains[4] = n
    OBVIOUS
  <2>4. /\ NoRepeats(f) /\ NoRepeats(p) /\ NoRepeats(q)
        /\ Members(f) \cap (Members(p) \cup Members(q) \cup New) = {}
        /\ Members(p) \cap (Members(q) \cup New) = {}
        /\ Members(q) \cap New = {}
        /\ Sleds = Members(f) \cup Members(p) \cup Members(q) \cup New
    BY <2>1 DEF Shape, Lists, Split
  <2>5. Members(n) = New /\ NoRepeats(n)
    BY DEF New, Members, NoRepeats
  <2> HIDE DEF n
  <2>6. \A k \in DOMAIN chains : k = 1 \/ k = 2 \/ k = 3 \/ k = 4
    BY <2>3
  <2> HIDE DEF chains
  <2>7. \A s \in Sleds : \E k \in DOMAIN chains : s \in Members(chains[k])
    <3>1. 1 \in DOMAIN chains /\ 2 \in DOMAIN chains /\ 3 \in DOMAIN chains /\ 4 \in DOMAIN chains
      BY <2>3
    <3> QED
      BY <3>1, <2>3, <2>4, <2>5
  <2>8. ASSUME NEW k \in DOMAIN chains, NEW m \in DOMAIN chains,
               NEW i \in DOMAIN chains[k], NEW j \in DOMAIN chains[m],
               chains[k][i] = chains[m][j]
        PROVE  k = m /\ i = j
    <3>1. chains[k][i] \in Members(chains[k]) /\ chains[m][j] \in Members(chains[m])
      BY DEF Members
    <3>2. k = m
      BY <3>1, <2>3, <2>4, <2>5, <2>6, <2>8
    <3>3. NoRepeats(chains[k])
      BY <2>3, <2>4, <2>5, <2>6
    <3>4. i = j
      BY <3>2, <3>3, <2>8 DEF NoRepeats
    <3> QED
      BY <3>2, <3>4
  <2>9. chains = <<ChainFrom(free_list), Chain(pop_buffer), Chain(push_buffer),
                   IF cursor = NULL THEN <<>> ELSE <<cursor.new>>>>
    BY <2>2 DEF chains, n
  <2> QED
    BY <2>7, <2>8, <2>9 DEF Partition
<1> QED
  BY <1>1, QueueInvariant, ChainsInvariant, PTL

(* Drop, which walks the two buffers, takes every item that is still in a   *)
(* sled before the array is freed.                                          *)
THEOREM DropReleases == Spec => []DropReleasesAll
<1>1. Chained => DropReleasesAll
  BY DEF Chained, DropReleasesAll
<1> QED
  BY <1>1, ChainsInvariant, PTL

------------------------------------------------------------------------------
(* The trackers count their chains modulo LenMod.                           *)
LEMMA LengthsAre ==
  ASSUME TypeOK, Chained
  PROVE  /\ PopLen = Len(Chain(pop_buffer)) % LenMod
         /\ PushLen = Len(Chain(push_buffer)) % LenMod
<1>1. ASSUME NEW buffer, NEW s, s = Chain(buffer), s \in Seq(Sleds), Tracks(buffer, s)
      PROVE  (IF buffer = NULL THEN 0 ELSE buffer.len) = Len(s) % LenMod
  <2>1. Sleds \subseteq Nat /\ s \in Seq(Sleds) /\ Tracks(buffer, s)
    BY <1>1 DEF TypeOK, Sleds
  <2>2. /\ buffer = NULL <=> s = <<>>
        /\ buffer # NULL => /\ buffer.first = s[1] /\ buffer.last = s[Len(s)]
                            /\ buffer.len = Len(s) % LenMod
    BY ONLY <2>1, TrackerOfList
  <2>3. s = <<>> => Len(s) % LenMod = 0
    <3>1. LenMod \in Nat \ {0}
      BY QueueAssumption
    <3>2. 0 \in 0 .. LenMod - 1 /\ 0 = LenMod * 0 + 0
      BY <3>1
    <3>3. 0 % LenMod = 0
      BY ONLY <3>1, <3>2, ModUnique
    <3> QED
      BY <3>3
  <2> QED
    BY <2>2, <2>3
<1>2. \E p, q : /\ p = Chain(pop_buffer) /\ p \in Seq(Sleds) /\ Tracks(pop_buffer, p)
                /\ q = Chain(push_buffer) /\ q \in Seq(Sleds) /\ Tracks(push_buffer, q)
  <2>1. CASE alive
    <3>1. PICK f, p, q : Shape(f, p, q)
      BY <2>1 DEF Chained
    <3>2. Chain(pop_buffer) = p /\ Chain(push_buffer) = q
      BY <3>1, ChainsAre DEF ChainsAreLists
    <3> QED
      BY <3>1, <3>2 DEF Shape, Lists, Split
  <2>2. CASE ~ alive
    <3>1. pop_buffer = NULL /\ push_buffer = NULL
      BY <2>2 DEF Chained
    <3>2. <<>> \in Seq(Sleds) /\ <<>> = Chain(pop_buffer) /\ <<>> = Chain(push_buffer)
      BY <3>1 DEF Chain
    <3>3. Tracks(pop_buffer, <<>>) /\ Tracks(push_buffer, <<>>)
      BY <3>1 DEF Tracks
    <3> QED
      BY <3>2, <3>3
  <2> QED
    BY <2>1, <2>2
<1> QED
  BY <1>1, <1>2 DEF PopLen, PushLen

(* What pop_len and push_len report is always the length of the chain       *)
(* modulo 2^16: the u16 counter wraps, and nothing else goes wrong with it. *)
THEOREM LengthsCounted ==
  Spec => [](/\ PopLen = Len(Chain(pop_buffer)) % LenMod
             /\ PushLen = Len(Chain(push_buffer)) % LenMod)
BY LengthsAre, QueueInvariant, ChainsInvariant, PTL

(* A chain is no longer than there are items, for no item sits in two       *)
(* sleds.                                                                   *)
LEMMA ShortLists ==
  ASSUME IsFiniteSet(Items), NEW S, NEW s \in Seq(S), NoRepeats(s),
         NEW con, \A i \in Members(s) : con[i] \in Items,
         \A i, j \in Members(s) : con[i] = con[j] => i = j
  PROVE  Len(s) <= Cardinality(Items)
<1>1. Len(s) \in Nat /\ DOMAIN s = 1 .. Len(s)
  OBVIOUS
<1> DEFINE h == [i \in 1 .. Len(s) |-> con[s[i]]]
<1>2. \A i \in 1 .. Len(s) : s[i] \in Members(s)
  BY <1>1 DEF Members
<1>3. h \in [1 .. Len(s) -> Items]
  BY <1>2
<1>4. \A i, j \in 1 .. Len(s) : h[i] = h[j] => i = j
  BY <1>1, <1>2 DEF NoRepeats
<1>5. h \in Injection(1 .. Len(s), Items)
  BY <1>3, <1>4 DEF Injection, IsInjective
<1> HIDE DEF h
<1>6. Cardinality(1 .. Len(s)) <= Cardinality(Items)
  BY <1>5, FS_Injection
<1>7. Cardinality(1 .. Len(s)) = Len(s)
  BY <1>1, FS_Interval
<1> QED
  BY <1>6, <1>7

(* With fewer items than the counter has values the reported lengths are    *)
(* exact, so pop_is_empty() never ends a parse loop before its buffer is    *)
(* empty.                                                                   *)
THEOREM LengthsExact ==
  ASSUME IsFiniteSet(Items), Cardinality(Items) < LenMod
  PROVE  Spec => []LenExact
<1>1. TypeOK /\ Sided /\ Chained => LenExact
  <2> SUFFICES ASSUME TypeOK, Sided, Chained PROVE LenExact
    OBVIOUS
  <2>1. /\ PopLen = Len(Chain(pop_buffer)) % LenMod
        /\ PushLen = Len(Chain(push_buffer)) % LenMod
    BY LengthsAre
  <2>2. CASE alive
    <3>1. PICK f, p, q : Shape(f, p, q)
      BY <2>2 DEF Chained
    <3>2. Chain(pop_buffer) = p /\ Chain(push_buffer) = q
      BY <3>1, ChainsAre DEF ChainsAreLists
    <3>3. \A i, j \in Sleds : content[i] = content[j] /\ content[i] # NULL => i = j
      BY <2>2 DEF Sided, Structure
    <3>4. ASSUME NEW s, s \in Seq(Sleds), NoRepeats(s), Members(s) \subseteq Sleds,
                 \A i \in Members(s) : content[i] \in Items
          PROVE  Len(s) % LenMod = Len(s)
      <4>1. \A i, j \in Members(s) : content[i] = content[j] => i = j
        BY <3>3, <3>4, QueueAssumption
      <4>2. Len(s) <= Cardinality(Items)
        BY <3>4, <4>1, ShortLists
      <4>3. Cardinality(Items) \in Nat /\ Len(s) \in Nat /\ LenMod \in Nat \ {0}
        BY <3>4, FS_CardinalityType, QueueAssumption
      <4>4. Len(s) \in 0 .. LenMod - 1 /\ Len(s) = LenMod * 0 + Len(s) /\ Len(s) \in Int
        BY <4>2, <4>3
      <4> QED
        BY ONLY <4>3, <4>4, ModUnique
    <3>5. /\ p \in Seq(Sleds) /\ NoRepeats(p) /\ Members(p) \subseteq Sleds
          /\ q \in Seq(Sleds) /\ NoRepeats(q) /\ Members(q) \subseteq Sleds
          /\ \A i \in Members(p) \cup Members(q) : content[i] \in Items
      BY <3>1 DEF Shape, Lists, Split, Filled
    <3>6. Len(p) % LenMod = Len(p) /\ Len(q) % LenMod = Len(q)
      BY <3>4, <3>5
    <3> QED
      BY <2>1, <3>2, <3>6 DEF LenExact
  <2>3. CASE ~ alive
    <3>1. pop_buffer = NULL /\ push_buffer = NULL
      BY <2>3 DEF Chained
    <3> QED
      BY <3>1 DEF LenExact, PopLen, PushLen, Chain
  <2> QED
    BY <2>2, <2>3
<1> QED
  BY <1>1, QueueInvariant, ChainsInvariant, PTL

------------------------------------------------------------------------------
\* The entries of the sleds of a list.
EntriesOf(s, con, pri) == [i \in DOMAIN s |-> [item |-> con[s[i]], priority |-> pri[s[i]]]]

(* Entries follow the operations on lists.                                  *)
LEMMA EntriesType ==
  ASSUME NEW S, NEW s \in Seq(S), NEW con, NEW pri
  PROVE  \E R : EntriesOf(s, con, pri) \in Seq(R)
<1>1. Len(s) \in Nat /\ DOMAIN s = 1 .. Len(s)
  OBVIOUS
<1> DEFINE R == {[item |-> con[s[i]], priority |-> pri[s[i]]] : i \in DOMAIN s}
<1>2. EntriesOf(s, con, pri) \in [1 .. Len(s) -> R]
  BY <1>1 DEF EntriesOf
<1> HIDE DEF R
<1>3. EntriesOf(s, con, pri) \in Seq(R)
  BY <1>1, <1>2
<1> QED
  BY <1>3

(* There are as many entries as sleds.                                      *)
LEMMA EntriesLen ==
  ASSUME NEW S, NEW s \in Seq(S), NEW con, NEW pri
  PROVE  /\ Len(EntriesOf(s, con, pri)) = Len(s)
         /\ EntriesOf(s, con, pri) = <<>> <=> s = <<>>
<1> DEFINE E == EntriesOf(s, con, pri)
<1>1. Len(s) \in Nat /\ DOMAIN s = 1 .. Len(s)
  OBVIOUS
<1>2. PICK R : E \in Seq(R)
  BY EntriesType
<1>3. DOMAIN E = 1 .. Len(s)
  BY <1>1 DEF EntriesOf
<1> HIDE DEF E
<1>4. Len(E) = Len(s)
  BY <1>1, <1>2, <1>3
<1>5. E = <<>> <=> s = <<>>
  BY <1>1, <1>2, <1>4
<1> QED
  BY <1>4, <1>5 DEF E

(* Entries depend on nothing but the sleds of the list.                     *)
LEMMA EntriesAgree ==
  ASSUME NEW s, NEW con, NEW pri, NEW con2, NEW pri2,
         Agree(con, con2, Members(s)), Agree(pri, pri2, Members(s))
  PROVE  EntriesOf(s, con2, pri2) = EntriesOf(s, con, pri)
BY DEF EntriesOf, Agree, Members

(* A sled put at position k is an entry put at position k.                  *)
LEMMA EntriesInsert ==
  ASSUME NEW S, NEW s \in Seq(S), NEW k \in 1 .. Len(s) + 1, NEW e \in S,
         NEW con, NEW pri, NEW con2, NEW pri2, NEW x, NEW pr, Put(con2, pri2, e, x, pr),
         Agree(con, con2, Members(s)), Agree(pri, pri2, Members(s))
  PROVE  EntriesOf(Insert(s, k, e), con2, pri2)
           = Insert(EntriesOf(s, con, pri), k, [item |-> x, priority |-> pr])
<1> DEFINE t == Insert(s, k, e)
           E == EntriesOf(s, con, pri)
           F == EntriesOf(t, con2, pri2)
           r == [item |-> x, priority |-> pr]
<1>1. Len(s) \in Nat /\ DOMAIN s = 1 .. Len(s) /\ k \in Int /\ k >= 1 /\ k <= Len(s) + 1
  OBVIOUS
<1>2. /\ t \in Seq(S) /\ Len(t) = Len(s) + 1 /\ t[k] = e
      /\ \A i \in 1 .. k - 1 : i \in DOMAIN s /\ t[i] = s[i]
      /\ \A i \in k + 1 .. Len(s) + 1 : i - 1 \in DOMAIN s /\ t[i] = s[i - 1]
  BY InsertAtPlace
<1> HIDE DEF t
<1>3. /\ DOMAIN F = 1 .. Len(s) + 1
      /\ \A i \in 1 .. Len(s) + 1 : F[i] = [item |-> con2[t[i]], priority |-> pri2[t[i]]]
  BY <1>1, <1>2 DEF EntriesOf
<1>4. /\ Len(E) = Len(s)
      /\ \A i \in 1 .. Len(s) : E[i] = [item |-> con[s[i]], priority |-> pri[s[i]]]
  <2>1. Len(E) = Len(s)
    BY ONLY s \in Seq(S), EntriesLen
  <2>2. \A i \in 1 .. Len(s) : E[i] = [item |-> con[s[i]], priority |-> pri[s[i]]]
    BY <1>1 DEF EntriesOf
  <2> QED
    BY <2>1, <2>2
<1>5. \A i \in 1 .. Len(s) : con2[s[i]] = con[s[i]] /\ pri2[s[i]] = pri[s[i]]
  BY <1>1 DEF Agree, Members
<1>6. con2[e] = x /\ pri2[e] = pr
  BY DEF Put
<1>7. ASSUME NEW i \in 1 .. Len(s) + 1
      PROVE  F[i] = IF i < k THEN E[i] ELSE IF i = k THEN r ELSE E[i - 1]
  <2>1. CASE i < k
    <3>1. i \in 1 .. k - 1 /\ i \in 1 .. Len(s)
      BY <1>1, <2>1
    <3>2. t[i] = s[i] /\ con2[s[i]] = con[s[i]] /\ pri2[s[i]] = pri[s[i]]
      BY <3>1, <1>2, <1>5
    <3>3. F[i] = [item |-> con2[t[i]], priority |-> pri2[t[i]]]
      BY <1>3
    <3>4. E[i] = [item |-> con[s[i]], priority |-> pri[s[i]]]
      BY <3>1, <1>4
    <3>5. F[i] = E[i]
      BY ONLY <3>2, <3>3, <3>4
    <3> QED
      BY <2>1, <3>5
  <2>2. CASE i = k
    <3>1. ~ i < k
      BY <1>1, <2>2
    <3> QED
      BY <2>2, <3>1, <1>2, <1>3, <1>6
  <2>3. CASE i > k
    <3>1. i \in k + 1 .. Len(s) + 1 /\ i - 1 \in 1 .. Len(s) /\ ~ i < k /\ i # k
      BY <1>1, <2>3
    <3>2. t[i] = s[i - 1] /\ con2[s[i - 1]] = con[s[i - 1]] /\ pri2[s[i - 1]] = pri[s[i - 1]]
      BY <3>1, <1>2, <1>5
    <3>3. F[i] = [item |-> con2[t[i]], priority |-> pri2[t[i]]]
      BY <1>3
    <3>4. E[i - 1] = [item |-> con[s[i - 1]], priority |-> pri[s[i - 1]]]
      BY <3>1, <1>4
    <3>5. F[i] = E[i - 1]
      BY ONLY <3>2, <3>3, <3>4
    <3> QED
      BY <3>1, <3>5
  <2> QED
    BY <1>1, <2>1, <2>2, <2>3
<1>8. F = [i \in 1 .. Len(s) + 1 |-> F[i]]
  BY <1>3 DEF EntriesOf
<1> HIDE DEF F, E, r
<1>9. F = Insert(E, k, r)
  BY <1>4, <1>7, <1>8 DEF Insert
<1> QED
  BY <1>9 DEF F, E, r, t

(* Without the first sled, the entries are those without the first.         *)
LEMMA EntriesTail ==
  ASSUME NEW S, NEW s \in Seq(S), s # <<>>, NEW con, NEW pri
  PROVE  /\ EntriesOf(s, con, pri) # <<>>
         /\ Head(EntriesOf(s, con, pri)).item = con[s[1]]
         /\ Tail(EntriesOf(s, con, pri)) = EntriesOf(Tail(s), con, pri)
<1> DEFINE E == EntriesOf(s, con, pri)
<1>1. Len(s) \in Nat \ {0} /\ DOMAIN s = 1 .. Len(s) /\ 1 \in 1 .. Len(s)
  OBVIOUS
<1>2. PICK R : E \in Seq(R)
  BY EntriesType
<1>3. Len(E) = Len(s) /\ E # <<>>
  BY EntriesLen
<1>4. \A i \in 1 .. Len(s) : E[i] = [item |-> con[s[i]], priority |-> pri[s[i]]]
  BY <1>1 DEF EntriesOf
<1> HIDE DEF E
<1>5. Head(E).item = con[s[1]]
  <2>1. Head(E) = E[1]
    BY <1>2, <1>3
  <2>2. E[1] = [item |-> con[s[1]], priority |-> pri[s[1]]]
    BY <1>1, <1>4
  <2> QED
    BY ONLY <2>1, <2>2
<1>6. Tail(s) \in Seq(S) /\ Len(Tail(s)) = Len(s) - 1 /\ DOMAIN Tail(s) = 1 .. Len(s) - 1
      /\ \A i \in 1 .. Len(s) - 1 : Tail(s)[i] = s[i + 1]
  BY <1>1
<1>7. Tail(E) \in Seq(R) /\ Len(Tail(E)) = Len(s) - 1 /\ DOMAIN Tail(E) = 1 .. Len(s) - 1
      /\ \A i \in 1 .. Len(s) - 1 : Tail(E)[i] = E[i + 1]
  BY <1>1, <1>2, <1>3
<1>8. \A i \in 1 .. Len(s) - 1 : Tail(E)[i] = [item |-> con[Tail(s)[i]], priority |-> pri[Tail(s)[i]]]
  <2> SUFFICES ASSUME NEW i \in 1 .. Len(s) - 1
               PROVE  Tail(E)[i] = [item |-> con[Tail(s)[i]], priority |-> pri[Tail(s)[i]]]
    OBVIOUS
  <2>1. i + 1 \in 1 .. Len(s)
    BY <1>1
  <2> QED
    BY <2>1, <1>4, <1>6, <1>7
<1>9. Tail(E) = [i \in 1 .. Len(s) - 1 |-> Tail(E)[i]]
  <2> DEFINE w == Tail(E)
             n == Len(s) - 1
  <2> HIDE DEF w, n
  <2>1. w \in Seq(R) /\ Len(w) = n
    BY ONLY <1>7 DEF w, n
  <2>2. w = [i \in 1 .. n |-> w[i]]
    BY ONLY <2>1
  <2> QED
    BY ONLY <2>2 DEF w, n
<1>10. Tail(E) = EntriesOf(Tail(s), con, pri)
  BY <1>6, <1>8, <1>9 DEF EntriesOf
<1> QED
  BY <1>3, <1>10, <1>5 DEF E

(* The community modules' InsertAt and Append are Insert.                   *)
LEMMA InsertIsInsertAt ==
  ASSUME NEW S, NEW s \in Seq(S), NEW k \in 1 .. Len(s) + 1, NEW e
  PROVE  Insert(s, k, e) = Abstract!InsertAt(s, k, e)
<1> DEFINE T == S \cup {e}
           a == SubSeq(s, 1, k - 1)
           b == SubSeq(s, k, Len(s))
           t == (a \o <<e>>) \o b
<1>1. Len(s) \in Nat /\ DOMAIN s = 1 .. Len(s) /\ k \in Int /\ k >= 1 /\ k <= Len(s) + 1
      /\ \A i \in 1 .. Len(s) : s[i] \in T
  OBVIOUS
<1>2. a \in Seq(T) /\ Len(a) = k - 1 /\ \A i \in 1 .. k - 1 : a[i] = s[i]
  <2>1. a = [i \in 1 .. k - 1 |-> s[i]]
    BY <1>1
  <2>2. k - 1 \in Nat /\ \A i \in 1 .. k - 1 : i \in 1 .. Len(s)
    BY <1>1
  <2> HIDE DEF a
  <2>3. a \in [1 .. k - 1 -> T]
    BY ONLY <1>1, <2>1, <2>2
  <2> QED
    BY ONLY <2>1, <2>2, <2>3
<1>3. b \in Seq(T) /\ Len(b) = Len(s) - k + 1 /\ \A i \in 1 .. Len(s) - k + 1 : b[i] = s[k + i - 1]
  <2>1. b = [i \in 1 .. Len(s) - k + 1 |-> s[k + i - 1]]
    BY <1>1
  <2>2. Len(s) - k + 1 \in Nat /\ \A i \in 1 .. Len(s) - k + 1 : k + i - 1 \in 1 .. Len(s)
    BY <1>1
  <2>3. b \in [1 .. Len(s) - k + 1 -> T]
    BY <1>1, <2>1, <2>2
  <2> QED
    BY <2>1, <2>2, <2>3
<1> HIDE DEF a, b, T
<1>4. <<e>> \in Seq(T) /\ Len(<<e>>) = 1 /\ <<e>>[1] = e
  BY DEF T
<1>5. /\ a \o <<e>> \in Seq(T) /\ Len(a \o <<e>>) = k
      /\ \A i \in 1 .. k - 1 : (a \o <<e>>)[i] = s[i]
      /\ (a \o <<e>>)[k] = e
  BY <1>1, <1>2, <1>4
<1> DEFINE c == a \o <<e>>
<1> HIDE DEF c
<1>6. /\ t = c \o b /\ c \in Seq(T) /\ Len(c) = k
      /\ \A i \in 1 .. k - 1 : c[i] = s[i]
      /\ c[k] = e
  BY <1>5 DEF c
<1>7. t \in Seq(T) /\ Len(t) = Len(s) + 1 /\ DOMAIN t = 1 .. Len(s) + 1
  <2>1. c \in Seq(T) /\ b \in Seq(T)
    BY ONLY <1>3, <1>6
  <2>2. t = c \o b /\ Len(c) = k
    BY ONLY <1>6
  <2>3. Len(b) = Len(s) - k + 1
    BY ONLY <1>3
  <2>4. c \o b \in Seq(T) /\ Len(c \o b) = Len(c) + Len(b)
    BY ONLY <2>1
  <2> HIDE DEF t
  <2>5. t \in Seq(T) /\ Len(t) = k + (Len(s) - k + 1)
    BY ONLY <2>3, <2>4, <2>2
  <2>6. k + (Len(s) - k + 1) = Len(s) + 1
    BY <1>1
  <2> QED
    BY ONLY <1>1, <2>5, <2>6
<1>8. \A i \in 1 .. k : t[i] = c[i]
  BY <1>1, <1>3, <1>6
<1>9. \A i \in k + 1 .. Len(s) + 1 : t[i] = s[i - 1]
  <2> SUFFICES ASSUME NEW i \in k + 1 .. Len(s) + 1 PROVE t[i] = s[i - 1]
    OBVIOUS
  <2>1. i - k \in 1 .. Len(s) - k + 1 /\ k + (i - k) - 1 = i - 1
    BY <1>1
  <2>2. t[i] = b[i - k]
    <3>1. i \in 1 .. Len(c) + Len(b) /\ ~ i <= Len(c)
      BY <1>1, <1>3, <1>6
    <3> QED
      BY <3>1, <1>3, <1>6
  <2> QED
    BY <2>1, <2>2, <1>3
<1> HIDE DEF t
<1>10. \A i \in 1 .. Len(s) + 1 : t[i] = IF i < k THEN s[i] ELSE IF i = k THEN e ELSE s[i - 1]
  <2> SUFFICES ASSUME NEW i \in 1 .. Len(s) + 1
               PROVE  t[i] = IF i < k THEN s[i] ELSE IF i = k THEN e ELSE s[i - 1]
    OBVIOUS
  <2>1. i < k => i \in 1 .. k - 1 /\ i \in 1 .. k
    BY <1>1
  <2>2. i = k => i \in 1 .. k /\ ~ i < k
    BY <1>1
  <2>3. i > k => i \in k + 1 .. Len(s) + 1 /\ ~ i < k /\ i # k
    BY <1>1
  <2>4. i < k \/ i = k \/ i > k
    BY <1>1
  <2> QED
    BY <2>1, <2>2, <2>3, <2>4, <1>6, <1>8, <1>9
<1>11. t = [i \in 1 .. Len(s) + 1 |-> t[i]]
  BY <1>7
<1>12. t = Insert(s, k, e)
  BY <1>10, <1>11 DEF Insert
<1>13. Abstract!InsertAt(s, k, e) = t
  BY DEF Abstract!InsertAt, t, a, b
<1> QED
  BY <1>12, <1>13

(* At the end of a sequence, Insert appends.                                *)
LEMMA InsertIsAppend ==
  ASSUME NEW S, NEW s \in Seq(S), NEW e
  PROVE  Insert(s, Len(s) + 1, e) = Append(s, e)
<1> DEFINE t == Append(s, e)
<1>1. Len(s) \in Nat /\ s \in Seq(S \cup {e}) /\ e \in S \cup {e}
  <2>1. Len(s) \in Nat /\ s \in [1 .. Len(s) -> S \cup {e}]
    OBVIOUS
  <2> QED
    BY <2>1
<1>2. t \in Seq(S \cup {e}) /\ Len(t) = Len(s) + 1 /\ DOMAIN t = 1 .. Len(s) + 1
      /\ t[Len(s) + 1] = e /\ \A i \in 1 .. Len(s) : t[i] = s[i]
  BY <1>1
<1> HIDE DEF t
<1>3. t = [i \in 1 .. Len(s) + 1 |-> t[i]]
  BY <1>2
<1>4. ASSUME NEW i \in 1 .. Len(s) + 1
      PROVE  t[i] = IF i < Len(s) + 1 THEN s[i] ELSE IF i = Len(s) + 1 THEN e ELSE s[i - 1]
  <2>1. i < Len(s) + 1 => i \in 1 .. Len(s)
    BY <1>1
  <2>2. ~ i < Len(s) + 1 => i = Len(s) + 1
    BY <1>1
  <2> QED
    BY <2>1, <2>2, <1>2
<1> QED
  BY <1>3, <1>4 DEF Insert, t

------------------------------------------------------------------------------
\* The queues of the abstract specification, and that they hold the entries
\* of two lists.
PopEntries == Entries(Chain(pop_buffer))
PushEntries == Entries(Chain(push_buffer))

EntriesAreLists ==
  \A f, p, q : TypeOK /\ Shape(f, p, q) => /\ PopEntries = EntriesOf(p, content, priority)
                                            /\ PushEntries = EntriesOf(q, content, priority)

(* Reading the two buffers gives the entries of their lists.                *)
LEMMA EntriesAre == EntriesAreLists
<1> SUFFICES ASSUME NEW f, NEW p, NEW q, TypeOK, Shape(f, p, q)
             PROVE  /\ PopEntries = EntriesOf(p, content, priority)
                    /\ PushEntries = EntriesOf(q, content, priority)
  BY DEF EntriesAreLists
<1>1. Chain(pop_buffer) = p /\ Chain(push_buffer) = q
  BY ChainsAre DEF ChainsAreLists
<1> QED
  BY <1>1 DEF PopEntries, PushEntries, Entries, EntriesOf

(* The same of the state after a step.                                      *)
LEMMA EntriesAreNext == EntriesAreLists'
BY EntriesAre, PTL

(* An item that none of the sleds of the two chains holds is not owned.     *)
LEMMA NotOwned ==
  ASSUME TypeOK, NEW f, NEW p, NEW q, Shape(f, p, q), NEW x,
         \A i \in Members(p) \cup Members(q) : content[i] # x
  PROVE  x \notin Abstract!Owned
<1>1. /\ PopEntries = EntriesOf(p, content, priority)
      /\ PushEntries = EntriesOf(q, content, priority)
  BY EntriesAre DEF EntriesAreLists
<1>2. ASSUME NEW s, Members(s) \subseteq Members(p) \cup Members(q),
             NEW i \in DOMAIN EntriesOf(s, content, priority)
      PROVE  EntriesOf(s, content, priority)[i].item # x
  BY <1>2 DEF EntriesOf, Members
<1>3. /\ \A i \in DOMAIN PopEntries : PopEntries[i].item # x
      /\ \A i \in DOMAIN PushEntries : PushEntries[i].item # x
  BY <1>1, <1>2
<1> QED
  BY <1>3 DEF Abstract!Owned, PopEntries, PushEntries

(* A caller queues what the queue does not own.                             *)
LEMMA NotHeldNotOwned ==
  ASSUME TypeOK, NEW f, NEW p, NEW q, Shape(f, p, q), NEW x \in Items, x \notin Held
  PROVE  x \notin Abstract!Owned
<1>1. \A i \in Sleds : content[i] # x
  BY QueueAssumption DEF Held
<1>2. Members(p) \cup Members(q) \subseteq Sleds
  BY DEF Shape, Lists, Split
<1> QED
  BY <1>1, <1>2, NotOwned

\* The entry of the sled e joins those of the list s at position k.
Joining(s, k, e, con, pri, con2, pri2, x, pr) ==
  /\ Len(EntriesOf(s, con, pri)) = Len(s)
  /\ EntriesOf(Insert(s, k, e), con2, pri2)
       = Abstract!InsertAt(EntriesOf(s, con, pri), k, [item |-> x, priority |-> pr])
  /\ k = Len(s) + 1 =>
       EntriesOf(Insert(s, k, e), con2, pri2)
         = Append(EntriesOf(s, con, pri), [item |-> x, priority |-> pr])

(* A sled that joins the push chain is an entry that joins the push queue.  *)
LEMMA EntriesJoin ==
  ASSUME NEW T, NEW s \in Seq(T), NEW k \in 1 .. Len(s) + 1, NEW e,
         NEW con, NEW pri, NEW con2, NEW pri2, NEW x, NEW pr, Put(con2, pri2, e, x, pr),
         Agree(con, con2, Members(s)), Agree(pri, pri2, Members(s))
  PROVE  Joining(s, k, e, con, pri, con2, pri2, x, pr)
<1> DEFINE E == EntriesOf(s, con, pri)
           S == T \cup {e}
           r == [item |-> x, priority |-> pr]
<1>1. s \in Seq(S) /\ e \in S
  <2>1. Len(s) \in Nat /\ s \in [1 .. Len(s) -> S]
    OBVIOUS
  <2> QED
    BY <2>1
<1> HIDE DEF S, r
<1>2. EntriesOf(Insert(s, k, e), con2, pri2) = Insert(E, k, r)
  <2>1. EntriesOf(Insert(s, k, e), con2, pri2)
          = Insert(EntriesOf(s, con, pri), k, [item |-> x, priority |-> pr])
    BY <1>1, EntriesInsert
  <2> QED
    BY <2>1 DEF r
<1>3. Len(E) = Len(s)
  BY EntriesLen
<1>4. PICK R : E \in Seq(R)
  BY EntriesType
<1> HIDE DEF E
<1>5. k \in 1 .. Len(E) + 1
  BY <1>3
<1>6. Insert(E, k, r) = Abstract!InsertAt(E, k, r)
  BY ONLY <1>4, <1>5, InsertIsInsertAt
<1>7. Insert(E, Len(E) + 1, r) = Append(E, r)
  BY ONLY <1>4, InsertIsAppend
<1> QED
  BY <1>2, <1>3, <1>6, <1>7 DEF r, E, Joining

(* push_back puts an entry at the end of the push queue.                    *)
LEMMA PushBackAbstract ==
  ASSUME TypeOK, TypeOK', Chained, NEW pr \in Priorities, NEW x \in Items, PushBack(pr, x)
  PROVE  Abstract!AbsPushBack(pr, x)
<1>1. alive /\ alive' = alive /\ result' = result /\ x \notin Held
  BY DEF PushBack, Idle
<1>2. PICK f, p, q : Shape(f, p, q)
  BY <1>1 DEF Chained
<1>3. PICK g, e, f2, q2 : /\ g = RoomList(f) /\ e = g[1] /\ f2 = Tail(g)
                          /\ q2 = Insert(q, Len(q) + 1, e)
  OBVIOUS
<1>4. /\ Shape(f2, p, q2)'
      /\ Put(content', priority', e, x, pr)
      /\ Agree(content, content', Members(p) \cup Members(q))
      /\ Agree(priority, priority', Members(p) \cup Members(q))
  BY <1>2, <1>3, PushBackShape
<1>5. /\ Agree(content, content', Members(p)) /\ Agree(priority, priority', Members(p))
      /\ Agree(content, content', Members(q)) /\ Agree(priority, priority', Members(q))
  BY <1>4 DEF Agree
<1>6. /\ PopEntries = EntriesOf(p, content, priority)
      /\ PushEntries = EntriesOf(q, content, priority)
  BY <1>2, EntriesAre DEF EntriesAreLists
<1>7. /\ PopEntries' = EntriesOf(p, content', priority')
      /\ PushEntries' = EntriesOf(q2, content', priority')
  BY <1>4, EntriesAreNext DEF EntriesAreLists
<1>8. PopEntries' = PopEntries
  BY <1>5, <1>6, <1>7, EntriesAgree
<1>9. PushEntries' = Append(PushEntries, [item |-> x, priority |-> pr])
  <2>1. q \in Seq(Sleds) /\ Len(q) + 1 \in 1 .. Len(q) + 1
    BY <1>2 DEF Shape, Lists, Split
  <2>2. PICK con2, pri2 : con2 = content' /\ pri2 = priority'
    OBVIOUS
  <2>3. /\ Put(con2, pri2, e, x, pr)
        /\ Agree(content, con2, Members(q)) /\ Agree(priority, pri2, Members(q))
    BY <1>4, <1>5, <2>2
  <2>4. Joining(q, Len(q) + 1, e, content, priority, con2, pri2, x, pr)
    BY ONLY <2>1, <2>3, EntriesJoin
  <2>5. EntriesOf(Insert(q, Len(q) + 1, e), con2, pri2)
          = Append(EntriesOf(q, content, priority), [item |-> x, priority |-> pr])
    BY ONLY <2>4 DEF Joining
  <2> QED
    BY <1>3, <1>6, <1>7, <2>2, <2>5
<1>10. x \notin Abstract!Owned
  BY <1>1, <1>2, NotHeldNotOwned
<1> QED
  BY <1>1, <1>8, <1>9, <1>10 DEF Abstract!AbsPushBack, PopEntries, PushEntries

(* push_with_priority into an empty push buffer is done at once; otherwise  *)
(* the queue changes only when the walk has found the place.                *)
LEMMA PushWithPriorityAbstract ==
  ASSUME TypeOK, TypeOK', Chained, NEW pr \in Priorities, NEW x \in Items,
         PushWithPriority(pr, x)
  PROVE  Abstract!AbsPushWithPriority(pr, x) \/ UNCHANGED Abstract!absVars
<1>1. alive /\ alive' = alive /\ result' = result /\ x \notin Held
  BY DEF PushWithPriority, Idle
<1>2. PICK f, p, q : Shape(f, p, q)
  BY <1>1 DEF Chained
<1>3. PICK g, e, f2 : g = RoomList(f) /\ e = g[1] /\ f2 = Tail(g)
  OBVIOUS
<1>4. /\ q = <<>> => Shape(f2, p, Insert(q, 1, e))'
      /\ q # <<>> => Shape(f2, p, q)'
      /\ Put(content', priority', e, x, pr)
      /\ Agree(content, content', Members(p) \cup Members(q))
      /\ Agree(priority, priority', Members(p) \cup Members(q))
  BY <1>2, <1>3, PushWithPriorityShape
<1>5. /\ Agree(content, content', Members(p)) /\ Agree(priority, priority', Members(p))
      /\ Agree(content, content', Members(q)) /\ Agree(priority, priority', Members(q))
  BY <1>4 DEF Agree
<1>6. /\ PopEntries = EntriesOf(p, content, priority)
      /\ PushEntries = EntriesOf(q, content, priority)
  BY <1>2, EntriesAre DEF EntriesAreLists
<1>7. CASE q # <<>>
  <2>1. /\ PopEntries' = EntriesOf(p, content', priority')
        /\ PushEntries' = EntriesOf(q, content', priority')
    BY <1>4, <1>7, EntriesAreNext DEF EntriesAreLists
  <2>2. PopEntries' = PopEntries /\ PushEntries' = PushEntries
    BY <1>5, <1>6, <2>1, EntriesAgree
  <2> QED
    BY <1>1, <2>2 DEF Abstract!absVars, PopEntries, PushEntries
<1>8. CASE q = <<>>
  <2>1. PICK q2 : q2 = Insert(q, 1, e)
    OBVIOUS
  <2>2. /\ PopEntries' = EntriesOf(p, content', priority')
        /\ PushEntries' = EntriesOf(q2, content', priority')
    BY <1>4, <1>8, <2>1, EntriesAreNext DEF EntriesAreLists
  <2>3. PopEntries' = PopEntries
    BY <1>5, <1>6, <2>2, EntriesAgree
  <2>4. q \in Seq(Sleds) /\ 1 \in 1 .. Len(q) + 1 /\ Len(q) = 0
    BY <1>2, <1>8 DEF Shape, Lists, Split
  <2>5. PICK con2, pri2 : con2 = content' /\ pri2 = priority'
    OBVIOUS
  <2>6. /\ Put(con2, pri2, e, x, pr)
        /\ Agree(content, con2, Members(q)) /\ Agree(priority, pri2, Members(q))
    BY <1>4, <1>5, <2>5
  <2>7. Joining(q, 1, e, content, priority, con2, pri2, x, pr)
    BY ONLY <2>4, <2>6, EntriesJoin
  <2>8. /\ Len(PushEntries) = Len(q)
        /\ EntriesOf(Insert(q, 1, e), con2, pri2)
             = Abstract!InsertAt(PushEntries, 1, [item |-> x, priority |-> pr])
    BY <1>6, <2>7 DEF Joining
  <2>9. PushEntries' = Abstract!InsertAt(PushEntries, 1, [item |-> x, priority |-> pr])
    BY <2>1, <2>2, <2>5, <2>8
  <2>10. x \notin Abstract!Owned
    BY <1>1, <1>2, NotHeldNotOwned
  <2>11. /\ 1 \in 1 .. Len(PushEntries) + 1
         /\ \A j \in 1 .. 1 - 1 : PushEntries[j].priority >= pr
         /\ 1 <= Len(PushEntries) => PushEntries[1].priority < pr
    BY ONLY <2>4, <2>8
  <2>12. Abstract!AbsPushWithPriority(pr, x)
    BY <1>1, <2>3, <2>9, <2>10, <2>11
    DEF Abstract!AbsPushWithPriority, PopEntries, PushEntries
  <2> QED
    BY <2>12
<1> QED
  BY <1>7, <1>8

(* A walk that has found its place queues the item of the sled it inserts.  *)
LEMMA InsertAbstract ==
  ASSUME IInv, TypeOK', NEW f, NEW p, NEW q, Shape(f, p, q), alive, cursor # NULL,
         UNCHANGED <<content, priority, result, alive>>,
         NEW e, e = cursor.new, NEW k \in 1 .. Len(q) + 1,
         Shape(f, p, Insert(q, k, e))', Place(priority, q, k, priority[e])
  PROVE  \E pr \in Priorities, x \in Items : Abstract!AbsPushWithPriority(pr, x)
<1>1. TypeOK /\ Sided
  BY DEF IInv
<1>2. PICK x, pr : x = content[e] /\ pr = priority[e]
  OBVIOUS
<1>3. /\ Lists(Sleds, next, {e}, f, p, q)
      /\ Filled(content, priority, Members(p) \cup Members(q) \cup {e}, Members(f))
  BY DEF Shape, New
<1>4. x \in Items /\ pr \in Priorities
  BY <1>2, <1>3 DEF Filled
<1>5. x \notin Abstract!Owned
  <2>1. /\ e \in Sleds /\ e \notin Members(p) \cup Members(q)
        /\ Members(p) \cup Members(q) \subseteq Sleds
    BY <1>3 DEF Lists, Split
  <2>2. \A i, j \in Sleds : content[i] = content[j] /\ content[i] # NULL => i = j
    BY <1>1 DEF Sided, Structure
  <2>3. x # NULL
    BY <1>4, QueueAssumption
  <2>4. \A i \in Members(p) \cup Members(q) : content[i] # x
    BY <1>2, <2>1, <2>2, <2>3
  <2> QED
    BY <1>1, <2>4, NotOwned
<1>6. /\ PopEntries = EntriesOf(p, content, priority)
      /\ PushEntries = EntriesOf(q, content, priority)
  BY <1>1, EntriesAre DEF EntriesAreLists
<1>7. PICK q2 : q2 = Insert(q, k, e)
  OBVIOUS
<1>8. /\ PopEntries' = EntriesOf(p, content', priority')
      /\ PushEntries' = EntriesOf(q2, content', priority')
  BY <1>7, EntriesAreNext DEF EntriesAreLists
<1>9. PopEntries' = PopEntries
  BY <1>6, <1>8
<1>10. q \in Seq(Sleds)
  BY <1>3 DEF Lists, Split
<1>11. /\ Put(content, priority, e, x, pr)
       /\ Agree(content, content, Members(q)) /\ Agree(priority, priority, Members(q))
  BY <1>2 DEF Put, Agree
<1>12. Joining(q, k, e, content, priority, content, priority, x, pr)
  <2>1. k \in 1 .. Len(q) + 1
    OBVIOUS
  <2> QED
    BY ONLY <2>1, <1>10, <1>11, EntriesJoin
<1>13. /\ Len(PushEntries) = Len(q)
       /\ PushEntries' = Abstract!InsertAt(PushEntries, k, [item |-> x, priority |-> pr])
  BY <1>6, <1>7, <1>8, <1>12 DEF Joining
<1>14. /\ k \in 1 .. Len(PushEntries) + 1
       /\ \A j \in 1 .. k - 1 : PushEntries[j].priority >= pr
       /\ k <= Len(PushEntries) => PushEntries[k].priority < pr
  <2>1. \A j \in DOMAIN q : PushEntries[j].priority = priority[q[j]]
    BY <1>6 DEF EntriesOf
  <2>2. DOMAIN q = 1 .. Len(q) /\ Len(q) \in Nat
    BY <1>10
  <2>3. \A j \in 1 .. k - 1 : j \in DOMAIN q
    BY <2>2
  <2>4. k <= Len(q) => k \in DOMAIN q
    BY <2>2
  <2>5. /\ \A j \in 1 .. k - 1 : priority[q[j]] >= pr
        /\ k <= Len(q) => priority[q[k]] < pr
    BY <1>2 DEF Place
  <2> QED
    BY <1>13, <2>1, <2>3, <2>4, <2>5
<1>15. Abstract!AbsPushWithPriority(pr, x)
  BY <1>5, <1>9, <1>13, <1>14 DEF Abstract!AbsPushWithPriority, PopEntries, PushEntries
<1> QED
  BY <1>4, <1>15

(* pop_front takes the first entry of the pop queue.                        *)
LEMMA PopFrontAbstract ==
  ASSUME TypeOK, TypeOK', Chained, PopFront
  PROVE  Abstract!AbsPopFront
<1>1. alive /\ alive' = alive
  BY DEF PopFront, Idle
<1>2. PICK f, p, q : Shape(f, p, q)
  BY <1>1 DEF Chained
<1>3. PICK e, p2, f2 : e = p[1] /\ p2 = Tail(p) /\ f2 = Insert(f, 1, e)
  OBVIOUS
<1>4. /\ p # <<>>
      /\ result' = content[e]
      /\ Shape(f2, p2, q)'
      /\ Agree(content, content', Members(p2) \cup Members(q))
      /\ Agree(priority, priority', Members(p2) \cup Members(q))
  BY <1>2, <1>3, PopFrontShape
<1>5. /\ Agree(content, content', Members(p2)) /\ Agree(priority, priority', Members(p2))
      /\ Agree(content, content', Members(q)) /\ Agree(priority, priority', Members(q))
  BY <1>4 DEF Agree
<1>6. /\ PopEntries = EntriesOf(p, content, priority)
      /\ PushEntries = EntriesOf(q, content, priority)
  BY <1>2, EntriesAre DEF EntriesAreLists
<1>7. /\ PopEntries' = EntriesOf(p2, content', priority')
      /\ PushEntries' = EntriesOf(q, content', priority')
  BY <1>4, EntriesAreNext DEF EntriesAreLists
<1>8. PushEntries' = PushEntries
  BY <1>5, <1>6, <1>7, EntriesAgree
<1>9. PopEntries' = EntriesOf(p2, content, priority)
  BY <1>5, <1>7, EntriesAgree
<1>10. /\ PopEntries # <<>>
       /\ Head(PopEntries).item = content[p[1]]
       /\ Tail(PopEntries) = EntriesOf(Tail(p), content, priority)
  <2>1. p \in Seq(Sleds)
    BY <1>2 DEF Shape, Lists, Split
  <2> QED
    BY <1>4, <1>6, <2>1, EntriesTail
<1>11. result' = Head(PopEntries).item /\ PopEntries' = Tail(PopEntries)
  BY <1>3, <1>4, <1>9, <1>10
<1> QED
  BY <1>1, <1>8, <1>10, <1>11 DEF Abstract!AbsPopFront, PopEntries, PushEntries

(* pop_front of an empty pop buffer reports that there is none.             *)
LEMMA PopFrontEmptyAbstract ==
  ASSUME PopFrontEmpty
  PROVE  Abstract!AbsPopFront
<1>1. alive /\ alive' = alive /\ pop_buffer = NULL /\ result' = NULL
  BY DEF PopFrontEmpty, Idle
<1>2. PopEntries = <<>>
  BY <1>1 DEF PopEntries, Chain, Entries
<1>3. PopEntries' = PopEntries /\ PushEntries' = PushEntries
  BY DEF PopFrontEmpty, array, PopEntries, PushEntries, Entries, Chain, ChainFrom, Sleds
<1> QED
  BY <1>1, <1>2, <1>3 DEF Abstract!AbsPopFront, PopEntries, PushEntries

(* swap_buffers exchanges the two queues.                                   *)
LEMMA SwapBuffersAbstract ==
  ASSUME SwapBuffers
  PROVE  Abstract!AbsSwapBuffers
<1>1. alive /\ alive' = alive /\ result' = result
  BY DEF SwapBuffers, Idle
<1>2. PopEntries' = PushEntries /\ PushEntries' = PopEntries
  BY DEF SwapBuffers, array, PopEntries, PushEntries, Entries, Chain, ChainFrom, Sleds
<1> QED
  BY <1>1, <1>2 DEF Abstract!AbsSwapBuffers, PopEntries, PushEntries

(* Drop empties both queues.                                                *)
LEMMA DropAbstract ==
  ASSUME Drop
  PROVE  Abstract!AbsDrop
<1>1. alive /\ alive' = FALSE /\ result' = result /\ pop_buffer' = NULL /\ push_buffer' = NULL
  BY DEF Drop, Idle
<1>2. PopEntries' = <<>> /\ PushEntries' = <<>>
  BY <1>1 DEF PopEntries, PushEntries, Chain, Entries
<1> QED
  BY <1>1, <1>2 DEF Abstract!AbsDrop, PopEntries, PushEntries

(* A new queue is two empty queues.                                         *)
LEMMA InitAbstract == Init => Abstract!AbsInit
<1> SUFFICES ASSUME Init PROVE Abstract!AbsInit
  OBVIOUS
<1>1. pop_buffer = NULL /\ push_buffer = NULL /\ result = NULL /\ alive = TRUE
  BY DEF Init
<1>2. Entries(Chain(pop_buffer)) = <<>> /\ Entries(Chain(push_buffer)) = <<>>
  BY <1>1 DEF Chain, Entries
<1> QED
  BY <1>1, <1>2 DEF Abstract!AbsInit

(* Every step of the linked lists is a step of the two queues, or leaves    *)
(* them as they are.                                                        *)
LEMMA NextAbstract ==
  ASSUME IInv, Chained, TypeOK', [Next]_vars
  PROVE  [Abstract!AbsNext]_(Abstract!absVars)
<1>a. TypeOK
  BY DEF IInv
<1>b. ASSUME \E pr \in Priorities, x \in Items : Abstract!AbsPushWithPriority(pr, x)
      PROVE  Abstract!AbsNext
  BY <1>b DEF Abstract!AbsNext
<1>c. ASSUME alive, cursor # NULL, NEW f, NEW p, NEW q, Shape(f, p, q),
             UNCHANGED <<content, priority, result, alive>>, NEW e, e = cursor.new,
             \E k \in 1 .. Len(q) + 1 : /\ Shape(f, p, Insert(q, k, e))'
                                        /\ Place(priority, q, k, priority[e])
      PROVE  Abstract!AbsNext
  <2>1. PICK k \in 1 .. Len(q) + 1 : /\ Shape(f, p, Insert(q, k, e))'
                                     /\ Place(priority, q, k, priority[e])
    BY <1>c
  <2> QED
    BY <1>b, <1>c, <2>1, InsertAbstract
<1>1. ASSUME NEW pr \in Priorities, NEW x \in Items, PushBack(pr, x)
      PROVE  Abstract!AbsNext
  <2>1. Abstract!AbsPushBack(pr, x)
    BY <1>1, <1>a, PushBackAbstract
  <2> QED
    BY <2>1 DEF Abstract!AbsNext
<1>2. ASSUME NEW pr \in Priorities, NEW x \in Items, PushWithPriority(pr, x)
      PROVE  Abstract!AbsNext \/ UNCHANGED Abstract!absVars
  <2>1. Abstract!AbsPushWithPriority(pr, x) \/ UNCHANGED Abstract!absVars
    BY <1>2, <1>a, PushWithPriorityAbstract
  <2> QED
    BY <1>b, <2>1
<1>3. CASE Walk
  <2>1. PopEntries' = PopEntries /\ PushEntries' = PushEntries
    BY <1>3 DEF Walk, array, PopEntries, PushEntries, Entries, Chain, ChainFrom, Sleds
  <2>2. result' = result /\ alive' = alive
    BY <1>3 DEF Walk
  <2> QED
    BY <2>1, <2>2 DEF Abstract!absVars, PopEntries, PushEntries
<1>4. CASE InsertBefore
  <2>1. /\ cursor # NULL /\ alive /\ UNCHANGED <<content, priority, result, alive>>
    BY <1>4 DEF InsertBefore, Chained
  <2>2. PICK f, p, q : Shape(f, p, q)
    BY <2>1 DEF Chained
  <2>3. PICK e : e = cursor.new
    OBVIOUS
  <2>4. \E k \in 1 .. Len(q) + 1 : /\ Shape(f, p, Insert(q, k, e))'
                                   /\ Place(priority, q, k, priority[e])
    BY <1>4, <1>a, <2>2, <2>3, InsertBeforeShape
  <2> QED
    BY <1>c, <2>1, <2>2, <2>3, <2>4
<1>5. CASE InsertLast
  <2>1. /\ cursor # NULL /\ alive /\ UNCHANGED <<content, priority, result, alive>>
    BY <1>5 DEF InsertLast, Chained
  <2>2. PICK f, p, q : Shape(f, p, q)
    BY <2>1 DEF Chained
  <2>3. PICK e : e = cursor.new
    OBVIOUS
  <2>4. \E k \in 1 .. Len(q) + 1 : /\ Shape(f, p, Insert(q, k, e))'
                                   /\ Place(priority, q, k, priority[e])
    BY <1>5, <1>a, <2>2, <2>3, InsertLastShape
  <2> QED
    BY <1>c, <2>1, <2>2, <2>3, <2>4
<1>6. CASE PopFrontEmpty
  BY <1>6, PopFrontEmptyAbstract DEF Abstract!AbsNext
<1>7. CASE PopFront
  BY <1>7, <1>a, PopFrontAbstract DEF Abstract!AbsNext
<1>8. CASE SwapBuffers
  BY <1>8, SwapBuffersAbstract DEF Abstract!AbsNext
<1>9. CASE Drop
  BY <1>9, DropAbstract DEF Abstract!AbsNext
<1>10. CASE UNCHANGED vars
  <2>1. PopEntries' = PopEntries /\ PushEntries' = PushEntries /\ result' = result
        /\ alive' = alive
    BY <1>10 DEF vars, PopEntries, PushEntries, Entries, Chain, ChainFrom, Sleds
  <2> QED
    BY <2>1 DEF Abstract!absVars, PopEntries, PushEntries
<1> QED
  BY <1>1, <1>2, <1>3, <1>4, <1>5, <1>6, <1>7, <1>8, <1>9, <1>10 DEF Next

(* The linked lists of context_queue.rs implement the two queues its        *)
(* callers are promised: push_back, push_with_priority, pop_front,          *)
(* swap_buffers and the drop do what the abstract operations say.           *)
THEOREM QueueImplementsAbstract == Spec => ImplementsAbstract
<1>1. Spec => [](IInv /\ Chained)
  BY QueueInvariant, ChainsInvariant, PTL DEF IInv
<1>2. IInv => TypeOK
  BY DEF IInv
<1>3. IInv /\ Chained /\ IInv' /\ [Next]_vars => [Abstract!AbsNext]_(Abstract!absVars)
  BY <1>2, NextAbstract DEF IInv
<1> QED
  BY <1>1, <1>3, InitAbstract, PTL DEF Spec, ImplementsAbstract, Abstract!AbsSpec
==============================================================================
