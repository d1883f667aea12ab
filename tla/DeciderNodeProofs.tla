-------------------------- MODULE DeciderNodeProofs --------------------------
(***************************************************************************)
(* The global signal deciders of a careful client, for any number of       *)
(* threads, signals, containers and deciders: a node's refcount is exact,  *)
(* no step touches freed memory, nothing is leaked, and a raise calls      *)
(* every decider that stays registered, and none of them twice.            *)
(***************************************************************************)
EXTENDS DeciderRegistryProofs

(* Two abbreviations that every proof looks through.                       *)
USE DEF SignoToSighandlerMap, Sigaction

-----------------------------------------------------------------------------
(* Lists of nodes.                                                         *)

(* No node is linked twice.                                                *)
Distinct(list) == \A i, j \in 1 .. Len(list) : list[i] = list[j] => i = j

(* x comes before y.                                                       *)
Before(list, x, y) ==
  \E i, j \in 1 .. Len(list) : i < j /\ list[i] = x /\ list[j] = y

(* The members of a list by their positions.                               *)
LEMMA Members ==
  ASSUME NEW S, NEW list \in Seq(S)
  PROVE  /\ Len(list) \in Nat
         /\ \A x : x \in ToSet(list) <=> \E i \in 1 .. Len(list) : list[i] = x
         /\ \A i \in 1 .. Len(list) : list[i] \in S
         /\ ToSet(list) \subseteq S
  BY DEF ToSet

(* A list without members is the empty one, and the converse.              *)
LEMMA EmptyList ==
  ASSUME NEW S, NEW list \in Seq(S)
  PROVE  /\ list = <<>> <=> ToSet(list) = {}
         /\ Distinct(<<>>) /\ ToSet(<<>>) = {}
<1>1. list # <<>> => Len(list) \in Nat \ {0} /\ 1 \in DOMAIN list
  OBVIOUS
<1> QED
  BY <1>1 DEF ToSet, Distinct

(* A list of length zero is the empty one.                                 *)
LEMMA NoLength ==
  ASSUME NEW S, NEW list \in Seq(S), Len(list) = 0
  PROVE  list = <<>>
<1>1. list # <<>> => Len(list) \in Nat \ {0}
  OBVIOUS
<1> QED
  BY <1>1

(* The first member of a list comes before the others.                     *)
LEMMA FirstMember ==
  ASSUME NEW S, NEW list \in Seq(S), list # <<>>
  PROVE  /\ Head(list) \in ToSet(list)
         /\ \A y \in ToSet(list) : y = Head(list) \/ Before(list, Head(list), y)
<1>1. Len(list) \in Nat \ {0} /\ 1 \in 1 .. Len(list) /\ Head(list) = list[1]
  OBVIOUS
<1>2. ASSUME NEW y \in ToSet(list), y # list[1]
      PROVE  Before(list, list[1], y)
  <2>1. PICK i \in 1 .. Len(list) : list[i] = y
    BY Members
  <2>2. i # 1 /\ 1 < i
    BY <1>2, <2>1
  <2> QED
    BY <1>1, <2>1, <2>2 DEF Before
<1> QED
  BY <1>1, <1>2, Members

(* The order of a list without repetitions.                                *)
LEMMA BeforeOrder ==
  ASSUME NEW S, NEW list \in Seq(S), Distinct(list), NEW x, NEW y
  PROVE  /\ Before(list, x, y) => x # y /\ x \in ToSet(list) /\ y \in ToSet(list)
         /\ Before(list, x, y) => ~Before(list, y, x)
         /\ x \in ToSet(list) /\ y \in ToSet(list) /\ x # y =>
              Before(list, x, y) \/ Before(list, y, x)
<1>1. Len(list) \in Nat
  OBVIOUS
<1>2. ASSUME Before(list, x, y)
      PROVE  x # y /\ x \in ToSet(list) /\ y \in ToSet(list) /\ ~Before(list, y, x)
  <2>1. PICK i, j \in 1 .. Len(list) : i < j /\ list[i] = x /\ list[j] = y
    BY <1>2 DEF Before
  <2>2. ASSUME Before(list, y, x) PROVE FALSE
    <3>1. PICK k, l \in 1 .. Len(list) : k < l /\ list[k] = y /\ list[l] = x
      BY <2>2 DEF Before
    <3>2. k = j /\ l = i
      BY <2>1, <3>1 DEF Distinct
    <3> QED
      BY <1>1, <2>1, <3>1, <3>2
  <2>3. x # y
    BY <1>1, <2>1 DEF Distinct
  <2> QED
    BY <2>1, <2>2, <2>3, Members
<1>3. ASSUME x \in ToSet(list), y \in ToSet(list), x # y
      PROVE  Before(list, x, y) \/ Before(list, y, x)
  <2>1. PICK i \in 1 .. Len(list) : list[i] = x
    BY <1>3, Members
  <2>2. PICK j \in 1 .. Len(list) : list[j] = y
    BY <1>3, Members
  <2>3. i < j \/ j < i
    BY <1>1, <1>3, <2>1, <2>2
  <2> QED
    BY <2>1, <2>2, <2>3 DEF Before
<1> QED
  BY <1>2, <1>3

(* LIST_INSERT_BACK.                                                       *)
LEMMA InsertBack ==
  ASSUME NEW S, NEW list \in Seq(S), NEW n \in S, n \notin ToSet(list), Distinct(list)
  PROVE  /\ ToSet(Append(list, n)) = ToSet(list) \cup {n}
         /\ Distinct(Append(list, n))
         /\ \A x, y : Before(Append(list, n), x, y) <=>
                        Before(list, x, y) \/ (x \in ToSet(list) /\ y = n)
<1> DEFINE p == Append(list, n)
           l == Len(list)
<1>1. /\ l \in Nat /\ p \in Seq(S) /\ Len(p) = l + 1 /\ p[l + 1] = n
      /\ \A i \in 1 .. l : p[i] = list[i]
  OBVIOUS
<1>2. /\ \A x : x \in ToSet(p) <=> \E i \in 1 .. l + 1 : p[i] = x
      /\ \A x : x \in ToSet(list) <=> \E i \in 1 .. l : list[i] = x
  BY <1>1, Members, ZenonT(60)
<1>3. \A i \in 1 .. l : list[i] # n
  BY <1>2
<1> HIDE DEF p
<1>4. /\ \A i \in 1 .. l + 1 : i = l + 1 \/ i \in 1 .. l
      /\ l + 1 \in 1 .. l + 1 /\ \A i \in 1 .. l : i \in 1 .. l + 1 /\ i < l + 1
  BY <1>1
<1>5. ToSet(p) = ToSet(list) \cup {n}
  BY <1>1, <1>2, <1>4
<1>6. Distinct(p)
  BY <1>1, <1>3, <1>4 DEF Distinct, l
<1>7. ASSUME NEW x, NEW y, Before(p, x, y)
      PROVE  Before(list, x, y) \/ (x \in ToSet(list) /\ y = n)
  <2>1. PICK i, j \in 1 .. l + 1 : i < j /\ p[i] = x /\ p[j] = y
    BY <1>1, <1>7 DEF Before
  <2>2. i \in 1 .. l
    BY <1>1, <2>1
  <2>3. CASE j = l + 1
    BY <1>1, <1>2, <2>1, <2>2, <2>3
  <2>4. CASE j \in 1 .. l
    BY <1>1, <2>1, <2>2, <2>4 DEF Before, l
  <2> QED
    BY <1>4, <2>3, <2>4
<1>8. ASSUME NEW x, NEW y, Before(list, x, y) PROVE Before(p, x, y)
  BY <1>1, <1>4, <1>8 DEF Before, l
<1>9. ASSUME NEW x, x \in ToSet(list) PROVE Before(p, x, n)
  BY <1>1, <1>2, <1>4, <1>9 DEF Before
<1> QED
  BY <1>5, <1>6, <1>7, <1>8, <1>9 DEF p

(* LIST_INSERT_FRONT.                                                      *)
LEMMA InsertFront ==
  ASSUME NEW S, NEW list \in Seq(S), NEW n \in S, n \notin ToSet(list), Distinct(list)
  PROVE  /\ ToSet(<<n>> \o list) = ToSet(list) \cup {n}
         /\ Distinct(<<n>> \o list)
         /\ \A x, y : Before(<<n>> \o list, x, y) <=>
                        Before(list, x, y) \/ (x = n /\ y \in ToSet(list))
<1> DEFINE p == <<n>> \o list
           l == Len(list)
<1>1. /\ l \in Nat /\ p \in Seq(S) /\ Len(p) = l + 1 /\ p[1] = n
      /\ \A i \in 1 .. l : p[i + 1] = list[i]
  OBVIOUS
<1> HIDE DEF p
<1>2. /\ \A x : x \in ToSet(p) <=> \E i \in 1 .. l + 1 : p[i] = x
      /\ \A x : x \in ToSet(list) <=> \E i \in 1 .. l : list[i] = x
  BY <1>1, Members
<1>3. \A i \in 1 .. l : list[i] # n
  BY <1>2
<1>4. /\ \A i \in 1 .. l + 1 : i = 1 \/ (i - 1 \in 1 .. l /\ i = (i - 1) + 1)
      /\ 1 \in 1 .. l + 1 /\ \A i \in 1 .. l : i + 1 \in 1 .. l + 1 /\ 1 < i + 1
  BY <1>1
<1>5. \A i \in 1 .. l + 1 : i # 1 => p[i] = list[i - 1]
  <2> TAKE i \in 1 .. l + 1
  <2> HAVE i # 1
  <2> DEFINE k == i - 1
  <2>1. k \in 1 .. l /\ i = k + 1
    BY <1>4
  <2> HIDE DEF k
  <2>2. p[i] = list[k]
    BY <1>1, <2>1
  <2> QED
    BY <2>2 DEF k
<1>6. ToSet(p) = ToSet(list) \cup {n}
  <2>1. ASSUME NEW x \in ToSet(p) PROVE x \in ToSet(list) \cup {n}
    BY <1>1, <1>2, <1>4, <1>5
  <2>2. ASSUME NEW x \in ToSet(list) PROVE x \in ToSet(p)
    BY <1>1, <1>2, <1>4
  <2>3. n \in ToSet(p)
    BY <1>1, <1>2, <1>4
  <2> QED
    BY <2>1, <2>2, <2>3
<1>7. Distinct(p)
  <2>1. SUFFICES ASSUME NEW i \in 1 .. l + 1, NEW j \in 1 .. l + 1, p[i] = p[j]
                 PROVE  i = j
    BY <1>1 DEF Distinct
  <2>2. CASE i # 1 /\ j # 1
    <3>1. i - 1 \in 1 .. l /\ j - 1 \in 1 .. l /\ list[i - 1] = list[j - 1]
      BY <1>4, <1>5, <2>1, <2>2
    <3>2. i - 1 = j - 1
      BY <3>1 DEF Distinct, l
    <3> QED
      BY <1>1, <3>2
  <2>3. CASE i # 1 /\ j = 1
    BY <1>1, <1>3, <1>4, <1>5, <2>1, <2>3
  <2>4. CASE i = 1 /\ j # 1
    BY <1>1, <1>3, <1>4, <1>5, <2>1, <2>4
  <2> QED
    BY <2>2, <2>3, <2>4
<1>8. ASSUME NEW x, NEW y, Before(p, x, y)
      PROVE  Before(list, x, y) \/ (x = n /\ y \in ToSet(list))
  <2>1. PICK i, j \in 1 .. l + 1 : i < j /\ p[i] = x /\ p[j] = y
    BY <1>1, <1>8 DEF Before
  <2>2. j # 1 /\ j - 1 \in 1 .. l /\ list[j - 1] = y
    BY <1>1, <1>4, <1>5, <2>1
  <2>3. CASE i = 1
    BY <1>1, <1>2, <2>1, <2>2, <2>3
  <2>4. CASE i # 1
    <3>1. i - 1 \in 1 .. l /\ list[i - 1] = x /\ i - 1 < j - 1
      BY <1>1, <1>4, <1>5, <2>1, <2>4
    <3> QED
      BY <2>2, <3>1 DEF Before, l
  <2> QED
    BY <2>3, <2>4
<1>9. ASSUME NEW x, NEW y, Before(list, x, y) PROVE Before(p, x, y)
  <2>1. PICK i, j \in 1 .. l : i < j /\ list[i] = x /\ list[j] = y
    BY <1>9 DEF Before, l
  <2>2. /\ i + 1 \in 1 .. l + 1 /\ j + 1 \in 1 .. l + 1 /\ i + 1 < j + 1
        /\ p[i + 1] = x /\ p[j + 1] = y
    BY <1>1, <1>4, <2>1
  <2> QED
    BY <1>1, <2>2 DEF Before
<1>10. ASSUME NEW y, y \in ToSet(list) PROVE Before(p, n, y)
  <2>1. PICK j \in 1 .. l : list[j] = y
    BY <1>2, <1>10
  <2>2. j + 1 \in 1 .. l + 1 /\ 1 < j + 1 /\ p[j + 1] = y
    BY <1>1, <1>4, <2>1
  <2> QED
    BY <1>1, <1>4, <2>2 DEF Before
<1> QED
  BY <1>6, <1>7, <1>8, <1>9, <1>10 DEF p

(* LIST_REMOVE.                                                            *)
LEMMA RemoveNode ==
  ASSUME NEW S, NEW list \in Seq(S), NEW n, Distinct(list)
  PROVE  /\ ToSet(LIST_REMOVE(list, n)) = ToSet(list) \ {n}
         /\ Distinct(LIST_REMOVE(list, n))
         /\ \A x, y : Before(LIST_REMOVE(list, n), x, y) <=>
                        Before(list, x, y) /\ x # n /\ y # n
<1>0. CASE n \notin ToSet(list)
  BY <1>0, BeforeOrder DEF LIST_REMOVE, HasDecider
<1> SUFFICES ASSUME n \in ToSet(list)
             PROVE  /\ ToSet(LIST_REMOVE(list, n)) = ToSet(list) \ {n}
                    /\ Distinct(LIST_REMOVE(list, n))
                    /\ \A x, y : Before(LIST_REMOVE(list, n), x, y) <=>
                                   Before(list, x, y) /\ x # n /\ y # n
  BY <1>0
<1> DEFINE k == CHOOSE j \in 1 .. Len(list) : list[j] = n
           l == Len(list)
           p == SubSeq(list, 1, k - 1) \o SubSeq(list, k + 1, l)
<1>1. k \in 1 .. l /\ list[k] = n /\ l \in Nat
  BY Members
<1>2. LIST_REMOVE(list, n) = p
  BY DEF LIST_REMOVE, HasDecider
<1> HIDE DEF k
<1>3. /\ SubSeq(list, 1, k - 1) \in Seq(S) /\ Len(SubSeq(list, 1, k - 1)) = k - 1
      /\ \A i \in 1 .. k - 1 : SubSeq(list, 1, k - 1)[i] = list[i]
  BY <1>1
<1>4. /\ SubSeq(list, k + 1, l) \in Seq(S) /\ Len(SubSeq(list, k + 1, l)) = l - k
      /\ \A i \in 1 .. l - k : SubSeq(list, k + 1, l)[i] = list[i + k]
  BY <1>1
<1> DEFINE u == SubSeq(list, 1, k - 1)
           v == SubSeq(list, k + 1, l)
<1>5. /\ u \in Seq(S) /\ Len(u) = k - 1 /\ v \in Seq(S) /\ Len(v) = l - k
  BY <1>3, <1>4
<1>6. p = u \o v
  OBVIOUS
<1> HIDE DEF u, v, p, l
<1>7. /\ p \in Seq(S) /\ Len(p) = l - 1
      /\ \A i \in 1 .. l - 1 : p[i] = IF i <= k - 1 THEN u[i] ELSE v[i - (k - 1)]
  <2>1. /\ u \o v \in Seq(S) /\ Len(u \o v) = Len(u) + Len(v)
        /\ \A i \in 1 .. Len(u) + Len(v) :
             (u \o v)[i] = IF i <= Len(u) THEN u[i] ELSE v[i - Len(u)]
    BY <1>5, SMTT(30)
  <2>2. Len(u) + Len(v) = l - 1
    BY <1>1, <1>5
  <2> QED
    BY <1>5, <1>6, <2>1, <2>2
<1>8. \A i \in 1 .. l - 1 : p[i] = IF i < k THEN list[i] ELSE list[i + 1]
  <2> TAKE i \in 1 .. l - 1
  <2>1. CASE i < k
    BY <1>1, <1>3, <1>7, <2>1 DEF u
  <2>2. CASE ~(i < k)
    <3> DEFINE j == i - (k - 1)
    <3>1. j \in 1 .. l - k /\ j + k = i + 1 /\ ~(i <= k - 1)
      BY <1>1, <2>2
    <3>2. p[i] = v[j]
      BY <1>7, <3>1
    <3>3. v[j] = list[j + k]
      BY <1>4, <3>1 DEF v
    <3> QED
      BY <2>2, <3>1, <3>2, <3>3
  <2> QED
    BY <2>1, <2>2
<1> DEFINE f(i) == IF i < k THEN i ELSE i + 1
<1>9. /\ \A i \in 1 .. l - 1 : /\ f(i) \in 1 .. l /\ f(i) # k /\ p[i] = list[f(i)]
      /\ \A i, j \in 1 .. l - 1 : i < j <=> f(i) < f(j)
      /\ \A i, j \in 1 .. l - 1 : f(i) = f(j) => i = j
      /\ \A i \in 1 .. l : i # k => \E j \in 1 .. l - 1 : f(j) = i
  <2>1. \A i \in 1 .. l - 1 : /\ f(i) \in 1 .. l /\ f(i) # k /\ p[i] = list[f(i)]
    BY <1>1, <1>8
  <2>2. /\ \A i, j \in 1 .. l - 1 : i < j <=> f(i) < f(j)
        /\ \A i, j \in 1 .. l - 1 : f(i) = f(j) => i = j
    BY <1>1
  <2>3. ASSUME NEW i \in 1 .. l, i # k PROVE \E j \in 1 .. l - 1 : f(j) = i
    <3>1. CASE i < k
      BY <1>1, <2>3, <3>1
    <3>2. CASE i > k
      <4>1. i - 1 \in 1 .. l - 1 /\ f(i - 1) = i
        BY <1>1, <3>2
      <4> QED
        BY <4>1
    <3> QED
      BY <1>1, <2>3, <3>1, <3>2
  <2> QED
    BY <2>1, <2>2, <2>3
<1>10. Len(list) = l /\ \A i \in 1 .. l : list[i] = n => i = k
  BY <1>1 DEF Distinct, l
<1> HIDE DEF f
<1>11. /\ \A x : x \in ToSet(p) <=> \E i \in 1 .. l - 1 : p[i] = x
       /\ \A x : x \in ToSet(list) <=> \E i \in 1 .. l : list[i] = x
  BY <1>7, <1>10, Members
<1>12. ToSet(p) = ToSet(list) \ {n}
  <2>1. ASSUME NEW x \in ToSet(p) PROVE x \in ToSet(list) /\ x # n
    BY <1>9, <1>10, <1>11
  <2>2. ASSUME NEW x \in ToSet(list), x # n PROVE x \in ToSet(p)
    <3>1. PICK i \in 1 .. l : list[i] = x
      BY <1>11
    <3>2. i # k
      BY <1>1, <2>2, <3>1
    <3>3. PICK j \in 1 .. l - 1 : f(j) = i
      BY <1>9, <3>2
    <3> QED
      BY <1>9, <1>11, <3>1, <3>3
  <2> QED
    BY <2>1, <2>2
<1>13. Distinct(p)
  BY <1>7, <1>9, <1>10 DEF Distinct
<1>14. ASSUME NEW x, NEW y, Before(p, x, y)
       PROVE  Before(list, x, y) /\ x # n /\ y # n
  <2>1. PICK i, j \in 1 .. l - 1 : i < j /\ p[i] = x /\ p[j] = y
    BY <1>7, <1>14 DEF Before
  <2>2. /\ f(i) \in 1 .. l /\ f(j) \in 1 .. l /\ f(i) < f(j)
        /\ list[f(i)] = x /\ list[f(j)] = y /\ f(i) # k /\ f(j) # k
    BY <1>9, <2>1
  <2> QED
    BY <1>10, <2>2 DEF Before
<1>15. ASSUME NEW x, NEW y, Before(list, x, y), x # n, y # n
       PROVE  Before(p, x, y)
  <2>1. PICK i, j \in 1 .. l : i < j /\ list[i] = x /\ list[j] = y
    BY <1>10, <1>15 DEF Before
  <2>2. i # k /\ j # k
    BY <1>1, <1>15, <2>1
  <2>3. PICK i2 \in 1 .. l - 1 : f(i2) = i
    BY <1>9, <2>2
  <2>4. PICK j2 \in 1 .. l - 1 : f(j2) = j
    BY <1>9, <2>2
  <2>5. i2 < j2 /\ p[i2] = x /\ p[j2] = y
    BY <1>9, <2>1, <2>3, <2>4
  <2> QED
    BY <1>7, <2>5 DEF Before
<1> QED
  BY <1>2, <1>12, <1>13, <1>14, <1>15

(* current->next.                                                          *)
LEMMA NextNode ==
  ASSUME NEW S, NULL \notin S, NEW list \in Seq(S), NEW n, Distinct(list),
         n \in ToSet(list)
  PROVE  /\ NextIn(list, n) = NULL => \A y : ~Before(list, n, y)
         /\ NextIn(list, n) # NULL =>
              /\ NextIn(list, n) \in ToSet(list) /\ Before(list, n, NextIn(list, n))
              /\ \A y : Before(list, n, y) <=>
                          y = NextIn(list, n) \/ Before(list, NextIn(list, n), y)
<1> DEFINE l == Len(list)
           after == {list[i + 1] : i \in {j \in 1 .. l - 1 : list[j] = n}}
<1>1. l \in Nat /\ \A x : x \in ToSet(list) <=> \E i \in 1 .. l : list[i] = x
  BY Members
<1>2. PICK k \in 1 .. l : list[k] = n
  BY <1>1
<1>3. \A i \in 1 .. l : list[i] = n => i = k
  BY <1>2 DEF Distinct
<1>4. NextIn(list, n) = IF after = {} THEN NULL ELSE CHOOSE m \in after : TRUE
  BY DEF NextIn
<1> HIDE DEF l
<1>5. CASE k = l
  <2>1. after = {}
    BY <1>1, <1>3, <1>5
  <2>2. ASSUME NEW y, Before(list, n, y) PROVE FALSE
    <3>1. PICK i, j \in 1 .. l : i < j /\ list[i] = n /\ list[j] = y
      BY <2>2 DEF Before, l
    <3> QED
      BY <1>1, <1>3, <1>5, <3>1
  <2> QED
    BY <1>4, <2>1, <2>2
<1>6. CASE k # l
  <2>1. k \in 1 .. l - 1 /\ k + 1 \in 1 .. l
    BY <1>1, <1>2, <1>6
  <2>2. after = {list[k + 1]}
    <3>1. list[k + 1] \in after
      BY <1>2, <2>1
    <3>2. ASSUME NEW x \in after PROVE x = list[k + 1]
      <4>1. PICK i \in 1 .. l - 1 : list[i] = n /\ x = list[i + 1]
        OBVIOUS
      <4>2. i \in 1 .. l
        BY <1>1
      <4> QED
        BY <1>3, <4>1, <4>2
    <3> QED
      BY <3>1, <3>2
  <2> DEFINE m == list[k + 1]
  <2>3. NextIn(list, n) = m
    BY <1>4, <2>2
  <2>4. m \in S /\ m # NULL /\ m \in ToSet(list)
    BY <1>1, <2>1, Members DEF l
  <2>5. Before(list, n, m)
    BY <1>1, <1>2, <2>1 DEF Before, l
  <2>6. ASSUME NEW y, Before(list, n, y), y # m PROVE Before(list, m, y)
    <3>1. PICK i, j \in 1 .. l : i < j /\ list[i] = n /\ list[j] = y
      BY <2>6 DEF Before, l
    <3>2. i = k /\ j # k + 1
      BY <1>3, <2>6, <3>1
    <3>3. k + 1 < j
      BY <1>1, <3>1, <3>2
    <3> QED
      BY <2>1, <3>1, <3>3 DEF Before, l
  <2>7. ASSUME NEW y, Before(list, m, y) PROVE Before(list, n, y)
    <3>1. PICK i, j \in 1 .. l : i < j /\ list[i] = m /\ list[j] = y
      BY <2>7 DEF Before, l
    <3>2. i = k + 1
      BY <2>1, <3>1 DEF Distinct, l
    <3>3. k < j
      BY <1>1, <2>1, <3>1, <3>2
    <3> QED
      BY <1>2, <3>1, <3>3 DEF Before, l
  <2> QED
    BY <2>3, <2>4, <2>5, <2>6, <2>7
<1> QED
  BY <1>5, <1>6

-----------------------------------------------------------------------------
(* The nodes of a registry: L and D are the members of global_handler and  *)
(* of deferred_frees by container, O the nodes some handle owns.           *)

PinsOf(cl, n) == {a \in Actors : cl[a].pc = "decider" /\ cl[a].current = n}

(* A linked node is live and has references, a deferred one none.          *)
Placed(live, L, D, nd) ==
  /\ \A c \in Containers : c \notin live => L[c] = {} /\ D[c] = {}
  /\ \A c \in Containers : L[c] \subseteq Nodes /\ D[c] \subseteq Nodes
  /\ \A c \in Containers : \A n \in L[c] : nd[n].state = "live" /\ nd[n].refcount > 0
  /\ \A c \in Containers : \A n \in D[c] : nd[n].state = "live" /\ nd[n].refcount = 0
  /\ \A c, d \in Containers : \A n \in L[c] : n \in L[d] => c = d
  /\ \A c, d \in Containers : \A n \in D[c] : n \in D[d] => c = d

(* A raise is inside the decider of a node linked in its container.        *)
Pinned(L, cl) ==
  \A a \in Actors : cl[a].pc = "decider" =>
    cl[a].item \in Containers /\ cl[a].current \in L[cl[a].item]

(* The count of a node is one for its handle and one for each raise in it, *)
(* and a node without references waits to be freed.                        *)
Referenced(D, nd, O, cl) ==
  /\ \A n \in Nodes : nd[n].state = "live" =>
       /\ nd[n].refcount = Cardinality(PinsOf(cl, n)) + (IF n \in O THEN 1 ELSE 0)
       /\ nd[n].refcount > 0 \/ \E c \in Containers : n \in D[c]
  /\ \A n \in Nodes : n \in O => nd[n].state = "live"

NodeCore(live, L, D, nd, O, cl) ==
  /\ nd \in [Nodes -> Decider]
  /\ Placed(live, L, D, nd) /\ Pinned(L, cl) /\ Referenced(D, nd, O, cl)

(* The pins of a node are finitely many.                                   *)
LEMMA PinsFinite ==
  ASSUME NEW cl, NEW n
  PROVE  /\ IsFiniteSet(PinsOf(cl, n)) /\ Cardinality(PinsOf(cl, n)) \in Nat
         /\ Cardinality(PinsOf(cl, n)) = 0 <=> PinsOf(cl, n) = {}
<1>1. PinsOf(cl, n) \subseteq Actors
  BY DEF PinsOf
<1>2. IsFiniteSet(PinsOf(cl, n))
  BY <1>1, ActorsAssumption, FS_Subset
<1> QED
  BY <1>2, FS_CardinalityType, FS_EmptySet

(* A step of actor a moves at most one pin.                                *)
LEMMA PinsMove ==
  ASSUME NEW cl, NEW cm, NEW a \in Actors, NEW n,
         \A b \in Actors : b # a => cm[b] = cl[b]
  PROVE  /\ (a \in PinsOf(cl, n) <=> a \in PinsOf(cm, n)) =>
              PinsOf(cm, n) = PinsOf(cl, n)
         /\ a \notin PinsOf(cl, n) /\ a \in PinsOf(cm, n) =>
              Cardinality(PinsOf(cm, n)) = Cardinality(PinsOf(cl, n)) + 1
         /\ a \in PinsOf(cl, n) /\ a \notin PinsOf(cm, n) =>
              /\ Cardinality(PinsOf(cm, n)) = Cardinality(PinsOf(cl, n)) - 1
              /\ Cardinality(PinsOf(cl, n)) > 0
<1> DEFINE A == PinsOf(cl, n)
           B == PinsOf(cm, n)
<1>1. \A b : b # a => (b \in A <=> b \in B)
  BY DEF PinsOf
<1>2. /\ IsFiniteSet(A) /\ Cardinality(A) \in Nat /\ (Cardinality(A) = 0 <=> A = {})
      /\ IsFiniteSet(B) /\ Cardinality(B) \in Nat
  BY PinsFinite
<1> HIDE DEF A, B
<1>3. (a \in A <=> a \in B) => A = B
  BY <1>1
<1>4. a \notin A /\ a \in B => B = A \cup {a}
  BY <1>1
<1>5. a \in A /\ a \notin B => B = A \ {a}
  BY <1>1
<1>6. a \notin A /\ a \in B => Cardinality(B) = Cardinality(A) + 1
  BY <1>2, <1>4, FS_AddElement
<1>7. a \in A /\ a \notin B => Cardinality(B) = Cardinality(A) - 1 /\ Cardinality(A) > 0
  BY <1>2, <1>5, FS_RemoveElement
<1> QED
  BY <1>3, <1>6, <1>7 DEF A, B

(* The lists after node n of container c has lost a reference to a raise.  *)
Moved(nd, L, D, L2, D2, c, n) ==
  /\ \A d \in Containers : d # c => L2[d] = L[d] /\ D2[d] = D[d]
  /\ IF nd[n].refcount = 1
     THEN L2[c] = L[c] \ {n} /\ D2[c] = D[c] \cup {n}
     ELSE L2[c] = L[c] /\ D2[c] = D[c]

(* A raise drops its pin; the last reference moves the node from the list  *)
(* to the nodes that wait to be freed.                                     *)
LEMMA CoreUnpin ==
  ASSUME NEW live, NEW L, NEW D, NEW nd, NEW O, NEW cl,
         NodeCore(live, L, D, nd, O, cl),
         NEW L2, NEW D2, NEW nd2 \in [Nodes -> Decider], NEW cl2,
         NEW a \in Actors, NEW c \in live, NEW n,
         cl[a].pc = "decider", cl[a].item = c, cl[a].current = n,
         cl2[a].pc # "decider", \A b \in Actors : b # a => cl2[b] = cl[b],
         nd2[n].refcount = nd[n].refcount - 1, nd2[n].state = nd[n].state,
         \A m \in Nodes : m # n => nd2[m] = nd[m],
         Moved(nd, L, D, L2, D2, c, n)
  PROVE  /\ NodeCore(live, L2, D2, nd2, O, cl2)
         /\ n \in O => nd[n].refcount > 1
<1>m. /\ \A d \in Containers : d # c => L2[d] = L[d] /\ D2[d] = D[d]
      /\ IF nd[n].refcount = 1
         THEN L2[c] = L[c] \ {n} /\ D2[c] = D[c] \cup {n}
         ELSE L2[c] = L[c] /\ D2[c] = D[c]
  BY DEF Moved
<1>1. Placed(live, L, D, nd) /\ Pinned(L, cl) /\ Referenced(D, nd, O, cl)
  BY DEF NodeCore
<1>2. /\ c \in Containers /\ n \in L[c] /\ n \in Nodes /\ nd[n].state = "live"
      /\ nd[n].refcount > 0 /\ nd[n].refcount \in Int
  BY <1>1, NodeType DEF Pinned, Placed, NodeCore
<1>3. \A m : m # n => PinsOf(cl2, m) = PinsOf(cl, m)
  BY PinsMove DEF PinsOf
<1>4. /\ a \in PinsOf(cl, n) /\ a \notin PinsOf(cl2, n)
  BY DEF PinsOf
<1>5. /\ Cardinality(PinsOf(cl2, n)) = Cardinality(PinsOf(cl, n)) - 1
      /\ Cardinality(PinsOf(cl, n)) > 0
      /\ Cardinality(PinsOf(cl, n)) \in Nat /\ Cardinality(PinsOf(cl2, n)) \in Nat
      /\ Cardinality(PinsOf(cl2, n)) = 0 => PinsOf(cl2, n) = {}
  BY <1>4, PinsMove, PinsFinite
<1>6. nd[n].refcount = Cardinality(PinsOf(cl, n)) + (IF n \in O THEN 1 ELSE 0)
  BY <1>1, <1>2 DEF Referenced
<1>7. n \in O => nd[n].refcount > 1
  BY <1>5, <1>6
<1>8. nd[n].refcount = 1 => PinsOf(cl2, n) = {}
  BY <1>5, <1>6
<1>9. Placed(live, L2, D2, nd2)
  <2>1. \A d \in Containers : d \notin live => L2[d] = {} /\ D2[d] = {}
    BY <1>1, <1>m DEF Placed
  <2>2. \A d \in Containers : L2[d] \subseteq Nodes /\ D2[d] \subseteq Nodes
    BY <1>1, <1>2, <1>m DEF Placed
  <2>3. \A d \in Containers : \A m \in L2[d] : m \in L[d] /\ (m = n => nd[n].refcount # 1)
    BY <1>1, <1>2, <1>m DEF Placed
  <2>4. \A d \in Containers : \A m \in D2[d] : m \in D[d] \/ (m = n /\ d = c /\ nd[n].refcount = 1)
    BY <1>1, <1>2, <1>m DEF Placed
  <2>5. \A d \in Containers : n \notin D[d]
    BY <1>1, <1>2 DEF Placed
  <2>6. \A d \in Containers : \A m \in L2[d] : nd2[m].state = "live" /\ nd2[m].refcount > 0
    <3> TAKE d \in Containers
    <3> TAKE m \in L2[d]
    <3>1. m \in L[d] /\ m \in Nodes
      BY <2>2, <2>3
    <3>2. CASE m = n
      BY <1>2, <2>3, <3>2
    <3>3. CASE m # n
      BY <1>1, <3>1, <3>3 DEF Placed
    <3> QED
      BY <3>2, <3>3
  <2>7. \A d \in Containers : \A m \in D2[d] : nd2[m].state = "live" /\ nd2[m].refcount = 0
    <3> TAKE d \in Containers
    <3> TAKE m \in D2[d]
    <3>1. CASE m = n
      BY <1>2, <2>4, <2>5, <3>1
    <3>2. CASE m # n
      BY <1>1, <2>2, <2>4, <3>2 DEF Placed
    <3> QED
      BY <3>1, <3>2
  <2>8. \A d, e \in Containers : \A m \in L2[d] : m \in L2[e] => d = e
    BY <1>1, <2>3 DEF Placed
  <2>9. \A d, e \in Containers : \A m \in D2[d] : m \in D2[e] => d = e
    BY <1>1, <2>4, <2>5 DEF Placed
  <2> QED
    BY <2>1, <2>2, <2>6, <2>7, <2>8, <2>9 DEF Placed
<1>10. Pinned(L2, cl2)
  <2> SUFFICES ASSUME NEW b \in Actors, cl2[b].pc = "decider"
               PROVE  cl2[b].item \in Containers /\ cl2[b].current \in L2[cl2[b].item]
    BY DEF Pinned
  <2>1. b # a /\ cl2[b] = cl[b] /\ cl[b].item \in Containers
        /\ cl[b].current \in L[cl[b].item]
    BY <1>1 DEF Pinned
  <2>2. CASE cl[b].current = n
    <3>1. b \in PinsOf(cl2, n)
      BY <2>1, <2>2 DEF PinsOf
    <3> QED
      BY <1>8, <2>1, <3>1, <1>m
  <2> QED
    BY <1>m, <2>1, <2>2
<1>11. Referenced(D2, nd2, O, cl2)
  <2>1. ASSUME NEW m \in Nodes, nd2[m].state = "live"
        PROVE  /\ nd2[m].refcount = Cardinality(PinsOf(cl2, m)) + (IF m \in O THEN 1 ELSE 0)
               /\ nd2[m].refcount > 0 \/ \E d \in Containers : m \in D2[d]
    <3>1. CASE m = n
      BY <1>2, <1>5, <1>6, <3>1, <1>m
    <3>2. CASE m # n
      BY <1>1, <1>m, <1>2, <1>3, <2>1, <3>2 DEF Referenced
    <3> QED
      BY <3>1, <3>2
  <2>2. \A m \in Nodes : m \in O => nd2[m].state = "live"
    BY <1>1, <1>2 DEF Referenced
  <2> QED
    BY <2>1, <2>2 DEF Referenced
<1> QED
  BY <1>7, <1>9, <1>10, <1>11 DEF NodeCore

(* A raise pins a linked node.                                             *)
LEMMA CorePin ==
  ASSUME NEW live, NEW L, NEW D, NEW nd, NEW O, NEW cl,
         NodeCore(live, L, D, nd, O, cl),
         NEW nd2 \in [Nodes -> Decider], NEW cl2,
         NEW a \in Actors, NEW c \in Containers, NEW n \in L[c],
         cl[a].pc # "decider",
         cl2[a].pc = "decider", cl2[a].item = c, cl2[a].current = n,
         \A b \in Actors : b # a => cl2[b] = cl[b],
         nd2[n].refcount = nd[n].refcount + 1, nd2[n].state = nd[n].state,
         \A m \in Nodes : m # n => nd2[m] = nd[m]
  PROVE  NodeCore(live, L, D, nd2, O, cl2)
<1>1. Placed(live, L, D, nd) /\ Pinned(L, cl) /\ Referenced(D, nd, O, cl)
  BY DEF NodeCore
<1>2. /\ n \in Nodes /\ nd[n].state = "live"
      /\ nd[n].refcount > 0 /\ nd[n].refcount \in Int
  BY <1>1, NodeType DEF Placed, NodeCore
<1>3. \A m : m # n => PinsOf(cl2, m) = PinsOf(cl, m)
  BY PinsMove DEF PinsOf
<1>4. a \notin PinsOf(cl, n) /\ a \in PinsOf(cl2, n)
  BY DEF PinsOf
<1>5. /\ Cardinality(PinsOf(cl2, n)) = Cardinality(PinsOf(cl, n)) + 1
      /\ Cardinality(PinsOf(cl, n)) \in Nat
  BY <1>4, PinsMove, PinsFinite
<1>6. Placed(live, L, D, nd2)
  <2>1. \A d \in Containers : n \notin D[d]
    BY <1>1, <1>2 DEF Placed
  <2> QED
    BY <1>1, <1>2, <2>1 DEF Placed
<1>7. Pinned(L, cl2)
  BY <1>1 DEF Pinned
<1>8. Referenced(D, nd2, O, cl2)
  BY <1>1, <1>2, <1>3, <1>5 DEF Referenced
<1> QED
  BY <1>6, <1>7, <1>8 DEF NodeCore

(* The deferred nodes of a container are freed.                            *)
LEMMA CoreDrain ==
  ASSUME NEW live, NEW L, NEW D, NEW nd, NEW O, NEW cl,
         NodeCore(live, L, D, nd, O, cl),
         NEW D2, NEW nd2 \in [Nodes -> Decider], NEW c \in Containers, D2[c] = {},
         \A d \in Containers : d # c => D2[d] = D[d],
         \A m \in Nodes : IF m \in D[c] THEN nd2[m].state = "freed" ELSE nd2[m] = nd[m]
  PROVE  NodeCore(live, L, D2, nd2, O, cl)
<1>1. Placed(live, L, D, nd) /\ Pinned(L, cl) /\ Referenced(D, nd, O, cl)
  BY DEF NodeCore
<1>2. \A d \in Containers : \A m \in L[d] : m \in Nodes /\ m \notin D[c]
  BY <1>1 DEF Placed
<1>3. \A d \in Containers : \A m \in D2[d] : m \in D[d] /\ m \in Nodes /\ m \notin D[c]
  BY <1>1 DEF Placed
<1>4. Placed(live, L, D2, nd2)
  BY <1>1, <1>2, <1>3 DEF Placed
<1>5. Referenced(D2, nd2, O, cl)
  <2>1. \A m \in Nodes : m \in O => m \notin D[c]
    <3> SUFFICES ASSUME NEW m \in Nodes, m \in O, m \in D[c] PROVE FALSE
      OBVIOUS
    <3>1. nd[m].state = "live" /\ nd[m].refcount = 0
      BY <1>1 DEF Placed
    <3>2. nd[m].refcount = Cardinality(PinsOf(cl, m)) + 1 /\ Cardinality(PinsOf(cl, m)) \in Nat
      BY <1>1, <3>1, PinsFinite DEF Referenced
    <3> QED
      BY <3>1, <3>2
  <2>2. ASSUME NEW m \in Nodes, nd2[m].state = "live"
        PROVE  /\ nd2[m].refcount = Cardinality(PinsOf(cl, m)) + (IF m \in O THEN 1 ELSE 0)
               /\ nd2[m].refcount > 0 \/ \E d \in Containers : m \in D2[d]
    <3>1. m \notin D[c] /\ nd2[m] = nd[m]
      BY <2>2
    <3> QED
      BY <1>1, <2>2, <3>1 DEF Referenced
  <2> QED
    BY <1>1, <2>1, <2>2 DEF Referenced
<1> QED
  BY <1>1, <1>4, <1>5 DEF NodeCore

(* A container without deferred nodes and without raises is freed.         *)
LEMMA CoreClear ==
  ASSUME NEW live, NEW L, NEW D, NEW nd, NEW O, NEW cl,
         NodeCore(live, L, D, nd, O, cl),
         NEW live2, NEW L2, NEW c \in Containers, L2[c] = {}, D[c] = {},
         \A d \in Containers : d # c => L2[d] = L[d],
         \A d \in Containers : d # c /\ d \in live => d \in live2,
         \A a \in Actors : cl[a].pc = "decider" => cl[a].item # c
  PROVE  NodeCore(live2, L2, D, nd, O, cl)
<1>1. Placed(live, L, D, nd) /\ Pinned(L, cl) /\ Referenced(D, nd, O, cl)
  BY DEF NodeCore
<1>2. Placed(live2, L2, D, nd)
  BY <1>1 DEF Placed
<1>3. Pinned(L2, cl)
  BY <1>1 DEF Pinned
<1> QED
  BY <1>1, <1>2, <1>3 DEF NodeCore

(* Node n loses the reference of its handle.                               *)
Dropped(nd, L, nd2, L2, n) ==
  /\ nd2[n].refcount = nd[n].refcount - 1
  /\ nd2[n].state = IF nd[n].refcount = 1 THEN "freed" ELSE nd[n].state
  /\ \A m \in Nodes : m # n => nd2[m] = nd[m]
  /\ \A d \in Containers : L2[d] = IF nd[n].refcount = 1 THEN L[d] \ {n} ELSE L[d]

(* A handle gives up a node: the last reference unlinks and frees it.      *)
LEMMA CoreDisown ==
  ASSUME NEW live, NEW L, NEW D, NEW nd, NEW O, NEW cl,
         NodeCore(live, L, D, nd, O, cl),
         NEW L2, NEW O2, NEW nd2 \in [Nodes -> Decider], NEW n \in Nodes, n \in O,
         \A m \in Nodes : m \in O2 <=> m \in O /\ m # n,
         Dropped(nd, L, nd2, L2, n)
  PROVE  NodeCore(live, L2, D, nd2, O2, cl)
<1> SUFFICES ASSUME nd2[n].refcount = nd[n].refcount - 1,
                    nd2[n].state = IF nd[n].refcount = 1 THEN "freed" ELSE nd[n].state,
                    \A m \in Nodes : m # n => nd2[m] = nd[m],
                    \A d \in Containers :
                      L2[d] = IF nd[n].refcount = 1 THEN L[d] \ {n} ELSE L[d]
             PROVE  NodeCore(live, L2, D, nd2, O2, cl)
  BY DEF Dropped
<1>1. Placed(live, L, D, nd) /\ Pinned(L, cl) /\ Referenced(D, nd, O, cl)
  BY DEF NodeCore
<1>2. /\ nd[n].state = "live" /\ nd[n].refcount \in Int
      /\ nd[n].refcount = Cardinality(PinsOf(cl, n)) + 1
      /\ Cardinality(PinsOf(cl, n)) \in Nat
      /\ Cardinality(PinsOf(cl, n)) = 0 => PinsOf(cl, n) = {}
  BY <1>1, NodeType, PinsFinite DEF Referenced, NodeCore
<1>3. \A d \in Containers : n \notin D[d]
  BY <1>1, <1>2 DEF Placed
<1>l. \A d \in Containers :
        /\ L2[d] \subseteq L[d]
        /\ \A m \in L2[d] : m = n => nd[n].refcount # 1
        /\ \A m \in L[d] : m # n \/ nd[n].refcount # 1 => m \in L2[d]
  <2>1. CASE nd[n].refcount = 1
    <3>1. \A d \in Containers : L2[d] = L[d] \ {n}
      BY <2>1
    <3> QED
      BY <2>1, <3>1
  <2>2. CASE nd[n].refcount # 1
    <3>1. \A d \in Containers : L2[d] = L[d]
      BY <2>2
    <3> QED
      BY <2>2, <3>1
  <2> QED
    BY <2>1, <2>2
<1>4. Placed(live, L2, D, nd2)
  <2>1. \A d \in Containers : \A m \in L2[d] : m \in L[d] /\ m \in Nodes
                                              /\ (m = n => nd[n].refcount # 1)
    BY <1>1, <1>l DEF Placed
  <2>2. \A d \in Containers : \A m \in L2[d] : nd2[m].state = "live" /\ nd2[m].refcount > 0
    <3> TAKE d \in Containers
    <3> TAKE m \in L2[d]
    <3>1. CASE m = n
      BY <1>2, <2>1, <3>1
    <3>2. CASE m # n
      BY <1>1, <2>1, <3>2 DEF Placed
    <3> QED
      BY <3>1, <3>2
  <2>3. \A d \in Containers : \A m \in D[d] : nd2[m].state = "live" /\ nd2[m].refcount = 0
    BY <1>1, <1>3 DEF Placed
  <2>4. \A d \in Containers : d \notin live => L2[d] = {} /\ D[d] = {}
    BY <1>1 DEF Placed
  <2>5. \A d \in Containers : L2[d] \subseteq Nodes /\ D[d] \subseteq Nodes
    BY <1>1, <2>1 DEF Placed
  <2>6. /\ \A d, e \in Containers : \A m \in L2[d] : m \in L2[e] => d = e
        /\ \A d, e \in Containers : \A m \in D[d] : m \in D[e] => d = e
    BY <1>1, <2>1 DEF Placed
  <2> QED
    BY <2>2, <2>3, <2>4, <2>5, <2>6 DEF Placed
<1>5. Pinned(L2, cl)
  <2> SUFFICES ASSUME NEW b \in Actors, cl[b].pc = "decider"
               PROVE  cl[b].item \in Containers /\ cl[b].current \in L2[cl[b].item]
    BY DEF Pinned
  <2>1. cl[b].item \in Containers /\ cl[b].current \in L[cl[b].item]
    BY <1>1 DEF Pinned
  <2>2. CASE cl[b].current = n
    <3>1. b \in PinsOf(cl, n)
      BY <2>2 DEF PinsOf
    <3>2. nd[n].refcount # 1
      BY <1>2, <3>1
    <3> QED
      BY <1>l, <2>1, <3>2
  <2>3. CASE cl[b].current # n
    BY <1>l, <2>1, <2>3
  <2> QED
    BY <2>1, <2>2, <2>3
<1>6. Referenced(D, nd2, O2, cl)
  <2>1. ASSUME NEW m \in Nodes, nd2[m].state = "live"
        PROVE  /\ nd2[m].refcount = Cardinality(PinsOf(cl, m)) + (IF m \in O2 THEN 1 ELSE 0)
               /\ nd2[m].refcount > 0 \/ \E d \in Containers : m \in D[d]
    <3>1. CASE m = n
      BY <1>2, <2>1, <3>1
    <3>2. CASE m # n
      BY <1>1, <2>1, <3>2 DEF Referenced
    <3> QED
      BY <3>1, <3>2
  <2>2. \A m \in Nodes : m \in O2 => nd2[m].state = "live"
    BY <1>1 DEF Referenced
  <2> QED
    BY <2>1, <2>2 DEF Referenced
<1> QED
  BY <1>4, <1>5, <1>6 DEF NodeCore

(* A handle gets a new node, linked in a container.                        *)
LEMMA CoreNew ==
  ASSUME NEW live, NEW L, NEW D, NEW nd, NEW O, NEW cl,
         NodeCore(live, L, D, nd, O, cl),
         NEW L2, NEW O2, NEW nd2 \in [Nodes -> Decider], NEW n \in Nodes,
         NEW c \in Containers, c \in live, nd[n].state = "unused",
         \A m \in Nodes : m \in O2 <=> m \in O \/ m = n,
         nd2[n].refcount = 1, nd2[n].state = "live",
         \A m \in Nodes : m # n => nd2[m] = nd[m],
         L2[c] = L[c] \cup {n}, \A d \in Containers : d # c => L2[d] = L[d]
  PROVE  NodeCore(live, L2, D, nd2, O2, cl)
<1>1. Placed(live, L, D, nd) /\ Pinned(L, cl) /\ Referenced(D, nd, O, cl)
  BY DEF NodeCore
<1>2. \A d \in Containers : n \notin L[d] /\ n \notin D[d]
  BY <1>1 DEF Placed
<1>3. PinsOf(cl, n) = {} /\ Cardinality(PinsOf(cl, n)) = 0
  <2>1. PinsOf(cl, n) = {}
    BY <1>1, <1>2 DEF PinsOf, Pinned
  <2> QED
    BY <2>1, PinsFinite
<1>4. Placed(live, L2, D, nd2)
  <2>1. \A d \in Containers : \A m \in L2[d] : m \in L[d] \/ (m = n /\ d = c)
    OBVIOUS
  <2>2. \A d \in Containers : \A m \in L2[d] : m \in Nodes /\ nd2[m].state = "live" /\ nd2[m].refcount > 0
    BY <1>1, <1>2, <2>1 DEF Placed
  <2>3. \A d \in Containers : \A m \in D[d] : nd2[m].state = "live" /\ nd2[m].refcount = 0
    BY <1>1, <1>2 DEF Placed
  <2>4. \A d \in Containers : d \notin live => L2[d] = {} /\ D[d] = {}
    BY <1>1 DEF Placed
  <2>5. \A d \in Containers : L2[d] \subseteq Nodes /\ D[d] \subseteq Nodes
    BY <1>1, <2>2 DEF Placed
  <2>6. /\ \A d, e \in Containers : \A m \in L2[d] : m \in L2[e] => d = e
        /\ \A d, e \in Containers : \A m \in D[d] : m \in D[e] => d = e
    BY <1>1, <1>2, <2>1 DEF Placed
  <2> QED
    BY <2>2, <2>3, <2>4, <2>5, <2>6 DEF Placed
<1>5. Pinned(L2, cl)
  BY <1>1 DEF Pinned
<1>6. Referenced(D, nd2, O2, cl)
  <2>1. n \notin O
    BY <1>1 DEF Referenced
  <2>2. ASSUME NEW m \in Nodes, nd2[m].state = "live"
        PROVE  /\ nd2[m].refcount = Cardinality(PinsOf(cl, m)) + (IF m \in O2 THEN 1 ELSE 0)
               /\ nd2[m].refcount > 0 \/ \E d \in Containers : m \in D[d]
    <3>1. CASE m = n
      BY <1>3, <3>1
    <3>2. CASE m # n
      BY <1>1, <2>2, <3>2 DEF Referenced
    <3> QED
      BY <3>1, <3>2
  <2>3. \A m \in Nodes : m \in O2 => nd2[m].state = "live"
    BY <1>1 DEF Referenced
  <2> QED
    BY <2>2, <2>3 DEF Referenced
<1> QED
  BY <1>4, <1>5, <1>6 DEF NodeCore

(* Steps that leave the nodes and the lists alone.                         *)
LEMMA CoreKept ==
  ASSUME NEW live, NEW L, NEW D, NEW nd, NEW O, NEW cl,
         NodeCore(live, L, D, nd, O, cl),
         NEW live2, NEW L2, NEW D2, NEW O2, NEW cl2, NEW a \in Actors,
         \A c \in Containers : L2[c] = L[c] /\ D2[c] = D[c],
         \A c \in Containers : c \notin live2 => L[c] = {} /\ D[c] = {},
         \A m \in Nodes : m \in O2 <=> m \in O,
         \A b \in Actors : b # a => cl2[b] = cl[b],
         \/ cl[a].pc # "decider" /\ cl2[a].pc # "decider"
         \/ cl2[a] = cl[a]
  PROVE  NodeCore(live2, L2, D2, nd, O2, cl2)
<1>1. Placed(live, L, D, nd) /\ Pinned(L, cl) /\ Referenced(D, nd, O, cl)
  BY DEF NodeCore
<1>2. \A m : PinsOf(cl2, m) = PinsOf(cl, m)
  BY PinsMove DEF PinsOf
<1>3. Placed(live2, L2, D2, nd)
  BY <1>1 DEF Placed
<1>4. Pinned(L2, cl2)
  BY <1>1 DEF Pinned
<1>5. Referenced(D2, nd, O2, cl2)
  BY <1>1, <1>2 DEF Referenced
<1> QED
  BY <1>3, <1>4, <1>5 DEF NodeCore

-----------------------------------------------------------------------------
(* The slots of a decider handle and the signals they are of.              *)

(* q holds, in order, the signals of the slots sl: the first ones of the   *)
(* signals P that the handle guards and that are still to be destroyed.    *)
Aligned(sl, P, q) ==
  /\ q \in Seq(Signals) /\ Len(q) = Len(sl)
  /\ \A i, j \in 1 .. Len(q) : i < j => q[i] < q[j]
  /\ \A i \in 1 .. Len(q) : q[i] \in P
  /\ \A r \in P : \/ \E i \in 1 .. Len(q) : q[i] = r
                  \/ \A i \in 1 .. Len(q) : q[i] < r

(* A handle without slots has none to align.                               *)
LEMMA AlignedEmpty ==
  ASSUME NEW P
  PROVE  Aligned(<<>>, P, <<>>)
  BY DEF Aligned

(* The first slot is the one of the least signal that is left.             *)
LEMMA AlignedFirst ==
  ASSUME NEW S, NEW sl \in Seq(S), sl # <<>>, NEW P \in SUBSET Signals, NEW q,
         Aligned(sl, P, q), NEW s \in P, \A t \in P : s <= t
  PROVE  q[1] = s
<1> DEFINE l == Len(sl)
<1>1. l \in Nat /\ l > 0 /\ 1 \in 1 .. l /\ q \in Seq(Signals) /\ Len(q) = l
  BY DEF Aligned
<1>2. /\ \A i, j \in 1 .. l : i < j => q[i] < q[j]
      /\ \A i \in 1 .. l : q[i] \in P
      /\ \A r \in P : (\E i \in 1 .. l : q[i] = r) \/ \A i \in 1 .. l : q[i] < r
  BY <1>1 DEF Aligned
<1> HIDE DEF l
<1>3. q[1] \in P
  BY <1>1, <1>2
<1>4. P \subseteq Nat
  BY SignalsAssumption
<1>5. q[1] \in Nat /\ s \in Nat /\ s <= q[1]
  BY <1>3, <1>4
<1>6. CASE \E i \in 1 .. l : q[i] = s
  <2>1. PICK i \in 1 .. l : q[i] = s
    BY <1>6
  <2>2. i # 1 => q[1] < q[i]
    BY <1>1, <1>2
  <2> QED
    BY <1>5, <2>1, <2>2
<1>7. CASE \A i \in 1 .. l : q[i] < s
  <2>1. q[1] < s
    BY <1>1, <1>7
  <2> QED
    BY <1>5, <2>1
<1> QED
  BY <1>2, <1>6, <1>7

(* The destroy loop pops the slot of the least signal that is left.        *)
LEMMA AlignedPop ==
  ASSUME NEW S, NEW sl \in Seq(S), sl # <<>>, NEW P \in SUBSET Signals, NEW q,
         Aligned(sl, P, q), NEW s \in P, \A t \in P : s <= t
  PROVE  /\ Aligned(Tail(sl), P \ {s}, Tail(q))
         /\ \A i \in 1 .. Len(Tail(sl)) : /\ i + 1 \in 1 .. Len(sl)
                                          /\ Tail(sl)[i] = sl[i + 1]
                                          /\ Tail(q)[i] = q[i + 1]
         /\ P = {s} => Len(Tail(sl)) = 0
<1> DEFINE l == Len(sl)
<1>1. l \in Nat /\ l > 0 /\ 1 \in 1 .. l /\ q \in Seq(Signals) /\ Len(q) = l /\ q # <<>>
  BY DEF Aligned
<1>2. /\ Tail(sl) \in Seq(S) /\ Len(Tail(sl)) = l - 1
      /\ \A i \in 1 .. l - 1 : Tail(sl)[i] = sl[i + 1]
  BY <1>1
<1>3. /\ Tail(q) \in Seq(Signals) /\ Len(Tail(q)) = l - 1
      /\ \A i \in 1 .. l - 1 : Tail(q)[i] = q[i + 1]
  BY <1>1
<1>4. /\ \A i, j \in 1 .. l : i < j => q[i] < q[j]
      /\ \A i \in 1 .. l : q[i] \in P
      /\ \A r \in P : (\E i \in 1 .. l : q[i] = r) \/ \A i \in 1 .. l : q[i] < r
  BY <1>1 DEF Aligned
<1>n. P \subseteq Nat
  BY SignalsAssumption
<1> HIDE DEF l
<1>5. q[1] = s
  BY AlignedFirst
<1>6. \A i \in 1 .. l - 1 : i + 1 \in 1 .. l /\ 1 < i + 1
  BY <1>1
<1>7. \A i \in 1 .. l - 1 : Tail(q)[i] \in P \ {s}
  <2> TAKE i \in 1 .. l - 1
  <2>1. q[1] < q[i + 1] /\ q[i + 1] \in P
    BY <1>1, <1>4, <1>6
  <2> QED
    BY <1>3, <1>5, <1>n, <2>1
<1>8. \A i, j \in 1 .. l - 1 : i < j => Tail(q)[i] < Tail(q)[j]
  <2> TAKE i, j \in 1 .. l - 1
  <2> HAVE i < j
  <2>1. i + 1 < j + 1
    BY <1>1
  <2> QED
    BY <1>3, <1>4, <1>6, <2>1
<1>9. ASSUME NEW r \in P \ {s}
      PROVE  (\E i \in 1 .. l - 1 : Tail(q)[i] = r) \/ \A i \in 1 .. l - 1 : Tail(q)[i] < r
  <2>1. CASE \E i \in 1 .. l : q[i] = r
    <3>1. PICK i \in 1 .. l : q[i] = r
      BY <2>1
    <3>2. i # 1
      BY <1>5, <3>1
    <3> DEFINE j == i - 1
    <3>3. j \in 1 .. l - 1 /\ j + 1 = i
      BY <1>1, <3>2
    <3> HIDE DEF j
    <3> QED
      BY <1>3, <3>1, <3>3
  <2>2. CASE \A i \in 1 .. l : q[i] < r
    BY <1>3, <1>6, <2>2
  <2> QED
    BY <1>4, <2>1, <2>2
<1>10. Aligned(Tail(sl), P \ {s}, Tail(q))
  BY <1>2, <1>3, <1>7, <1>8, <1>9 DEF Aligned
<1>11. P = {s} => l = 1
  <2> SUFFICES ASSUME P = {s}, l # 1 PROVE FALSE
    OBVIOUS
  <2>1. 2 \in 1 .. l /\ q[2] \in P /\ q[1] < q[2]
    BY <1>1, <1>4
  <2> QED
    BY <1>5, <1>n, <2>1
<1>12. P = {s} => Len(Tail(sl)) = 0
  BY <1>1, <1>2, <1>11
<1> QED
  BY <1>2, <1>3, <1>6, <1>10, <1>12 DEF l

(* The create loop appends the slot of the next signal.                    *)
LEMMA AlignedPush ==
  ASSUME NEW S, NEW sl \in Seq(S), NEW P \in SUBSET Signals, NEW q, Aligned(sl, P, q),
         NEW p \in S, NEW s \in P, \A i \in 1 .. Len(q) : q[i] # s,
         \A r \in P : r < s => \E i \in 1 .. Len(q) : q[i] = r
  PROVE  /\ Aligned(Append(sl, p), P, Append(q, s))
         /\ Len(Append(sl, p)) = Len(sl) + 1 /\ Len(sl) \in Nat
         /\ Len(Append(q, s)) = Len(sl) + 1 /\ Len(q) = Len(sl)
         /\ Append(sl, p)[Len(sl) + 1] = p /\ Append(q, s)[Len(sl) + 1] = s
         /\ \A i \in 1 .. Len(sl) : /\ Append(sl, p)[i] = sl[i]
                                    /\ Append(q, s)[i] = q[i]
<1> DEFINE l == Len(sl)
           u == Append(q, s)
<1>1. l \in Nat /\ q \in Seq(Signals) /\ Len(q) = l
  BY DEF Aligned
<1>2. /\ Append(sl, p) \in Seq(S) /\ Len(Append(sl, p)) = l + 1
      /\ Append(sl, p)[l + 1] = p /\ \A i \in 1 .. l : Append(sl, p)[i] = sl[i]
  BY <1>1
<1>3. /\ u \in Seq(Signals) /\ Len(u) = l + 1
      /\ u[l + 1] = s /\ \A i \in 1 .. l : u[i] = q[i]
  BY <1>1
<1>4. /\ \A i, j \in 1 .. l : i < j => q[i] < q[j]
      /\ \A i \in 1 .. l : q[i] \in P
      /\ \A r \in P : (\E i \in 1 .. l : q[i] = r) \/ \A i \in 1 .. l : q[i] < r
  BY <1>1 DEF Aligned
<1>n. P \subseteq Nat
  BY SignalsAssumption
<1>5. \A i \in 1 .. l : q[i] < s
  BY <1>1, <1>4
<1> HIDE DEF l, u
<1>6. \A i \in 1 .. l + 1 : i \in 1 .. l \/ i = l + 1
  BY <1>1
<1>7. \A i, j \in 1 .. l + 1 : i < j => u[i] < u[j]
  <2> TAKE i, j \in 1 .. l + 1
  <2> HAVE i < j
  <2>1. i \in 1 .. l
    BY <1>1
  <2>2. CASE j \in 1 .. l
    BY <1>3, <1>4, <2>1, <2>2
  <2>3. CASE j = l + 1
    BY <1>3, <1>5, <2>1, <2>3
  <2> QED
    BY <1>6, <2>2, <2>3
<1>8. \A i \in 1 .. l + 1 : u[i] \in P
  BY <1>3, <1>4, <1>6
<1>9. ASSUME NEW r \in P
      PROVE  (\E i \in 1 .. l + 1 : u[i] = r) \/ \A i \in 1 .. l + 1 : u[i] < r
  <2>1. CASE \E i \in 1 .. l : q[i] = r
    <3>1. PICK i \in 1 .. l : q[i] = r
      BY <2>1
    <3>2. i \in 1 .. l + 1 /\ u[i] = r
      BY <1>1, <1>3, <3>1
    <3> QED
      BY <3>2
  <2>2. CASE r = s
    <3>1. l + 1 \in 1 .. l + 1
      BY <1>1
    <3> QED
      BY <1>3, <2>2, <3>1
  <2>3. CASE r # s /\ ~(\E i \in 1 .. l : q[i] = r)
    <3>1. ~(r < s)
      BY <1>1, <2>3
    <3>2. s < r
      BY <1>n, <2>3, <3>1
    <3>3. \A i \in 1 .. l : q[i] < r
      BY <1>4, <2>3
    <3> QED
      BY <1>3, <1>6, <3>2, <3>3
  <2> QED
    BY <2>1, <2>2, <2>3
<1>10. Aligned(Append(sl, p), P, u)
  BY <1>2, <1>3, <1>7, <1>8, <1>9 DEF Aligned
<1> QED
  BY <1>1, <1>2, <1>3, <1>10 DEF l, u

DestroyPCs == {"destroying", "orphan_load", "orphan_store"}

(* The guarded signals of h whose slots a destroy in progress has left.    *)
PendingOf(dh, cl, h) ==
  {s \in dh[h].guarded :
     \A a \in Actors : cl[a].pc \in DestroyPCs /\ cl[a].h = h => s \in cl[a].todo}

(* A call that creates or destroys a handle has it for itself, and the     *)
(* slots of each handle are aligned with its signals.                      *)
Exclusive(dh, cl) ==
  /\ \A a \in Actors : cl[a].pc \in DeciderPCs =>
       cl[a].h \in DeciderHandles /\ dh[cl[a].h].state = "busy"
  /\ \A a, b \in Actors : cl[a].pc \in DeciderPCs /\ cl[b].pc \in DeciderPCs
       /\ cl[a].h = cl[b].h => a = b

(* The create loop has filled the slots of the signals it has visited.     *)
Filling(dh, cl, q) ==
  \A a \in Actors : cl[a].pc = "creating" =>
    /\ cl[a].todo \subseteq dh[cl[a].h].guarded
    /\ \A r \in dh[cl[a].h].guarded :
         r \in cl[a].todo \/ \E i \in 1 .. Len(q[cl[a].h]) : q[cl[a].h][i] = r
    /\ \A i \in 1 .. Len(q[cl[a].h]) : q[cl[a].h][i] \notin cl[a].todo

HandleCore(dh, cl, q) ==
  /\ Exclusive(dh, cl) /\ Filling(dh, cl, q)
  /\ \A h \in DeciderHandles : dh[h].state = "unused" => dh[h].slots = <<>>
  /\ \A h \in DeciderHandles : Aligned(dh[h].slots, PendingOf(dh, cl, h), q[h])

(* What is pending of a handle that the step of actor a does not touch.    *)
LEMMA PendingKept ==
  ASSUME NEW dh, NEW dm, NEW cl, NEW cm, NEW a \in Actors, NEW h,
         dm[h].guarded = dh[h].guarded, \A b \in Actors : b # a => cm[b] = cl[b],
         cl[a].pc \in DestroyPCs => cl[a].h # h,
         cm[a].pc \in DestroyPCs => cm[a].h # h
  PROVE  PendingOf(dm, cm, h) = PendingOf(dh, cl, h)
  BY DEF PendingOf

(* What is pending of a handle in the hands of actor a.                    *)
LEMMA PendingMine ==
  ASSUME NEW dh, NEW cl, NEW a \in Actors, Exclusive(dh, cl),
         cl[a].pc \in DeciderPCs
  PROVE  /\ cl[a].pc = "creating" =>
              PendingOf(dh, cl, cl[a].h) = dh[cl[a].h].guarded
         /\ cl[a].pc \in DestroyPCs =>
              PendingOf(dh, cl, cl[a].h) = {s \in dh[cl[a].h].guarded : s \in cl[a].todo}
<1>1. \A b \in Actors : cl[b].pc \in DestroyPCs /\ cl[b].h = cl[a].h => b = a
  BY DEF Exclusive, DestroyPCs, DeciderPCs
<1>2. "creating" \notin DestroyPCs
  BY DEF DestroyPCs
<1> QED
  BY <1>1, <1>2 DEF PendingOf

(* What is pending of a handle nobody is working on.                       *)
LEMMA PendingFree ==
  ASSUME NEW dh, NEW cl, NEW h, Exclusive(dh, cl), dh[h].state # "busy"
  PROVE  PendingOf(dh, cl, h) = dh[h].guarded
<1>1. \A b \in Actors : cl[b].pc \in DestroyPCs => cl[b].h # h
  BY DEF Exclusive, DestroyPCs, DeciderPCs
<1> QED
  BY <1>1 DEF PendingOf

(* Steps that do not touch the handles.                                    *)
LEMMA HandleKept ==
  ASSUME NEW dh, NEW cl, NEW q, HandleCore(dh, cl, q), NEW cm, NEW a \in Actors,
         \A b \in Actors : b # a => cm[b] = cl[b],
         \/ cl[a].pc \notin DeciderPCs /\ cm[a].pc \notin DeciderPCs
         \/ /\ cl[a].pc \in DestroyPCs /\ cm[a].pc \in DestroyPCs
            /\ cm[a].h = cl[a].h /\ cm[a].todo = cl[a].todo
  PROVE  HandleCore(dh, cm, q)
<1>1. Exclusive(dh, cl) /\ Filling(dh, cl, q)
  BY DEF HandleCore
<1>2. /\ \A b \in Actors : cm[b].pc \in DeciderPCs <=> cl[b].pc \in DeciderPCs
      /\ \A b \in Actors : cm[b].pc \in DeciderPCs => cm[b].h = cl[b].h
      /\ \A b \in Actors : cm[b].pc = "creating" => cm[b] = cl[b]
      /\ \A b \in Actors : cm[b].pc \in DestroyPCs <=> cl[b].pc \in DestroyPCs
      /\ \A b \in Actors : cm[b].pc \in DestroyPCs => cm[b].h = cl[b].h /\ cm[b].todo = cl[b].todo
  BY DEF DestroyPCs, DeciderPCs
<1>3. Exclusive(dh, cm)
  BY <1>1, <1>2 DEF Exclusive
<1>4. Filling(dh, cm, q)
  BY <1>1, <1>2 DEF Filling
<1>5. \A h : PendingOf(dh, cm, h) = PendingOf(dh, cl, h)
  BY <1>2 DEF PendingOf
<1> QED
  BY <1>3, <1>4, <1>5 DEF HandleCore

(* signal_decider_create() allocates a handle.                             *)
Allocated(dh, dm, cl, cm, q, r, a, h) ==
  /\ \A b \in Actors : b # a => cm[b] = cl[b]
  /\ \A g \in DeciderHandles : g # h => dm[g] = dh[g] /\ r[g] = q[g]
  /\ dh[h].state = "unused" /\ cl[a].pc \notin DeciderPCs
  /\ dm[h].state = "busy" /\ dm[h].slots = <<>> /\ r[h] = <<>>
  /\ cm[a].pc = "creating" /\ cm[a].h = h /\ cm[a].todo = dm[h].guarded

(* The handles keep their shape.                                           *)
LEMMA HandleNew ==
  ASSUME NEW dh, NEW cl, NEW q, HandleCore(dh, cl, q), NEW dm, NEW cm, NEW r,
         NEW a \in Actors, NEW h \in DeciderHandles,
         Allocated(dh, dm, cl, cm, q, r, a, h)
  PROVE  HandleCore(dm, cm, r)
<1> SUFFICES ASSUME \A b \in Actors : b # a => cm[b] = cl[b],
                    \A g \in DeciderHandles : g # h => dm[g] = dh[g] /\ r[g] = q[g],
                    dh[h].state = "unused", cl[a].pc \notin DeciderPCs,
                    dm[h].state = "busy", dm[h].slots = <<>>, r[h] = <<>>,
                    cm[a].pc = "creating", cm[a].h = h, cm[a].todo = dm[h].guarded
             PROVE  HandleCore(dm, cm, r)
  BY DEF Allocated
<1>1. Exclusive(dh, cl) /\ Filling(dh, cl, q)
  BY DEF HandleCore
<1>2. \A b \in Actors : b # a /\ cl[b].pc \in DeciderPCs => cl[b].h # h
  BY <1>1 DEF Exclusive
<1>3. Exclusive(dm, cm)
  BY <1>1, <1>2 DEF Exclusive
<1>4. Filling(dm, cm, r)
  <2> SUFFICES ASSUME NEW b \in Actors, cm[b].pc = "creating"
               PROVE  /\ cm[b].todo \subseteq dm[cm[b].h].guarded
                      /\ \A x \in dm[cm[b].h].guarded :
                           x \in cm[b].todo \/ \E i \in 1 .. Len(r[cm[b].h]) : r[cm[b].h][i] = x
                      /\ \A i \in 1 .. Len(r[cm[b].h]) : r[cm[b].h][i] \notin cm[b].todo
    BY DEF Filling
  <2>1. CASE b = a
    BY <2>1
  <2>2. CASE b # a
    <3>1. cl[b].pc \in DeciderPCs /\ cm[b] = cl[b]
      BY <2>2 DEF DeciderPCs
    <3>2. cl[b].h \in DeciderHandles /\ cl[b].h # h
      BY <1>1, <1>2, <2>2, <3>1 DEF Exclusive
    <3> QED
      BY <1>1, <3>1, <3>2 DEF Filling
  <2> QED
    BY <2>1, <2>2
<1>5. ASSUME NEW g \in DeciderHandles, g # h
      PROVE  PendingOf(dm, cm, g) = PendingOf(dh, cl, g)
  <2>1. /\ cl[a].pc \in DestroyPCs => cl[a].h # g
        /\ cm[a].pc \in DestroyPCs => cm[a].h # g
    BY <1>5 DEF DestroyPCs, DeciderPCs
  <2>2. dm[g].guarded = dh[g].guarded
    BY <1>5
  <2> QED
    BY <2>1, <2>2, PendingKept, ZenonT(60) DEF PendingOf
<1>6. \A g \in DeciderHandles : Aligned(dm[g].slots, PendingOf(dm, cm, g), r[g])
  BY <1>5, AlignedEmpty DEF HandleCore
<1>7. \A g \in DeciderHandles : dm[g].state = "unused" => dm[g].slots = <<>>
  BY DEF HandleCore
<1> QED
  BY <1>3, <1>4, <1>6, <1>7 DEF HandleCore

(* A call takes a handle to destroy it: signal_decider_destroy() an open   *)
(* one, or signal_decider_create() the one it cannot complete.             *)
LEMMA HandleTaken ==
  ASSUME NEW dh, NEW cl, NEW q, HandleCore(dh, cl, q), NEW dm, NEW cm,
         NEW a \in Actors, NEW h \in DeciderHandles,
         \A b \in Actors : b # a => cm[b] = cl[b],
         \A g \in DeciderHandles : g # h => dm[g] = dh[g],
         \/ dh[h].state = "open" /\ cl[a].pc \notin DeciderPCs
         \/ cl[a].pc = "creating" /\ cl[a].h = h,
         dm[h].state = "busy", dm[h].slots = dh[h].slots,
         dm[h].guarded = dh[h].guarded, dh[h].guarded \subseteq Signals,
         cm[a].pc = "destroying", cm[a].h = h, cm[a].todo = Signals
  PROVE  HandleCore(dm, cm, q)
<1>1. Exclusive(dh, cl) /\ Filling(dh, cl, q)
  BY DEF HandleCore
<1>2. \A b \in Actors : b # a /\ cl[b].pc \in DeciderPCs => cl[b].h # h
  BY <1>1 DEF Exclusive, DeciderPCs
<1>3. Exclusive(dm, cm)
  BY <1>1, <1>2 DEF Exclusive
<1>4. Filling(dm, cm, q)
  <2> SUFFICES ASSUME NEW b \in Actors, cm[b].pc = "creating"
               PROVE  b # a /\ cm[b] = cl[b] /\ dm[cm[b].h] = dh[cl[b].h]
    BY <1>1 DEF Filling
  <2>1. b # a /\ cm[b] = cl[b]
    OBVIOUS
  <2>2. cl[b].h \in DeciderHandles /\ cl[b].h # h
    BY <1>1, <1>2, <2>1 DEF Exclusive, DeciderPCs
  <2> QED
    BY <2>1, <2>2
<1>5. ASSUME NEW g \in DeciderHandles, g # h
      PROVE  PendingOf(dm, cm, g) = PendingOf(dh, cl, g)
  <2>1. cl[a].pc \in DestroyPCs => cl[a].h # g
    BY DEF DestroyPCs, DeciderPCs
  <2>2. dm[g].guarded = dh[g].guarded /\ cm[a].h # g
    BY <1>5
  <2> QED
    BY <2>1, <2>2, PendingKept
<1>6. PendingOf(dm, cm, h) = dh[h].guarded
  <2>1. cm[a].pc \in DeciderPCs /\ cm[a].pc \in DestroyPCs
    BY DEF DeciderPCs, DestroyPCs
  <2>2. PendingOf(dm, cm, cm[a].h) = {s \in dm[cm[a].h].guarded : s \in cm[a].todo}
    BY <1>3, <2>1, PendingMine
  <2> QED
    BY <2>2
<1>7. PendingOf(dh, cl, h) = dh[h].guarded
  <2>1. CASE dh[h].state = "open"
    BY <1>1, <2>1, PendingFree
  <2>2. CASE cl[a].pc = "creating" /\ cl[a].h = h
    <3>1. cl[a].pc \in DeciderPCs
      BY <2>2 DEF DeciderPCs
    <3>2. PendingOf(dh, cl, cl[a].h) = dh[cl[a].h].guarded
      BY <1>1, <2>2, <3>1 DEF PendingOf, Exclusive, DestroyPCs, DeciderPCs
    <3> QED
      BY <2>2, <3>2
  <2> QED
    BY <2>1, <2>2
<1>8. \A g \in DeciderHandles : Aligned(dm[g].slots, PendingOf(dm, cm, g), q[g])
  BY <1>5, <1>6, <1>7 DEF HandleCore
<1>9. \A g \in DeciderHandles : dm[g].state = "unused" => dm[g].slots = <<>>
  BY DEF HandleCore
<1> QED
  BY <1>3, <1>4, <1>8, <1>9 DEF HandleCore

(* signal_decider_create() stores p in the slot of signal s, ...           *)
Stored(dh, dm, q, r, h, s, p) ==
  /\ \A g \in DeciderHandles : g # h => dm[g] = dh[g] /\ r[g] = q[g]
  /\ dm[h].slots = Append(dh[h].slots, p) /\ dm[h].guarded = dh[h].guarded
  /\ r[h] = Append(q[h], s)

(* ... and goes on to the next one, or returns after the last.             *)
Turned(dm, cl, cm, a, h, s) ==
  /\ \A b \in Actors : b # a => cm[b] = cl[b]
  /\ cl[a].pc = "creating" /\ cl[a].h = h
  /\ \/ dm[h].state = "open" /\ cm[a].pc \notin DeciderPCs
     \/ /\ dm[h].state = "busy" /\ cm[a].pc = "creating" /\ cm[a].h = h
        /\ cm[a].todo = cl[a].todo \ {s}

(* The handles keep their shape.                                           *)
LEMMA HandleFill ==
  ASSUME NEW dh \in [DeciderHandles -> DeciderHandle], NEW cl, NEW q,
         HandleCore(dh, cl, q), NEW dm, NEW cm, NEW r,
         NEW a \in Actors, NEW h \in DeciderHandles, NEW p \in Nodes \cup {NULL},
         NEW s \in cl[a].todo, \A t \in cl[a].todo : s <= t,
         cl[a].todo \subseteq Signals,
         Stored(dh, dm, q, r, h, s, p), Turned(dm, cl, cm, a, h, s)
  PROVE  HandleCore(dm, cm, r)
<1> SUFFICES ASSUME \A b \in Actors : b # a => cm[b] = cl[b],
                    \A g \in DeciderHandles : g # h => dm[g] = dh[g] /\ r[g] = q[g],
                    cl[a].pc = "creating", cl[a].h = h,
                    dm[h].slots = Append(dh[h].slots, p),
                    dm[h].guarded = dh[h].guarded, r[h] = Append(q[h], s),
                    \/ dm[h].state = "open" /\ cm[a].pc \notin DeciderPCs
                    \/ /\ dm[h].state = "busy" /\ cm[a].pc = "creating"
                       /\ cm[a].h = h /\ cm[a].todo = cl[a].todo \ {s}
             PROVE  HandleCore(dm, cm, r)
  BY DEF Stored, Turned
<1> DEFINE sl == dh[h].slots
           G == dh[h].guarded
           T == cl[a].todo
           u == q[h]
<1>1. Exclusive(dh, cl) /\ Filling(dh, cl, q) /\ cl[a].pc \in DeciderPCs
  BY DEF HandleCore, DeciderPCs
<1>2. \A b \in Actors : b # a /\ cl[b].pc \in DeciderPCs => cl[b].h # h
  BY <1>1 DEF Exclusive
<1>3. sl \in Seq(Nodes \cup {NULL}) /\ G \in SUBSET Signals
  BY DEF DeciderHandle
<1>4. PendingOf(dh, cl, h) = G
  BY <1>1, <1>2 DEF PendingOf, DestroyPCs, DeciderPCs
<1>5. Aligned(sl, G, u)
  BY <1>4 DEF HandleCore
<1>6. /\ T \subseteq G /\ s \in G
      /\ \A x \in G : x \in T \/ \E i \in 1 .. Len(u) : u[i] = x
      /\ \A i \in 1 .. Len(u) : u[i] \notin T
  BY <1>1 DEF Filling
<1>7. \A x \in G : x < s => \E i \in 1 .. Len(u) : u[i] = x
  <2> TAKE x \in G
  <2> HAVE x < s
  <2>1. x \in Nat /\ s \in Nat
    BY <1>3, <1>6, SignalsAssumption
  <2>2. x \notin T
    BY <2>1
  <2> QED
    BY <1>6, <2>2
<1>8. /\ Aligned(Append(sl, p), G, Append(u, s))
      /\ Len(sl) \in Nat /\ Len(u) = Len(sl)
      /\ Len(Append(u, s)) = Len(sl) + 1 /\ Append(u, s)[Len(sl) + 1] = s
      /\ \A i \in 1 .. Len(sl) : Append(u, s)[i] = u[i]
  <2>1. \A i \in 1 .. Len(u) : u[i] # s
    BY <1>6
  <2> HIDE DEF sl, G, u
  <2>2. Aligned(Append(sl, p), G, Append(u, s))
    BY <1>3, <1>5, <1>6, <1>7, <2>1, AlignedPush
  <2>3. Len(sl) \in Nat /\ Len(u) = Len(sl) /\ u \in Seq(Signals) /\ s \in Signals
    BY <1>3, <1>5, <1>6 DEF Aligned
  <2> QED
    BY <2>2, <2>3
<1>9. Exclusive(dm, cm)
  <2>1. \A b \in Actors : b # a /\ cl[b].pc \in DeciderPCs =>
          cl[b].h \in DeciderHandles /\ dm[cl[b].h].state = "busy"
    BY <1>1, <1>2 DEF Exclusive
  <2> QED
    BY <1>1, <1>2, <2>1 DEF Exclusive
<1>10. Filling(dm, cm, r)
  <2> SUFFICES ASSUME NEW b \in Actors, cm[b].pc = "creating"
               PROVE  /\ cm[b].todo \subseteq dm[cm[b].h].guarded
                      /\ \A x \in dm[cm[b].h].guarded :
                           x \in cm[b].todo \/ \E i \in 1 .. Len(r[cm[b].h]) : r[cm[b].h][i] = x
                      /\ \A i \in 1 .. Len(r[cm[b].h]) : r[cm[b].h][i] \notin cm[b].todo
    BY DEF Filling
  <2>1. CASE b = a
    <3>1. /\ cm[b].h = h /\ cm[b].todo = T \ {s} /\ dm[cm[b].h].guarded = G
          /\ r[cm[b].h] = Append(u, s)
      BY <2>1 DEF DeciderPCs
    <3>2. ASSUME NEW x \in G, x \notin T \ {s}
          PROVE  \E i \in 1 .. Len(Append(u, s)) : Append(u, s)[i] = x
      <4>1. CASE x = s
        <5>1. Len(sl) + 1 \in 1 .. Len(Append(u, s))
          BY <1>8
        <5> QED
          BY <1>8, <4>1, <5>1
      <4>2. CASE x # s
        <5>1. PICK i \in 1 .. Len(u) : u[i] = x
          BY <1>6, <3>2, <4>2
        <5>2. i \in 1 .. Len(Append(u, s)) /\ Append(u, s)[i] = x
          BY <1>8, <5>1
        <5> QED
          BY <5>2
      <4> QED
        BY <4>1, <4>2
    <3>3. ASSUME NEW i \in 1 .. Len(Append(u, s))
          PROVE  Append(u, s)[i] \notin T \ {s}
      <4>1. CASE i = Len(sl) + 1
        BY <1>8, <4>1
      <4>2. CASE i # Len(sl) + 1
        <5>1. i \in 1 .. Len(u) /\ i \in 1 .. Len(sl)
          BY <1>8, <4>2
        <5> QED
          BY <1>6, <1>8, <5>1
      <4> QED
        BY <4>1, <4>2
    <3> HIDE DEF T, G, u
    <3>4. cm[b].todo \subseteq dm[cm[b].h].guarded
      BY <1>6, <3>1
    <3>5. \A x \in dm[cm[b].h].guarded :
            x \in cm[b].todo \/ \E i \in 1 .. Len(r[cm[b].h]) : r[cm[b].h][i] = x
      <4>1. \A x \in G : x \in T \ {s} \/ \E i \in 1 .. Len(Append(u, s)) : Append(u, s)[i] = x
        BY <3>2
      <4> QED
        BY ONLY <3>1, <4>1, Zenon
    <3>6. \A i \in 1 .. Len(r[cm[b].h]) : r[cm[b].h][i] \notin cm[b].todo
      BY <3>1, <3>3, Zenon
    <3> QED
      BY <3>4, <3>5, <3>6
  <2>2. CASE b # a
    <3>1. cl[b].pc \in DeciderPCs /\ cm[b] = cl[b]
      BY <2>2 DEF DeciderPCs
    <3>2. cl[b].h \in DeciderHandles /\ cl[b].h # h
      BY <1>1, <1>2, <2>2, <3>1 DEF Exclusive
    <3>3. dm[cm[b].h] = dh[cl[b].h] /\ r[cm[b].h] = q[cl[b].h] /\ cl[b].pc = "creating"
      BY <3>1, <3>2
    <3> QED
      BY <1>1, <3>1, <3>3 DEF Filling
  <2> QED
    BY <2>1, <2>2
<1>11. ASSUME NEW g \in DeciderHandles, g # h
       PROVE  PendingOf(dm, cm, g) = PendingOf(dh, cl, g)
  BY <1>11, SMTT(30) DEF PendingOf, DestroyPCs, DeciderPCs
<1>12. PendingOf(dm, cm, h) = G
  <2>1. \A b \in Actors : cm[b].pc \in DestroyPCs => cm[b].h # h
    BY <1>2 DEF DestroyPCs, DeciderPCs
  <2> QED
    BY <2>1 DEF PendingOf
<1>13. \A g \in DeciderHandles : Aligned(dm[g].slots, PendingOf(dm, cm, g), r[g])
  BY <1>8, <1>11, <1>12, ZenonT(60) DEF HandleCore
<1>14. \A g \in DeciderHandles : dm[g].state = "unused" => dm[g].slots = <<>>
  BY DEF HandleCore
<1> QED
  BY <1>9, <1>10, <1>13, <1>14 DEF HandleCore

(* What the destroy loop does to the handle and to the call that runs it:  *)
(* the slot of a guarded signal is popped, and after the last signal the   *)
(* handle is freed.                                                        *)
Popped(dh, dm, cl, cm, a, s) ==
  LET h == cl[a].h IN
  /\ \A b \in Actors : b # a => cm[b] = cl[b]
  /\ \A g \in DeciderHandles : g # h => dm[g] = dh[g]
  /\ \/ /\ cl[a].todo = {s} /\ dm[h] = NoDeciderHandle
        /\ cm[a].pc \notin DeciderPCs
     \/ /\ cl[a].todo # {s} /\ cm[a].pc = "destroying" /\ cm[a].h = h
        /\ cm[a].todo = cl[a].todo \ {s}
        /\ dm[h].state = dh[h].state /\ dm[h].guarded = dh[h].guarded
        /\ dm[h].slots = IF s \in dh[h].guarded /\ dh[h].slots # <<>>
                         THEN Tail(dh[h].slots) ELSE dh[h].slots

(* The slot the iteration for signal s pops, if any.                       *)
Pops(d, s) == s \in d.guarded /\ d.slots # <<>>

(* The signals q of the slots of handle h lose their first with the slot,  *)
Shortened(dh, q, r, h, s) ==
  /\ \A g \in DeciderHandles : g # h => r[g] = q[g]
  /\ r[h] = IF Pops(dh[h], s) THEN Tail(q[h]) ELSE q[h]

(* and slots and signals move up together.                                 *)
Shifted(dh, dm, q, r, h, s) ==
  /\ \A g \in DeciderHandles : g # h => dm[g] = dh[g] /\ r[g] = q[g]
  /\ IF Pops(dh[h], s)
     THEN /\ dm[h].slots = Tail(dh[h].slots)
          /\ \A i \in 1 .. Len(dm[h].slots) :
               /\ i + 1 \in 1 .. Len(dh[h].slots)
               /\ dm[h].slots[i] = dh[h].slots[i + 1] /\ r[h][i] = q[h][i + 1]
     ELSE dm[h].slots = dh[h].slots /\ r[h] = q[h]

(* One iteration of the destroy loop.                                      *)
LEMMA HandlePop ==
  ASSUME NEW dh \in [DeciderHandles -> DeciderHandle], NEW cl, NEW q,
         HandleCore(dh, cl, q), NEW dm, NEW cm, NEW r,
         NEW a \in Actors, NEW h \in DeciderHandles,
         NEW s \in cl[a].todo, \A t \in cl[a].todo : s <= t,
         cl[a].todo \subseteq Signals,
         cl[a].pc \in DestroyPCs, cl[a].h = h, Popped(dh, dm, cl, cm, a, s),
         Shortened(dh, q, r, h, s)
  PROVE  /\ HandleCore(dm, cm, r) /\ Shifted(dh, dm, q, r, h, s)
         /\ Pops(dh[h], s) => q[h][1] = s
<1> SUFFICES ASSUME \A g \in DeciderHandles : g # h => r[g] = q[g],
                    r[h] = IF Pops(dh[h], s) THEN Tail(q[h]) ELSE q[h]
             PROVE  /\ HandleCore(dm, cm, r) /\ Shifted(dh, dm, q, r, h, s)
                    /\ Pops(dh[h], s) => q[h][1] = s
  BY DEF Shortened
<1> DEFINE sl == dh[h].slots
           P == PendingOf(dh, cl, h)
           G == dh[h].guarded
           T == cl[a].todo
           u == q[h]
<1>1. Exclusive(dh, cl) /\ Filling(dh, cl, q) /\ cl[a].pc \in DeciderPCs
      /\ cl[a].pc # "creating"
  BY DEF HandleCore, DeciderPCs, DestroyPCs
<1>2. \A b \in Actors : b # a /\ cl[b].pc \in DeciderPCs => cl[b].h # h
  BY <1>1 DEF Exclusive
<1>3. sl \in Seq(Nodes \cup {NULL}) /\ G \in SUBSET Signals
  BY DEF DeciderHandle
<1>4. P = {x \in G : x \in T}
  BY <1>1, <1>2 DEF PendingOf, DestroyPCs, DeciderPCs
<1>5. Aligned(sl, P, u) /\ u \in Seq(Signals) /\ Len(u) = Len(sl) /\ Len(u) \in Nat
  BY DEF HandleCore, Aligned
<1>6. /\ P \in SUBSET Signals /\ \A t \in P : s <= t
      /\ s \in G => s \in P
  BY <1>3, <1>4
<1>7. Pops(dh[h], s) =>
        /\ u[1] = s /\ Aligned(Tail(sl), P \ {s}, Tail(u))
        /\ \A i \in 1 .. Len(Tail(sl)) : /\ i + 1 \in 1 .. Len(sl)
                                         /\ Tail(sl)[i] = sl[i + 1]
                                         /\ Tail(u)[i] = u[i + 1]
        /\ P = {s} => Tail(sl) = <<>>
  <2> HAVE Pops(dh[h], s)
  <2>1. s \in P /\ sl # <<>>
    BY <1>6 DEF Pops
  <2>2. Tail(sl) \in Seq(Nodes \cup {NULL})
    BY <1>3, <2>1
  <2>3. Len(Tail(sl)) = 0 => Tail(sl) = <<>>
    BY <2>2, NoLength
  <2> HIDE DEF sl, P, u
  <2>4. u[1] = s
    BY <1>3, <1>5, <1>6, <2>1, AlignedFirst
  <2>7. Aligned(Tail(sl), P \ {s}, Tail(u))
    BY <1>3, <1>5, <1>6, <2>1, AlignedPop
  <2>5. \A i \in 1 .. Len(Tail(sl)) : /\ i + 1 \in 1 .. Len(sl)
                                      /\ Tail(sl)[i] = sl[i + 1]
                                      /\ Tail(u)[i] = u[i + 1]
    BY <1>3, <1>5, <1>6, <2>1, AlignedPop
  <2>6. P = {s} => Len(Tail(sl)) = 0
    BY <1>3, <1>5, <1>6, <2>1, AlignedPop, ZenonT(60)
  <2> QED
    BY <2>3, <2>4, <2>5, <2>6, <2>7
<1>8. ASSUME T = {s}
      PROVE  IF Pops(dh[h], s) THEN Tail(sl) = <<>> ELSE sl = <<>>
  <2>1. CASE Pops(dh[h], s)
    <3>1. s \in P
      BY <1>6, <2>1 DEF Pops
    <3>2. P = {s}
      BY <1>4, <1>8, <3>1
    <3> QED
      BY <1>7, <2>1, <3>2
  <2>2. CASE ~Pops(dh[h], s) /\ s \notin G
    <3>1. P = {}
      BY <1>4, <1>8, <2>2
    <3>2. \A i \in 1 .. Len(u) : u[i] \in P
      BY <1>5 DEF Aligned
    <3>3. Len(u) = 0
      BY <1>5, <3>1, <3>2
    <3> QED
      BY <1>3, <1>5, <2>2, <3>3, NoLength
  <2>3. CASE ~Pops(dh[h], s) /\ s \in G
    BY <2>3 DEF Pops
  <2> QED
    BY <2>1, <2>2, <2>3
<1>9. /\ \A b \in Actors : b # a => cm[b] = cl[b]
      /\ \A g \in DeciderHandles : g # h => dm[g] = dh[g]
      /\ \/ T = {s} /\ dm[h] = NoDeciderHandle /\ cm[a].pc \notin DeciderPCs
         \/ /\ T # {s} /\ cm[a].pc = "destroying" /\ cm[a].h = h
            /\ cm[a].todo = T \ {s}
            /\ dm[h].state = dh[h].state /\ dm[h].guarded = G
            /\ dm[h].slots = IF Pops(dh[h], s) THEN Tail(sl) ELSE sl
  BY DEF Popped, Pops
<1>10. dm[h].slots = IF Pops(dh[h], s) THEN Tail(sl) ELSE sl
  <2>1. dm[h] = NoDeciderHandle => dm[h].slots = <<>>
    BY DEF NoDeciderHandle
  <2> HIDE DEF sl
  <2>2. CASE T = {s}
    BY <1>8, <1>9, <2>1, <2>2
  <2>3. CASE T # {s}
    BY <1>9, <2>3
  <2> QED
    BY <2>2, <2>3
<1>11. Exclusive(dm, cm)
  <2>1. \A b \in Actors : b # a /\ cl[b].pc \in DeciderPCs =>
          cl[b].h \in DeciderHandles /\ dm[cl[b].h].state = "busy"
    BY <1>1, <1>2, <1>9 DEF Exclusive
  <2>2. dh[h].state = "busy"
    BY <1>1 DEF Exclusive
  <2> QED
    BY <1>1, <1>2, <1>9, <2>1, <2>2 DEF Exclusive
<1>12. Filling(dm, cm, r)
  <2> SUFFICES ASSUME NEW b \in Actors, cm[b].pc = "creating"
               PROVE  /\ cm[b] = cl[b] /\ dm[cm[b].h] = dh[cl[b].h]
                      /\ r[cm[b].h] = q[cl[b].h]
    BY <1>1 DEF Filling
  <2>1. b # a /\ cm[b] = cl[b]
    BY <1>9 DEF DeciderPCs
  <2>2. cl[b].h \in DeciderHandles /\ cl[b].h # h
    BY <1>1, <1>2, <2>1 DEF Exclusive, DeciderPCs
  <2> QED
    BY <1>9, <2>1, <2>2
<1>13. ASSUME NEW g \in DeciderHandles, g # h
       PROVE  PendingOf(dm, cm, g) = PendingOf(dh, cl, g)
  <2>1. dm[g].guarded = dh[g].guarded
    BY <1>9, <1>13
  <2>2. /\ cl[a].pc \in DestroyPCs => cl[a].h # g
        /\ cm[a].pc \in DestroyPCs => cm[a].h # g
    BY <1>9, <1>13 DEF DestroyPCs, DeciderPCs
  <2> QED
    BY <1>9, <2>1, <2>2 DEF PendingOf
<1>14. Aligned(dm[h].slots, PendingOf(dm, cm, h), r[h])
  <2>0. r[h] \in Seq(Signals) /\ Len(r[h]) = Len(dm[h].slots)
    BY <1>5, <1>7, <1>10 DEF Aligned
  <2>1. CASE T = {s}
    <3>1. dm[h].slots = <<>>
      BY <1>8, <1>10, <2>1
    <3>2. r[h] = <<>>
      BY <2>0, <3>1, NoLength
    <3> QED
      BY <3>1, <3>2, AlignedEmpty
  <2>2. CASE T # {s}
    <3>1. \A b \in Actors : b # a /\ cm[b].pc \in DestroyPCs => cm[b].h # h
      BY <1>2, <1>9 DEF DestroyPCs, DeciderPCs
    <3>2. /\ cm[a].pc \in DestroyPCs /\ cm[a].h = h /\ cm[a].todo = T \ {s}
          /\ dm[h].guarded = G
      BY <1>9, <2>2 DEF DestroyPCs
    <3>3. PendingOf(dm, cm, h) = P \ {s}
      BY <1>4, <3>1, <3>2 DEF PendingOf
    <3>4. CASE Pops(dh[h], s)
      BY <1>7, <1>10, <3>3, <3>4
    <3>5. CASE ~Pops(dh[h], s) /\ s \notin G
      <4>1. P \ {s} = P
        BY <1>4, <3>5
      <4> QED
        BY <1>5, <1>10, <3>3, <3>5, <4>1
    <3>6. CASE ~Pops(dh[h], s) /\ sl = <<>>
      <4>1. u = <<>>
        BY <1>5, <3>6
      <4> QED
        BY <1>10, <3>6, <4>1, AlignedEmpty
    <3> QED
      BY <3>4, <3>5, <3>6 DEF Pops
  <2> QED
    BY <2>1, <2>2
<1>15. \A g \in DeciderHandles : Aligned(dm[g].slots, PendingOf(dm, cm, g), r[g])
  BY <1>9, <1>13, <1>14 DEF HandleCore
<1>16. \A g \in DeciderHandles : dm[g].state = "unused" => dm[g].slots = <<>>
  <2>1. dh[h].state = "busy"
    BY <1>1 DEF Exclusive
  <2> QED
    BY <1>9, <2>1 DEF HandleCore, NoDeciderHandle
<1>17. HandleCore(dm, cm, r)
  BY <1>11, <1>12, <1>15, <1>16 DEF HandleCore
<1> HIDE DEF sl, u
<1>18. Pops(dh[h], s) => \A i \in 1 .. Len(dm[h].slots) :
         i + 1 \in 1 .. Len(sl) /\ dm[h].slots[i] = sl[i + 1] /\ r[h][i] = u[i + 1]
  BY <1>7, <1>10 DEF u
<1>19. \A g \in DeciderHandles : g # h => dm[g] = dh[g]
  BY DEF Popped
<1> QED
  BY <1>7, <1>10, <1>17, <1>18, <1>19 DEF Shifted, sl, u

(* A node is in at most one slot, and the slot of a node that is linked in *)
(* the container of a signal is the slot of that signal.                   *)
SlotCore(dh, q, L, mp) ==
  /\ \A g, h \in DeciderHandles :
       \A i \in 1 .. Len(dh[g].slots), j \in 1 .. Len(dh[h].slots) :
         dh[g].slots[i] = dh[h].slots[j] /\ dh[g].slots[i] # NULL => g = h /\ i = j
  /\ \A h \in DeciderHandles : \A i \in 1 .. Len(dh[h].slots), s \in Signals :
       mp[s] # NULL /\ dh[h].slots[i] \in L[mp[s]] => q[h][i] = s

(* The nodes that handles own.                                             *)
OwnedBy(dh) == {n \in Nodes : \E h \in DeciderHandles : n \in ToSet(dh[h].slots)}

(* Ownership by slot.                                                      *)
LEMMA OwnedSlots ==
  ASSUME NEW dh \in [DeciderHandles -> DeciderHandle], NEW n
  PROVE  n \in OwnedBy(dh) <=>
           /\ n \in Nodes
           /\ \E h \in DeciderHandles : \E i \in 1 .. Len(dh[h].slots) : dh[h].slots[i] = n
<1>1. \A h \in DeciderHandles : dh[h].slots \in Seq(Nodes \cup {NULL})
  BY DEF DeciderHandle
<1>2. \A h \in DeciderHandles :
        n \in ToSet(dh[h].slots) <=> \E i \in 1 .. Len(dh[h].slots) : dh[h].slots[i] = n
  BY <1>1, Members
<1> QED
  BY <1>2 DEF OwnedBy

(* Steps that only unlink nodes, or change the containers of signals to    *)
(* ones without deciders.                                                  *)
LEMMA SlotKept ==
  ASSUME NEW dh, NEW q, NEW L, NEW mp, SlotCore(dh, q, L, mp), NEW K, NEW mq,
         \A s \in Signals : \/ mq[s] = NULL
                            \/ K[mq[s]] = {}
                            \/ mq[s] = mp[s] /\ K[mq[s]] \subseteq L[mp[s]]
  PROVE  SlotCore(dh, q, K, mq)
<1>1. \A s \in Signals : \A n : mq[s] # NULL /\ n \in K[mq[s]] => mp[s] # NULL /\ n \in L[mp[s]]
  OBVIOUS
<1>2. \A h \in DeciderHandles : \A i \in 1 .. Len(dh[h].slots), s \in Signals :
       mq[s] # NULL /\ dh[h].slots[i] \in K[mq[s]] => q[h][i] = s
  BY <1>1 DEF SlotCore
<1> QED
  BY <1>2 DEF SlotCore

(* Handles may change in everything but their slots.                       *)
LEMMA SlotSame ==
  ASSUME NEW dh, NEW q, NEW L, NEW mp, SlotCore(dh, q, L, mp), NEW dm, NEW r,
         \A h \in DeciderHandles :
           \/ dm[h].slots = <<>>
           \/ dm[h].slots = dh[h].slots /\ r[h] = q[h]
  PROVE  SlotCore(dm, r, L, mp)
<1>1. \A h \in DeciderHandles : \A i \in 1 .. Len(dm[h].slots) :
        dm[h].slots = dh[h].slots /\ r[h] = q[h]
  <2>1. Len(<<>>) = 0
    OBVIOUS
  <2> QED
    BY <2>1
<1>2. \A g, h \in DeciderHandles :
       \A i \in 1 .. Len(dm[g].slots), j \in 1 .. Len(dm[h].slots) :
         dm[g].slots[i] = dm[h].slots[j] /\ dm[g].slots[i] # NULL => g = h /\ i = j
  BY <1>1, SMTT(30) DEF SlotCore
<1>3. \A h \in DeciderHandles : \A i \in 1 .. Len(dm[h].slots), s \in Signals :
       mp[s] # NULL /\ dm[h].slots[i] \in L[mp[s]] => r[h][i] = s
  BY <1>1 DEF SlotCore
<1> QED
  BY <1>2, <1>3 DEF SlotCore

(* One iteration of the destroy loop, for the slots and their owners.      *)
LEMMA SlotPop ==
  ASSUME NEW dh \in [DeciderHandles -> DeciderHandle],
         NEW dm \in [DeciderHandles -> DeciderHandle],
         NEW q, NEW r, NEW L, NEW mp, SlotCore(dh, q, L, mp),
         NEW h \in DeciderHandles, NEW s,
         Shifted(dh, dm, q, r, h, s)
  PROVE  /\ SlotCore(dm, r, L, mp)
         /\ \A n \in Nodes : n \in OwnedBy(dm) <=>
              n \in OwnedBy(dh) /\ ~(Pops(dh[h], s) /\ n = Head(dh[h].slots))
<1> SUFFICES ASSUME \A g \in DeciderHandles : g # h => dm[g] = dh[g] /\ r[g] = q[g],
                    IF Pops(dh[h], s)
                    THEN /\ dm[h].slots = Tail(dh[h].slots)
                         /\ \A i \in 1 .. Len(dm[h].slots) :
                              /\ i + 1 \in 1 .. Len(dh[h].slots)
                              /\ dm[h].slots[i] = dh[h].slots[i + 1]
                              /\ r[h][i] = q[h][i + 1]
                    ELSE dm[h].slots = dh[h].slots /\ r[h] = q[h]
             PROVE  /\ SlotCore(dm, r, L, mp)
                    /\ \A n \in Nodes : n \in OwnedBy(dm) <=>
                         n \in OwnedBy(dh) /\ ~(Pops(dh[h], s) /\ n = Head(dh[h].slots))
  BY DEF Shifted
<1> DEFINE o(g) == IF g = h /\ Pops(dh[h], s) THEN 1 ELSE 0
<1>0. \A g \in DeciderHandles : dh[g].slots \in Seq(Nodes \cup {NULL}) /\ Len(dh[g].slots) \in Nat
  BY DEF DeciderHandle
<1>1. \A g \in DeciderHandles : \A i \in 1 .. Len(dm[g].slots) :
        /\ i + o(g) \in 1 .. Len(dh[g].slots)
        /\ dm[g].slots[i] = dh[g].slots[i + o(g)] /\ r[g][i] = q[g][i + o(g)]
  <2> TAKE g \in DeciderHandles
  <2> TAKE i \in 1 .. Len(dm[g].slots)
  <2>1. CASE g = h /\ Pops(dh[h], s)
    BY <2>1
  <2>2. CASE ~(g = h /\ Pops(dh[h], s))
    <3>1. dm[g].slots = dh[g].slots /\ r[g] = q[g] /\ i + o(g) = i
      BY <1>0, <2>2
    <3> QED
      BY <3>1
  <2> QED
    BY <2>1, <2>2
<1>2. \A g \in DeciderHandles : o(g) \in {0, 1}
  OBVIOUS
<1> HIDE DEF o
<1>3. \A g, k \in DeciderHandles :
       \A i \in 1 .. Len(dm[g].slots), j \in 1 .. Len(dm[k].slots) :
         dm[g].slots[i] = dm[k].slots[j] /\ dm[g].slots[i] # NULL => g = k /\ i = j
  <2> SUFFICES ASSUME NEW g \in DeciderHandles, NEW k \in DeciderHandles,
                      NEW i \in 1 .. Len(dm[g].slots), NEW j \in 1 .. Len(dm[k].slots),
                      dm[g].slots[i] = dm[k].slots[j], dm[g].slots[i] # NULL
               PROVE  g = k /\ i = j
    OBVIOUS
  <2>1. /\ i + o(g) \in 1 .. Len(dh[g].slots) /\ j + o(k) \in 1 .. Len(dh[k].slots)
        /\ dh[g].slots[i + o(g)] = dh[k].slots[j + o(k)] /\ dh[g].slots[i + o(g)] # NULL
    BY <1>1
  <2>2. g = k /\ i + o(g) = j + o(k)
    BY <2>1 DEF SlotCore
  <2> QED
    BY <1>2, <2>2
<1>4. \A g \in DeciderHandles : \A i \in 1 .. Len(dm[g].slots), t \in Signals :
       mp[t] # NULL /\ dm[g].slots[i] \in L[mp[t]] => r[g][i] = t
  <2> SUFFICES ASSUME NEW g \in DeciderHandles, NEW i \in 1 .. Len(dm[g].slots),
                      NEW t \in Signals, mp[t] # NULL, dm[g].slots[i] \in L[mp[t]]
               PROVE  r[g][i] = t
    OBVIOUS
  <2>1. /\ i + o(g) \in 1 .. Len(dh[g].slots) /\ dh[g].slots[i + o(g)] \in L[mp[t]]
        /\ r[g][i] = q[g][i + o(g)]
    BY <1>1
  <2>2. q[g][i + o(g)] = t
    BY <2>1 DEF SlotCore
  <2> QED
    BY <2>1, <2>2
<1>5. SlotCore(dm, r, L, mp)
  BY <1>3, <1>4 DEF SlotCore
<1>6. ASSUME NEW n \in OwnedBy(dm)
      PROVE  n \in OwnedBy(dh) /\ ~(Pops(dh[h], s) /\ n = Head(dh[h].slots))
  <2>1. PICK g \in DeciderHandles : \E i \in 1 .. Len(dm[g].slots) : dm[g].slots[i] = n
    BY OwnedSlots
  <2>2. PICK i \in 1 .. Len(dm[g].slots) : dm[g].slots[i] = n
    BY <2>1
  <2>3. i + o(g) \in 1 .. Len(dh[g].slots) /\ dh[g].slots[i + o(g)] = n
    BY <1>1, <2>2
  <2>4. n \in Nodes /\ n # NULL
    BY NullAssumption DEF OwnedBy
  <2>5. n \in OwnedBy(dh)
    BY <2>3, <2>4, OwnedSlots
  <2>6. ASSUME Pops(dh[h], s), n = Head(dh[h].slots) PROVE FALSE
    <3>1. 1 \in 1 .. Len(dh[h].slots) /\ dh[h].slots[1] = n
      BY <1>0, <2>6 DEF Pops
    <3>2. g = h /\ i + o(g) = 1
      BY <2>3, <2>4, <3>1 DEF SlotCore
    <3>3. o(g) = 1
      BY <2>6, <3>2 DEF o
    <3> QED
      BY <3>2, <3>3
  <2> QED
    BY <2>5, <2>6
<1>7. ASSUME NEW n \in OwnedBy(dh), ~(Pops(dh[h], s) /\ n = Head(dh[h].slots))
      PROVE  n \in OwnedBy(dm)
  <2>1. PICK g \in DeciderHandles : \E i \in 1 .. Len(dh[g].slots) : dh[g].slots[i] = n
    BY OwnedSlots
  <2>2. PICK i \in 1 .. Len(dh[g].slots) : dh[g].slots[i] = n
    BY <2>1
  <2>3. n \in Nodes
    BY DEF OwnedBy
  <2>4. \E j \in 1 .. Len(dm[g].slots) : dm[g].slots[j] = n
    <3>1. CASE g = h /\ Pops(dh[h], s)
      <4>1. i # 1
        BY <1>0, <1>7, <2>2, <3>1 DEF Pops
      <4>2. Len(dm[h].slots) = Len(dh[h].slots) - 1
        <5> DEFINE sl == dh[h].slots
        <5>1. sl \in Seq(Nodes \cup {NULL}) /\ sl # <<>> /\ dm[h].slots = Tail(sl)
          BY <1>0, <3>1 DEF Pops
        <5> HIDE DEF sl
        <5>2. Len(Tail(sl)) = Len(sl) - 1
          BY <5>1
        <5> QED
          BY <5>1, <5>2 DEF sl
      <4> DEFINE j == i - 1
      <4>3. j \in 1 .. Len(dm[g].slots) /\ j + 1 = i
        BY <1>0, <3>1, <4>1, <4>2
      <4> HIDE DEF j
      <4> QED
        BY <2>2, <3>1, <4>3
    <3>2. CASE ~(g = h /\ Pops(dh[h], s))
      BY <2>2, <3>2
    <3> QED
      BY <3>1, <3>2
  <2> QED
    BY <2>3, <2>4, OwnedSlots
<1> QED
  BY <1>5, <1>6, <1>7

(* The lists K of the containers are L with p linked for signal s.         *)
Joined(L, K, mp, s, p) ==
  \A t \in Signals : mp[t] # NULL =>
    /\ \A n : n \in K[mp[t]] => n # NULL /\ (n \in L[mp[t]] \/ n = p)
    /\ p \in K[mp[t]] => t = s

(* The handles dm have the slots of dh, and one for p.                     *)
Gained(dh, dm, r, K, mp, p) ==
  /\ SlotCore(dm, r, K, mp)
  /\ \A n \in Nodes : n \in OwnedBy(dm) <=> n \in OwnedBy(dh) \/ n = p

(* One iteration of the create loop: the slot is empty, or gets a new node *)
(* that is linked in the container of its signal.                          *)
LEMMA SlotFill ==
  ASSUME NEW dh \in [DeciderHandles -> DeciderHandle],
         NEW dm \in [DeciderHandles -> DeciderHandle],
         NEW q, NEW r, NEW L, NEW K, NEW mp, SlotCore(dh, q, L, mp),
         NEW h \in DeciderHandles, NEW s \in Signals, NEW p \in Nodes \cup {NULL},
         q[h] \in Seq(Signals), Len(q[h]) = Len(dh[h].slots),
         Stored(dh, dm, q, r, h, s, p), p \notin OwnedBy(dh), Joined(L, K, mp, s, p)
  PROVE  Gained(dh, dm, r, K, mp, p)
<1> SUFFICES ASSUME \A g \in DeciderHandles : g # h => dm[g] = dh[g] /\ r[g] = q[g],
                    dm[h].slots = Append(dh[h].slots, p), r[h] = Append(q[h], s),
                    \A t \in Signals : mp[t] # NULL =>
                      /\ \A n : n \in K[mp[t]] => n # NULL /\ (n \in L[mp[t]] \/ n = p)
                      /\ p \in K[mp[t]] => t = s
             PROVE  /\ SlotCore(dm, r, K, mp)
                    /\ \A n \in Nodes : n \in OwnedBy(dm) <=> n \in OwnedBy(dh) \/ n = p
  BY DEF Stored, Joined, Gained
<1> DEFINE l == Len(dh[h].slots)
<1>0. \A g \in DeciderHandles : dh[g].slots \in Seq(Nodes \cup {NULL}) /\ Len(dh[g].slots) \in Nat
  BY DEF DeciderHandle
<1>1. /\ l \in Nat /\ Len(dm[h].slots) = l + 1 /\ dm[h].slots[l + 1] = p /\ r[h][l + 1] = s
      /\ \A i \in 1 .. l : dm[h].slots[i] = dh[h].slots[i] /\ r[h][i] = q[h][i]
  BY <1>0
<1> HIDE DEF l
<1>2. ASSUME NEW g \in DeciderHandles, NEW i \in 1 .. Len(dm[g].slots)
      PROVE  \/ /\ i \in 1 .. Len(dh[g].slots) /\ dm[g].slots[i] = dh[g].slots[i]
                /\ r[g][i] = q[g][i]
             \/ g = h /\ i = l + 1 /\ dm[g].slots[i] = p /\ r[g][i] = s
  <2>1. CASE g = h
    <3>1. i = l + 1 \/ i \in 1 .. l
      BY <1>1, <2>1
    <3> QED
      BY <1>1, <2>1, <3>1 DEF l
  <2>2. CASE g # h
    BY <2>2
  <2> QED
    BY <2>1, <2>2
<1>3. \A g \in DeciderHandles : \A i \in 1 .. Len(dh[g].slots) :
        /\ i \in 1 .. Len(dm[g].slots) /\ dm[g].slots[i] = dh[g].slots[i]
  <2> TAKE g \in DeciderHandles
  <2> TAKE i \in 1 .. Len(dh[g].slots)
  <2>1. CASE g = h
    <3>1. i \in 1 .. l
      BY <2>1 DEF l
    <3>2. i \in 1 .. l + 1
      BY <1>1, <3>1
    <3> QED
      BY <1>1, <2>1, <3>1, <3>2
  <2>2. CASE g # h
    BY <2>2
  <2> QED
    BY <2>1, <2>2
<1>4. ASSUME NEW g \in DeciderHandles, NEW i \in 1 .. Len(dh[g].slots), p # NULL
      PROVE  dh[g].slots[i] # p
  BY <1>4, OwnedSlots
<1>5. \A g, k \in DeciderHandles :
       \A i \in 1 .. Len(dm[g].slots), j \in 1 .. Len(dm[k].slots) :
         dm[g].slots[i] = dm[k].slots[j] /\ dm[g].slots[i] # NULL => g = k /\ i = j
  <2> SUFFICES ASSUME NEW g \in DeciderHandles, NEW k \in DeciderHandles,
                      NEW i \in 1 .. Len(dm[g].slots), NEW j \in 1 .. Len(dm[k].slots),
                      dm[g].slots[i] = dm[k].slots[j], dm[g].slots[i] # NULL
               PROVE  g = k /\ i = j
    OBVIOUS
  <2> DEFINE x == dm[g].slots[i]
  <2>1. \/ i \in 1 .. Len(dh[g].slots) /\ x = dh[g].slots[i]
        \/ g = h /\ i = l + 1 /\ x = p
    BY <1>2
  <2>2. \/ j \in 1 .. Len(dh[k].slots) /\ x = dh[k].slots[j]
        \/ k = h /\ j = l + 1 /\ x = p
    BY <1>2
  <2>3. x # NULL
    OBVIOUS
  <2> HIDE DEF x
  <2>4. CASE x = p
    BY <1>4, <2>1, <2>2, <2>3, <2>4
  <2>5. CASE x # p
    BY <2>1, <2>2, <2>3, <2>5 DEF SlotCore
  <2> QED
    BY <2>4, <2>5
<1>6. \A g \in DeciderHandles : \A i \in 1 .. Len(dm[g].slots), t \in Signals :
       mp[t] # NULL /\ dm[g].slots[i] \in K[mp[t]] => r[g][i] = t
  <2> SUFFICES ASSUME NEW g \in DeciderHandles, NEW i \in 1 .. Len(dm[g].slots),
                      NEW t \in Signals, mp[t] # NULL, dm[g].slots[i] \in K[mp[t]]
               PROVE  r[g][i] = t
    OBVIOUS
  <2>1. CASE dm[g].slots[i] = p
    <3>1. p # NULL /\ t = s
      BY <2>1
    <3>2. r[g][i] = s
      BY <1>2, <1>4, <2>1, <3>1
    <3> QED
      BY <3>1, <3>2
  <2>2. CASE dm[g].slots[i] # p
    <3>1. dm[g].slots[i] \in L[mp[t]]
      BY <2>2
    <3>2. /\ i \in 1 .. Len(dh[g].slots) /\ dm[g].slots[i] = dh[g].slots[i]
          /\ r[g][i] = q[g][i]
      BY <1>2, <2>2
    <3> QED
      BY <3>1, <3>2 DEF SlotCore
  <2> QED
    BY <2>1, <2>2
<1>7. SlotCore(dm, r, K, mp)
  BY <1>5, <1>6 DEF SlotCore
<1>8. \A n \in Nodes : n \in OwnedBy(dm) <=> n \in OwnedBy(dh) \/ n = p
  <2> TAKE n \in Nodes
  <2>1. ASSUME n \in OwnedBy(dm) PROVE n \in OwnedBy(dh) \/ n = p
    <3>1. PICK g \in DeciderHandles : \E i \in 1 .. Len(dm[g].slots) : dm[g].slots[i] = n
      BY <2>1, OwnedSlots
    <3> QED
      BY <1>2, <3>1, OwnedSlots, SMTT(30)
  <2>2. ASSUME n \in OwnedBy(dh) PROVE n \in OwnedBy(dm)
    <3>1. PICK g \in DeciderHandles : \E i \in 1 .. Len(dh[g].slots) : dh[g].slots[i] = n
      BY <2>2, OwnedSlots
    <3> QED
      BY <1>3, <3>1, OwnedSlots
  <2>3. ASSUME n = p PROVE n \in OwnedBy(dm)
    <3>1. l + 1 \in 1 .. Len(dm[h].slots) /\ dm[h].slots[l + 1] = n
      BY <1>1, <2>3
    <3> QED
      BY <3>1, OwnedSlots
  <2> QED
    BY <2>1, <2>2, <2>3
<1> QED
  BY <1>7, <1>8

-----------------------------------------------------------------------------
(* The invariant.                                                          *)

(* A destroy that found its signal uninstalled holds the last reference on *)
(* a node that no container links.                                         *)
OrphanCore(dh, cl, L) ==
  \A a \in Actors : cl[a].pc \in OrphanPCs =>
    /\ Pops(dh[cl[a].h], Min(cl[a].todo))
    /\ cl[a].current = Head(dh[cl[a].h].slots)
    /\ \A c \in Containers : cl[a].current \notin L[c]
    /\ cl[a].pc = "orphan_store" => cl[a].reg = 0

AbandonPCs == {"abandoned", "resuming"}

(* An abandoned decider keeps its handle and its installed signal.         *)
AbandonCore(cl, L, O, mp) ==
  \A a \in Actors : cl[a].pc \in AbandonPCs =>
    /\ cl[a].item \in Containers /\ cl[a].current \in L[cl[a].item]
    /\ cl[a].current \in O /\ \E s \in Signals : mp[s] = cl[a].item

LiveSet == {c \in Containers : info[c].state = "live"}
Linked == [c \in Containers |-> ToSet(info[c].global_handler)]
Deferred == [c \in Containers |-> ToSet(info[c].deferred_frees)]

DistinctLists == \A c \in Containers : Distinct(info[c].global_handler)
Counted == \A c \in Containers : info[c].state = "live" =>
             info[c].lifetime_refcount > 0
Core == NodeCore(LiveSet, Linked, Deferred, node, OwnedBy(dhandle), call)
Handles == \E q \in [DeciderHandles -> Seq(Signals)] :
             HandleCore(dhandle, call, q) /\ SlotCore(dhandle, q, Linked, map)

NodeInv ==
  /\ Lifetime /\ DistinctLists /\ Counted /\ Core /\ Handles
  /\ OrphanCore(dhandle, call, Linked)
  /\ AbandonCore(call, Linked, OwnedBy(dhandle), map)

(* Steps that neither relink nor touch what an orphaned node's destroy has *)
(* read keep it an orphan.                                                 *)
LEMMA OrphanKept ==
  ASSUME NEW dh, NEW cl, NEW L, OrphanCore(dh, cl, L), NEW dm, NEW cm, NEW K,
         NEW a \in Actors, \A b \in Actors : b # a => cm[b] = cl[b],
         cm[a].pc \notin OrphanPCs,
         \A b \in Actors : b # a /\ cl[b].pc \in OrphanPCs =>
           /\ dm[cl[b].h] = dh[cl[b].h]
           /\ \A c \in Containers : cl[b].current \in K[c] => cl[b].current \in L[c]
  PROVE  OrphanCore(dm, cm, K)
  BY DEF OrphanCore

(* The step of actor a touches neither a node, a list nor a handle, and    *)
(* keeps the actor out of the deciders' code.                              *)
LEMMA QuietNodes ==
  ASSUME NodeInv, Lifetime', NEW a \in Actors,
         \A b \in Actors : b # a => call'[b] = call[b],
         call[a].pc \notin DeciderPCs, call[a].pc # "decider",
         call'[a].pc \notin DeciderPCs, call'[a].pc \notin InsidePCs,
         node' = node, dhandle' = dhandle,
         \A c \in Containers :
           /\ info'[c].global_handler = info[c].global_handler
           /\ info'[c].deferred_frees = info[c].deferred_frees
           /\ info[c].state = "live" => info'[c].state = "live",
         Counted',
         \A s \in Signals : map'[s] = map[s] \/ Linked[map'[s]] = {},
         \A c \in Containers : InMap(c) => InMap(c)'
  PROVE  NodeInv'
<1>1. \A c \in Containers : Linked'[c] = Linked[c] /\ Deferred'[c] = Deferred[c]
  BY DEF Linked, Deferred
<1>2. \A c \in Containers : c \notin LiveSet' => Linked[c] = {} /\ Deferred[c] = {}
  <2>1. \A c \in Containers : c \notin LiveSet' => c \notin LiveSet
    BY DEF LiveSet
  <2> QED
    BY <2>1 DEF NodeInv, Core, NodeCore, Placed
<1>3. Core'
  <2>1. NodeCore(LiveSet, Linked, Deferred, node, OwnedBy(dhandle), call)
    BY DEF NodeInv, Core
  <2>2. \A m \in Nodes : m \in OwnedBy(dhandle') <=> m \in OwnedBy(dhandle)
    OBVIOUS
  <2>3. call[a].pc # "decider" /\ call'[a].pc # "decider"
    BY DEF InsidePCs
  <2>4. NodeCore(LiveSet', Linked', Deferred', node, OwnedBy(dhandle'), call')
    BY <1>1, <1>2, <2>1, <2>2, <2>3, CoreKept
  <2> QED
    BY <2>4 DEF Core
<1>4. Handles'
  <2>1. PICK q \in [DeciderHandles -> Seq(Signals)] :
          HandleCore(dhandle, call, q) /\ SlotCore(dhandle, q, Linked, map)
    BY DEF NodeInv, Handles
  <2>2. HandleCore(dhandle, call', q)
    BY <2>1, HandleKept
  <2>3. \A s \in Signals : \/ map'[s] = NULL
                           \/ Linked'[map'[s]] = {}
                           \/ map'[s] = map[s] /\ Linked'[map'[s]] \subseteq Linked[map[s]]
    <3>1. \A s \in Signals : map'[s] \in Containers \cup {NULL}
      BY DEF Lifetime, IType, TypeOK
    <3> QED
      BY <1>1, <3>1
  <2>4. SlotCore(dhandle, q, Linked', map')
    BY <2>1, <2>3, SlotKept
  <2> QED
    BY <2>2, <2>4 DEF Handles
<1>5. OrphanCore(dhandle, call', Linked')
  <2>1. OrphanCore(dhandle, call, Linked) /\ call'[a].pc \notin OrphanPCs
    BY DEF NodeInv, OrphanPCs, DeciderPCs
  <2> QED
    BY <1>1, <2>1, OrphanKept
<1>6. AbandonCore(call', Linked', OwnedBy(dhandle), map')
  <2>1. AbandonCore(call, Linked, OwnedBy(dhandle), map) /\ call'[a].pc \notin AbandonPCs
    BY DEF NodeInv, AbandonPCs, InsidePCs
  <2>2. \A b \in Actors : b # a /\ call[b].pc \in AbandonPCs =>
           /\ call[b].current \in Linked'[call[b].item]
           /\ call[b].current \in OwnedBy(dhandle)
           /\ \E s \in Signals : map'[s] = call[b].item
    BY <1>1, <2>1 DEF AbandonCore, InMap
  <2> QED
    BY <2>1, <2>2 DEF AbandonCore
<1>7. DistinctLists'
  BY DEF NodeInv, DistinctLists
<1> QED
  BY <1>3, <1>4, <1>5, <1>6, <1>7 DEF NodeInv

(* Actor a takes a step that leaves it out of the deciders' code.          *)
Away(a) == /\ \A b \in Actors : b # a => call'[b] = call[b]
           /\ call'[a].pc \notin DeciderPCs /\ call'[a].pc \notin InsidePCs

(* A step to a control point out of the deciders' code.                    *)
LEMMA StepAway ==
  ASSUME TypeOK, NEW a \in Actors, NEW k, Step(a, k),
         k.pc \notin DeciderPCs, k.pc \notin InsidePCs
  PROVE  Away(a)
  BY DEF TypeOK, Step, Away

(* Returning from the library.                                             *)
LEMMA ReturnAway ==
  ASSUME TypeOK, NEW a \in Actors, Return(a)
  PROVE  Away(a)
  BY StepAway, IdleType DEF Return, InsidePCs, DeciderPCs

(* The loops of siginstall() and siguninstall() stay out of it.            *)
LEMMA DoneAway ==
  ASSUME TypeOK, NEW a \in Actors, call[a].pc \in InstallPCs,
         InstallDone(a) \/ Rollback(a) \/ UninstallDone(a)
  PROVE  Away(a)
<1>1. call[a] \in Call
  BY CallType
<1>2. ASSUME NEW T, Step(a, [call[a] EXCEPT !.todo = T]) PROVE Away(a)
  <2>1. [call[a] EXCEPT !.todo = T].pc = call[a].pc
    BY <1>1 DEF Call
  <2> QED
    BY <1>2, <2>1, StepAway DEF InstallPCs, DeciderPCs, InsidePCs
<1>3. ASSUME NEW T, Step(a, [call[a] EXCEPT !.pc = "rollback", !.todo = T])
      PROVE  Away(a)
  <2>1. [call[a] EXCEPT !.pc = "rollback", !.todo = T].pc = "rollback"
    BY <1>1 DEF Call
  <2> QED
    BY <1>3, <2>1, StepAway DEF DeciderPCs, InsidePCs
<1> QED
  BY <1>2, <1>3, ReturnAway DEF InstallDone, Rollback, UninstallDone

(* A step that changes nothing of the registry but the dispositions.       *)
LEMMA Untouched ==
  ASSUME NodeInv, Lifetime', NEW a \in Actors, Away(a),
         call[a].pc \notin DeciderPCs, call[a].pc # "decider",
         node' = node, dhandle' = dhandle, map' = map, info' = info
  PROVE  NodeInv'
<1>1. Counted'
  BY DEF NodeInv, Counted
<1>2. \A c \in Containers : InMap(c) => InMap(c)'
  BY DEF InMap
<1> QED
  BY <1>1, <1>2, QuietNodes DEF Away

(* A container that is not live links no node.                             *)
LEMMA DeadEmpty ==
  ASSUME NodeInv, NEW c \in Containers, info[c].state # "live"
  PROVE  /\ Linked[c] = {}
         /\ info[c].global_handler = <<>> /\ info[c].deferred_frees = <<>>
<1>1. Linked[c] = {} /\ Deferred[c] = {}
  BY DEF NodeInv, Core, NodeCore, Placed, LiveSet
<1>2. info[c].global_handler \in Seq(Nodes) /\ info[c].deferred_frees \in Seq(Nodes)
  BY InfoType DEF NodeInv, Lifetime, IType, TypeOK
<1> QED
  BY <1>1, <1>2, EmptyList DEF Linked, Deferred

(* siginstall() and the start of siguninstall().                           *)
LEMMA NodesInstall ==
  ASSUME NodeInv, Lifetime', NEW a \in Actors,
         \/ Siginstall(a) \/ InstallFirst(a) \/ InstallAgain(a)
         \/ InstallFails(a) \/ InstallTssFails(a) \/ Siguninstall(a)
  PROVE  NodeInv'
<1>0. /\ IType /\ TypeOK /\ CallShape /\ call[a] \in Call
      /\ info \in [Containers -> SighandlerInfo]
      /\ map \in [Signals -> Containers \cup {NULL}]
  BY CallType DEF NodeInv, Lifetime, IType, TypeOK
<1>s. ASSUME call[a].pc \in InstallPCs
      PROVE  /\ Signo(a) \in Signals /\ map[Signo(a)] \in Containers \cup {NULL}
             /\ call[a].pc \notin DeciderPCs /\ call[a].pc # "decider"
  BY <1>0, <1>s, SignoType DEF InstallPCs, DeciderPCs
<1>i. call[a].pc = "idle" => call[a].pc \notin DeciderPCs /\ call[a].pc # "decider"
  BY DEF DeciderPCs
<1>1. CASE Siginstall(a)
  <2>1. PICK h, S : Step(a, [Idle EXCEPT !.pc = "installing", !.todo = S, !.h = h])
    BY <1>1 DEF Siginstall
  <2>2. [Idle EXCEPT !.pc = "installing", !.todo = S, !.h = h].pc = "installing"
    BY IdleType DEF Call
  <2>3. Away(a)
    BY <1>0, <2>1, <2>2, StepAway DEF InsidePCs, DeciderPCs
  <2> QED
    BY <1>1, <1>i, <2>3, Untouched DEF Siginstall, At, registry
<1>2. CASE InstallFirst(a)
  <2>1. call[a].pc = "installing" /\ call[a].pc \in InstallPCs
    BY <1>2 DEF InstallFirst, At, InstallPCs
  <2>2. Away(a)
    BY <1>0, <1>2, <2>1, DoneAway DEF InstallFirst
  <2> DEFINE s == Signo(a)
  <2>3. s \in Signals /\ map[s] = NULL
    BY <1>2, <1>s, <2>1 DEF InstallFirst
  <2>4. PICK c \in Containers :
          /\ info[c].state = "unused"
          /\ info' = [info EXCEPT ![c] =
               [state |-> "live", install_count |-> 1, lifetime_refcount |-> 1,
                old_handler |-> disposition[s],
                global_handler |-> <<>>, deferred_frees |-> <<>>]]
          /\ map' = [map EXCEPT ![s] = c]
    BY <1>2 DEF InstallFirst
  <2>5. node' = node /\ dhandle' = dhandle
    BY <1>2 DEF InstallFirst
  <2> HIDE DEF s
  <2>6. /\ info'[c].state = "live" /\ info'[c].lifetime_refcount = 1
        /\ info'[c].global_handler = <<>> /\ info'[c].deferred_frees = <<>>
        /\ \A d \in Containers : d # c => info'[d] = info[d]
    BY <1>0, <2>4
  <2>7. \A t \in Signals : map'[t] = IF t = s THEN c ELSE map[t]
    BY <1>0, <2>4
  <2>8. /\ Linked[c] = {}
        /\ info[c].global_handler = <<>> /\ info[c].deferred_frees = <<>>
    BY <2>4, DeadEmpty
  <2>9. Counted'
    BY <2>6 DEF Counted, NodeInv
  <2>10. \A t \in Signals : map'[t] = map[t] \/ Linked[map'[t]] = {}
    BY <2>7, <2>8
  <2>11. \A d \in Containers : InMap(d) => InMap(d)'
    BY <2>3, <2>7, NullAssumption DEF InMap
  <2>12. \A d \in Containers :
           /\ info'[d].global_handler = info[d].global_handler
           /\ info'[d].deferred_frees = info[d].deferred_frees
           /\ info[d].state = "live" => info'[d].state = "live"
    BY <2>6, <2>8
  <2> QED
    BY <1>s, <2>1, <2>2, <2>5, <2>9, <2>10, <2>11, <2>12, QuietNodes DEF Away
<1>3. CASE InstallAgain(a)
  <2> DEFINE c == map[Signo(a)]
  <2>1. call[a].pc = "installing" /\ call[a].pc \in InstallPCs
    BY <1>3 DEF InstallAgain, At, InstallPCs
  <2>2. Away(a)
    BY <1>0, <1>3, <2>1, DoneAway DEF InstallAgain
  <2>3. c \in Containers
    BY <1>3, <1>s, <2>1 DEF InstallAgain
  <2>4. info' = [info EXCEPT ![c].install_count = info[c].install_count + 1]
        /\ map' = map /\ node' = node /\ dhandle' = dhandle
    BY <1>3 DEF InstallAgain
  <2> HIDE DEF c
  <2>5. ASSUME NEW r \in SighandlerInfo, NEW x
        PROVE  LET q == [r EXCEPT !.install_count = x]
               IN  /\ q.state = r.state /\ q.lifetime_refcount = r.lifetime_refcount
                   /\ q.global_handler = r.global_handler
                   /\ q.deferred_frees = r.deferred_frees
    BY DEF SighandlerInfo
  <2>6. \A d \in Containers :
          /\ info'[d].global_handler = info[d].global_handler
          /\ info'[d].deferred_frees = info[d].deferred_frees
          /\ info'[d].state = info[d].state
          /\ info'[d].lifetime_refcount = info[d].lifetime_refcount
    BY <1>0, <2>3, <2>4, <2>5
  <2>7. Counted'
    BY <2>6 DEF Counted, NodeInv
  <2>8. \A d \in Containers : InMap(d) => InMap(d)'
    BY <2>4 DEF InMap
  <2> QED
    BY <1>s, <2>1, <2>2, <2>4, <2>6, <2>7, <2>8, QuietNodes DEF Away
<1>4. CASE InstallFails(a)
  <2>1. call[a].pc = "installing" /\ call[a].pc \in InstallPCs
    BY <1>4 DEF InstallFails, At, InstallPCs
  <2>2. Away(a)
    BY <1>0, <1>4, <2>1, DoneAway DEF InstallFails
  <2> QED
    BY <1>4, <1>s, <2>1, <2>2, Untouched DEF InstallFails, registry
<1>5. CASE InstallTssFails(a)
  <2>1. call[a].pc = "installing" /\ call[a].pc \in InstallPCs
    BY <1>5 DEF InstallTssFails, At, InstallPCs
  <2>2. Away(a)
    BY <1>0, <1>5, <2>1, DoneAway DEF InstallTssFails
  <2>3. PICK c \in Containers : /\ info[c].state = "unused"
                                /\ info' = [info EXCEPT ![c].state = "freed"]
    BY <1>5 DEF InstallTssFails
  <2>4. map' = map /\ node' = node /\ dhandle' = dhandle
    BY <1>5 DEF InstallTssFails, installed
  <2>5. ASSUME NEW r \in SighandlerInfo
        PROVE  LET q == [r EXCEPT !.state = "freed"]
               IN  /\ q.state = "freed"
                   /\ q.global_handler = r.global_handler
                   /\ q.deferred_frees = r.deferred_frees
    BY DEF SighandlerInfo
  <2>6. /\ \A d \in Containers :
             /\ info'[d].global_handler = info[d].global_handler
             /\ info'[d].deferred_frees = info[d].deferred_frees
        /\ info'[c].state = "freed" /\ \A d \in Containers : d # c => info'[d] = info[d]
    BY <1>0, <2>3, <2>5
  <2>7. Counted'
    BY <2>6 DEF Counted, NodeInv
  <2>8. \A d \in Containers : InMap(d) => InMap(d)'
    BY <2>4 DEF InMap
  <2>9. \A d \in Containers : info[d].state = "live" => info'[d].state = "live"
    BY <2>3, <2>6
  <2> QED
    BY <1>s, <2>1, <2>2, <2>4, <2>6, <2>7, <2>8, <2>9, QuietNodes DEF Away
<1>6. CASE Siguninstall(a)
  <2>1. PICK h, S : Step(a, [Idle EXCEPT !.pc = "uninstalling", !.todo = S,
                                         !.h = h])
    BY <1>6 DEF Siguninstall
  <2>2. [Idle EXCEPT !.pc = "uninstalling", !.todo = S, !.h = h].pc = "uninstalling"
    BY IdleType DEF Call
  <2>3. Away(a)
    BY <1>0, <2>1, <2>2, StepAway DEF InsidePCs, DeciderPCs
  <2> QED
    BY <1>6, <1>i, <2>3, Untouched DEF Siguninstall, At, registry
<1> QED
  BY <1>1, <1>2, <1>3, <1>4, <1>5, <1>6

(* invoke_sigaction() touches no container and no node.                    *)
LEMMA NodesInvoke ==
  ASSUME NodeInv, Lifetime', NEW a \in Actors, Invoke(a)
  PROVE  NodeInv'
<1>0. TypeOK /\ call[a] \in Call
  BY CallType DEF NodeInv, Lifetime, IType
<1>1. /\ map' = map /\ info' = info /\ node' = node /\ dhandle' = dhandle
      /\ call[a].pc \notin DeciderPCs /\ call[a].pc # "decider"
  BY DEF Invoke, InvokeOther, InvokeRawSignalHandler, InvokeDefault, DefaultSet,
         DefaultKill, DefaultRestore, At, registry, handles, DeciderPCs
<1>2. \/ Return(a)
      \/ Step(a, [Idle EXCEPT !.pc = "raising", !.signo = call[a].signo,
                              !.delivered = TRUE])
      \/ \E o : Step(a, [call[a] EXCEPT !.pc = "dfl_set", !.sa = o])
      \/ \E p \in {"dfl_kill", "dfl_restore", "terminated"} :
           Step(a, [call[a] EXCEPT !.pc = p])
  BY DEF Invoke, InvokeOther, InvokeRawSignalHandler, InvokeDefault, DefaultSet,
         DefaultKill, DefaultRestore
<1>3. /\ [Idle EXCEPT !.pc = "raising", !.signo = call[a].signo,
                      !.delivered = TRUE].pc = "raising"
      /\ \A o : [call[a] EXCEPT !.pc = "dfl_set", !.sa = o].pc = "dfl_set"
      /\ \A p : [call[a] EXCEPT !.pc = p].pc = p
  BY <1>0, IdleType DEF Call
<1>4. Away(a)
  BY <1>0, <1>2, <1>3, ReturnAway, StepAway DEF InsidePCs, DeciderPCs
<1> QED
  BY <1>1, <1>4, Untouched

-----------------------------------------------------------------------------
(* A step outside the handles that at most unlinks nodes and erases        *)
(* entries of the map.                                                     *)
LEMMA SideFrame ==
  ASSUME NodeInv, IType', NEW a \in Actors,
         \A b \in Actors : b # a => call'[b] = call[b],
         call[a].pc \notin DeciderPCs, call'[a].pc \notin DeciderPCs,
         dhandle' = dhandle,
         \A c \in Containers : Linked'[c] \subseteq Linked[c],
         \A s \in Signals : map'[s] = NULL \/ map'[s] = map[s]
  PROVE  Handles' /\ OrphanCore(dhandle', call', Linked')
<1>1. PICK q \in [DeciderHandles -> Seq(Signals)] :
        HandleCore(dhandle, call, q) /\ SlotCore(dhandle, q, Linked, map)
  BY DEF NodeInv, Handles
<1>2. HandleCore(dhandle, call', q)
  BY <1>1, HandleKept
<1>3. \A s \in Signals : \/ map'[s] = NULL
                         \/ Linked'[map'[s]] = {}
                         \/ map'[s] = map[s] /\ Linked'[map'[s]] \subseteq Linked[map[s]]
  <2>1. \A s \in Signals : map'[s] \in Containers \cup {NULL}
    BY DEF IType, TypeOK
  <2> QED
    BY <2>1
<1>4. SlotCore(dhandle, q, Linked', map')
  BY <1>1, <1>3, SlotKept
<1>5. Handles'
  BY <1>2, <1>4 DEF Handles
<1>6. OrphanCore(dhandle, call, Linked) /\ call'[a].pc \notin OrphanPCs
  BY DEF NodeInv, OrphanPCs, DeciderPCs
<1>7. OrphanCore(dhandle, call', Linked')
  BY <1>6, OrphanKept
<1> QED
  BY <1>5, <1>7

(* A step that leaves the abandoned deciders linked and installed.         *)
LEMMA AbandonSide ==
  ASSUME NodeInv, NEW a \in Actors,
         \A b \in Actors : b # a => call'[b] = call[b],
         call'[a].pc \notin AbandonPCs, NEW O,
         \A b \in Actors : b # a /\ call[b].pc \in AbandonPCs =>
           /\ call[b].current \in OwnedBy(dhandle) => call[b].current \in O
           /\ call[b].item \in Containers /\ call[b].current \in Linked[call[b].item] =>
                call[b].current \in Linked'[call[b].item]
           /\ \A s \in Signals : map[s] = call[b].item => map'[s] = call[b].item
  PROVE  AbandonCore(call', Linked', O, map')
<1>1. AbandonCore(call, Linked, OwnedBy(dhandle), map)
  BY DEF NodeInv
<1> QED
  BY <1>1 DEF AbandonCore

(* The lists after sighandler_info_release().                              *)
LEMMA ReleaseLists ==
  ASSUME NEW infos \in [Containers -> SighandlerInfo], NEW c \in Containers
  PROVE  IF infos[c].lifetime_refcount = 1
         THEN /\ Release(infos, c)[c].global_handler = <<>>
              /\ Release(infos, c)[c].deferred_frees = <<>>
         ELSE /\ Release(infos, c)[c].global_handler = infos[c].global_handler
              /\ Release(infos, c)[c].deferred_frees = infos[c].deferred_frees
<1>1. infos[c] \in SighandlerInfo
  OBVIOUS
<1>2. CASE infos[c].lifetime_refcount = 1
  <2> DEFINE r == [infos[c] EXCEPT !.lifetime_refcount = 0, !.state = "freed",
                       !.global_handler = <<>>, !.deferred_frees = <<>>]
  <2>1. r.global_handler = <<>> /\ r.deferred_frees = <<>>
    BY <1>1 DEF SighandlerInfo
  <2>2. Release(infos, c) = [infos EXCEPT ![c] = r]
    BY <1>2 DEF Release
  <2> HIDE DEF r
  <2> QED
    BY <1>2, <2>1, <2>2
<1>3. CASE infos[c].lifetime_refcount # 1
  <2> DEFINE x == infos[c].lifetime_refcount - 1
             r == [infos[c] EXCEPT !.lifetime_refcount = x]
  <2>1. /\ r.global_handler = infos[c].global_handler
        /\ r.deferred_frees = infos[c].deferred_frees
    BY <1>1 DEF SighandlerInfo
  <2>2. Release(infos, c) = [infos EXCEPT ![c] = r]
    BY <1>3 DEF Release
  <2> HIDE DEF r
  <2> QED
    BY <1>3, <2>1, <2>2
<1> QED
  BY <1>2, <1>3

(* free() of the nodes in S.                                               *)
LEMMA FreedNodes ==
  ASSUME NEW nodes \in [Nodes -> Decider], NEW S
  PROVE  /\ FreeNodes(nodes, S) \in [Nodes -> Decider]
         /\ \A m \in Nodes : IF m \in S
              THEN /\ FreeNodes(nodes, S)[m].state = "freed"
                   /\ FreeNodes(nodes, S)[m].refcount = nodes[m].refcount
              ELSE FreeNodes(nodes, S)[m] = nodes[m]
<1>1. \A r \in Decider : /\ [r EXCEPT !.state = "freed"].state = "freed"
                         /\ [r EXCEPT !.state = "freed"].refcount = r.refcount
  BY DEF Decider
<1> QED
  BY <1>1, FreeNodesType DEF FreeNodes

(* uninstall_sighandler().                                                 *)
LEMMA NodesUninstall ==
  ASSUME Careful, NodeInv, Lifetime', NEW a \in Actors, UninstallSighandler(a)
  PROVE  NodeInv'
<1>0. /\ IType /\ TypeOK /\ CallShape /\ call[a] \in Call
      /\ info \in [Containers -> SighandlerInfo] /\ node \in [Nodes -> Decider]
      /\ map \in [Signals -> Containers \cup {NULL}] /\ IType'
  BY CallType DEF NodeInv, Lifetime, IType, TypeOK
<1>1. call[a].pc \in InstallPCs
  BY DEF UninstallSighandler, At, InstallPCs
<1>2. Away(a) /\ call[a].pc \notin DeciderPCs /\ call[a].pc # "decider" /\ dhandle' = dhandle
  BY <1>0, <1>1, DoneAway DEF UninstallSighandler, InstallPCs, DeciderPCs
<1> DEFINE s == Signo(a)
           c == map[s]
<1>3. s \in Signals /\ c \in Containers \cup {NULL}
  BY <1>0, <1>1, SignoType
<1>4. CASE c = NULL
  <2>1. UNCHANGED registry
    BY <1>4 DEF UninstallSighandler
  <2> QED
    BY <1>2, <2>1, Untouched DEF registry
<1>5. CASE c # NULL
  <2>1. /\ UninstallAllowed(c)
        /\ node' = FreeNodes(node, ToSet(info[c].deferred_frees))
        /\ \/ map' = [map EXCEPT ![s] = NULL] /\ info' = Release(Uninstalled(c), c)
           \/ map' = map /\ info' = Uninstalled(c)
    BY <1>5 DEF UninstallSighandler
  <2>2. c \in Containers /\ map[s] = c
    BY <1>3, <1>5
  <2> HIDE DEF s, c
  <2>3. /\ Uninstalled(c) \in [Containers -> SighandlerInfo]
        /\ Uninstalled(c)[c].global_handler = info[c].global_handler
        /\ Uninstalled(c)[c].deferred_frees = <<>>
        /\ Uninstalled(c)[c].state = info[c].state
        /\ Uninstalled(c)[c].lifetime_refcount = info[c].lifetime_refcount
        /\ \A d \in Containers : d # c => Uninstalled(c)[d] = info[d]
    <3>1. ASSUME NEW r \in SighandlerInfo, NEW x
          PROVE  LET q == [r EXCEPT !.install_count = x, !.deferred_frees = <<>>]
                 IN  /\ q.state = r.state /\ q.lifetime_refcount = r.lifetime_refcount
                     /\ q.global_handler = r.global_handler /\ q.deferred_frees = <<>>
      BY DEF SighandlerInfo
    <3>2. Uninstalled(c) \in [Containers -> SighandlerInfo]
      BY <1>0, <2>2, UninstalledType
    <3> QED
      BY <1>0, <2>2, <3>1, <3>2 DEF Uninstalled
  <2>4. info[c].state = "live" /\ info[c].lifetime_refcount > 0
        /\ info[c].lifetime_refcount \in Int
    BY <1>0, <1>3, <1>5, <2>2, InfoType DEF NodeInv, Lifetime, LiveWhileHeld, Counted, c
  <2> DEFINE gone == map'[s] = NULL /\ info[c].lifetime_refcount = 1
  <2>5. /\ \A d \in Containers : d # c => info'[d] = info[d]
        /\ info'[c].deferred_frees = <<>>
        /\ IF gone THEN info'[c].global_handler = <<>> /\ info'[c].state = "freed"
           ELSE /\ info'[c].global_handler = info[c].global_handler
                /\ info'[c].state = "live" /\ info'[c].lifetime_refcount > 0
        /\ \A t \in Signals : t # s => map'[t] = map[t]
        /\ map'[s] = NULL \/ map'[s] = map[s]
    <3>1. CASE map' = [map EXCEPT ![s] = NULL] /\ info' = Release(Uninstalled(c), c)
      <4>1. map'[s] = NULL /\ \A t \in Signals : t # s => map'[t] = map[t]
        BY <1>0, <1>3, <3>1
      <4>2. /\ \A d \in Containers : d # c => info'[d] = info[d]
            /\ info'[c].lifetime_refcount = info[c].lifetime_refcount - 1
            /\ info'[c].state = IF info[c].lifetime_refcount = 1 THEN "freed" ELSE "live"
        BY <2>2, <2>3, <2>4, <3>1, ReleaseCounts
      <4>3. IF info[c].lifetime_refcount = 1
            THEN info'[c].global_handler = <<>> /\ info'[c].deferred_frees = <<>>
            ELSE /\ info'[c].global_handler = info[c].global_handler
                 /\ info'[c].deferred_frees = <<>>
        BY <2>2, <2>3, <3>1, ReleaseLists
      <4>4. gone <=> info[c].lifetime_refcount = 1
        BY <4>1
      <4> QED
        BY <2>4, <4>1, <4>2, <4>3, <4>4
    <3>2. CASE map' = map /\ info' = Uninstalled(c)
      <4>1. map'[s] # NULL
        BY <2>2, <3>2, NullAssumption
      <4> QED
        BY <2>3, <2>4, <3>2, <4>1
    <3> QED
      BY <2>1, <3>1, <3>2
  <2> HIDE DEF gone
  <2>6. /\ \A d \in Containers : d # c => Linked'[d] = Linked[d] /\ Deferred'[d] = Deferred[d]
        /\ Deferred'[c] = {} /\ Linked'[c] = IF gone THEN {} ELSE Linked[c]
        /\ \A d \in Containers : d # c => (d \in LiveSet' <=> d \in LiveSet)
        /\ ~gone => c \in LiveSet'
    <3>1. ToSet(<<>>) = {}
      BY DEF ToSet
    <3> QED
      BY <2>2, <2>5, <3>1 DEF Linked, Deferred, LiveSet
  <2>7. Core'
    <3>1. NodeCore(LiveSet, Linked, Deferred, node, OwnedBy(dhandle), call)
      BY DEF NodeInv, Core
    <3>2. /\ node' \in [Nodes -> Decider]
          /\ \A m \in Nodes : IF m \in Deferred[c] THEN node'[m].state = "freed"
                                                  ELSE node'[m] = node[m]
      BY <1>0, <2>1, <2>2, FreedNodes DEF Deferred
    <3>3. gone => \A b \in Actors : call'[b].pc = "decider" => call'[b].item # c
      BY <2>5 DEF Lifetime, LiveWhileHeld
    <3>4. call'[a].pc # "decider"
      BY <1>2 DEF Away, InsidePCs
    <3>6. \A b \in Actors : b # a => call'[b] = call[b]
      BY <1>2 DEF Away
    <3>7. NodeCore(LiveSet, Linked, Deferred', node', OwnedBy(dhandle), call)
      BY <2>2, <2>6, <3>1, <3>2, CoreDrain
    <3>8. CASE gone
      <4>1. /\ Linked'[c] = {} /\ Deferred'[c] = {}
            /\ \A d \in Containers : d # c => Linked'[d] = Linked[d]
        BY <2>6, <3>8
      <4>2. \A b \in Actors : call[b].pc = "decider" => call[b].item # c
        BY <1>2, <3>3, <3>6, <3>8
      <4>3. \A d \in Containers : d # c /\ d \in LiveSet => d \in LiveSet'
        BY <2>6
      <4>4. NodeCore(LiveSet', Linked', Deferred', node', OwnedBy(dhandle), call)
        BY <2>2, <3>7, <4>1, <4>2, <4>3, CoreClear
      <4>5. \A d \in Containers : d \notin LiveSet' => Linked'[d] = {} /\ Deferred'[d] = {}
        BY <4>4 DEF NodeCore, Placed
      <4>6. call[a].pc # "decider" /\ call'[a].pc # "decider"
        BY <1>2, <3>4
      <4>7. NodeCore(LiveSet', Linked', Deferred', node', OwnedBy(dhandle), call')
        BY <3>6, <4>4, <4>5, <4>6, CoreKept
      <4> QED
        BY <1>2, <4>7 DEF Core
    <3>9. CASE ~gone
      <4>1. \A d \in Containers : Linked'[d] = Linked[d]
        BY <2>6, <3>9
      <4>2. \A d \in Containers : d \notin LiveSet' => Linked[d] = {} /\ Deferred'[d] = {}
        BY <2>6, <3>7, <3>9 DEF NodeCore, Placed
      <4>3. call[a].pc # "decider" /\ call'[a].pc # "decider"
        BY <1>2, <3>4
      <4>4. NodeCore(LiveSet', Linked', Deferred', node', OwnedBy(dhandle), call')
        BY <3>6, <3>7, <4>1, <4>2, <4>3, CoreKept
      <4> QED
        BY <1>2, <4>4 DEF Core
    <3> QED
      BY <3>8, <3>9
  <2>8. Handles' /\ OrphanCore(dhandle', call', Linked')
    BY <1>0, <1>2, <2>5, <2>6, SideFrame DEF Away
  <2>9. AbandonCore(call', Linked', OwnedBy(dhandle), map')
    <3>1. \A b \in Actors : call[b].pc \in AbandonPCs => call[b].item # c
      BY <2>1 DEF UninstallAllowed, RaisesIn, InDecider, Abandoned, AbandonPCs
    <3>2. call'[a].pc \notin AbandonPCs
      BY <1>2 DEF Away, AbandonPCs, InsidePCs
    <3>3. \A b \in Actors : b # a /\ call[b].pc \in AbandonPCs =>
           /\ call[b].current \in OwnedBy(dhandle) => call[b].current \in OwnedBy(dhandle)
           /\ call[b].item \in Containers /\ call[b].current \in Linked[call[b].item] =>
                call[b].current \in Linked'[call[b].item]
           /\ \A t \in Signals : map[t] = call[b].item => map'[t] = call[b].item
      BY <2>2, <2>5, <2>6, <3>1
    <3> QED
      BY <1>2, <3>2, <3>3, AbandonSide DEF Away
  <2>10. DistinctLists'
    BY <2>5, EmptyList, Literals DEF NodeInv, DistinctLists
  <2>11. Counted'
    BY <2>5 DEF NodeInv, Counted
  <2> QED
    BY <1>2, <2>7, <2>8, <2>9, <2>10, <2>11 DEF NodeInv
<1> QED
  BY <1>4, <1>5

-----------------------------------------------------------------------------
(* stdc_raise().                                                           *)

(* The parts of a raise outside the deciders.                              *)
LEMMA NodesOutside ==
  ASSUME NodeInv, Lifetime', NEW a \in Actors,
         \/ StdcRaise(a) \/ RawSignalHandler(a) \/ RaiseUninstalled(a)
         \/ RaiseNoDecider(a) \/ LeaveAbandoned(a)
  PROVE  NodeInv'
<1>0. TypeOK /\ call[a] \in Call
  BY CallType DEF NodeInv, Lifetime, IType
<1>1. /\ map' = map /\ info' = info /\ node' = node /\ dhandle' = dhandle
      /\ call[a].pc \notin DeciderPCs /\ call[a].pc # "decider"
  BY DEF StdcRaise, RawSignalHandler, RaiseUninstalled, RaiseNoDecider,
         LeaveAbandoned, At, registry, handles, DeciderPCs
<1>2. \/ Return(a)
      \/ \E s : Step(a, [Idle EXCEPT !.pc = "raising", !.signo = s])
      \/ \E s : Step(a, [Idle EXCEPT !.pc = "raising", !.signo = s,
                                     !.delivered = TRUE])
      \/ \E o : Step(a, [call[a] EXCEPT !.pc = "handoff", !.sa = o])
  BY DEF StdcRaise, RawSignalHandler, RaiseUninstalled, RaiseNoDecider,
         LeaveAbandoned
<1>3. /\ \A s : [Idle EXCEPT !.pc = "raising", !.signo = s].pc = "raising"
      /\ \A s : [Idle EXCEPT !.pc = "raising", !.signo = s,
                             !.delivered = TRUE].pc = "raising"
      /\ \A o : [call[a] EXCEPT !.pc = "handoff", !.sa = o].pc = "handoff"
  BY <1>0, IdleType DEF Call
<1>4. Away(a)
  BY <1>0, <1>2, <1>3, ReturnAway, StepAway DEF InsidePCs, DeciderPCs
<1> QED
  BY <1>1, <1>4, Untouched

(* Counting a reference leaves the lists of a container alone.             *)
LEMMA CountOnly ==
  ASSUME NEW infos \in [Containers -> SighandlerInfo], NEW c \in Containers, NEW x
  PROVE  LET j == [infos EXCEPT ![c].lifetime_refcount = x]
         IN  /\ j[c].lifetime_refcount = x
             /\ \A d \in Containers :
                  /\ d # c => j[d] = infos[d]
                  /\ j[d].state = infos[d].state
                  /\ j[d].global_handler = infos[d].global_handler
                  /\ j[d].deferred_frees = infos[d].deferred_frees
<1>1. ASSUME NEW r \in SighandlerInfo
      PROVE  LET q == [r EXCEPT !.lifetime_refcount = x]
             IN  /\ q.state = r.state /\ q.lifetime_refcount = x
                 /\ q.global_handler = r.global_handler
                 /\ q.deferred_frees = r.deferred_frees
  BY DEF SighandlerInfo
<1> QED
  BY <1>1

(* Counting a reference on a node.                                         *)
LEMMA NodeCount ==
  ASSUME NEW nodes \in [Nodes -> Decider], NEW n \in Nodes, NEW x \in Int
  PROVE  LET j == [nodes EXCEPT ![n].refcount = x]
         IN  /\ j \in [Nodes -> Decider]
             /\ j[n].refcount = x /\ j[n].state = nodes[n].state
             /\ \A m \in Nodes : m # n => j[m] = nodes[m]
<1>1. \A r \in Decider : /\ [r EXCEPT !.refcount = x].refcount = x
                         /\ [r EXCEPT !.refcount = x].state = r.state
  BY DEF Decider
<1> QED
  BY <1>1, NodeType

(* A raise takes its references on a container and a node linked in it.    *)
LEMMA PinFrame ==
  ASSUME NodeInv, Lifetime', NEW a \in Actors, NEW c \in Containers, NEW n \in Linked[c],
         \A b \in Actors : b # a => call'[b] = call[b],
         call[a].pc \notin DeciderPCs, call[a].pc # "decider",
         call'[a].pc = "decider", call'[a].item = c, call'[a].current = n,
         info' = [info EXCEPT ![c].lifetime_refcount = info[c].lifetime_refcount + 1],
         node' = [node EXCEPT ![n].refcount = node[n].refcount + 1],
         map' = map, dhandle' = dhandle
  PROVE  NodeInv'
<1>0. /\ IType' /\ info \in [Containers -> SighandlerInfo] /\ node \in [Nodes -> Decider]
  BY DEF NodeInv, Lifetime, IType, TypeOK
<1>1. NodeCore(LiveSet, Linked, Deferred, node, OwnedBy(dhandle), call)
  BY DEF NodeInv, Core
<1>2. n \in Nodes /\ node[n].refcount \in Int /\ node[n].refcount + 1 \in Int
  BY <1>0, <1>1, NodeType DEF NodeCore, Placed
<1>3. /\ node' \in [Nodes -> Decider]
      /\ node'[n].refcount = node[n].refcount + 1 /\ node'[n].state = node[n].state
      /\ \A m \in Nodes : m # n => node'[m] = node[m]
  BY <1>0, <1>2, NodeCount
<1>4. /\ info'[c].lifetime_refcount = info[c].lifetime_refcount + 1
      /\ \A d \in Containers :
           /\ d # c => info'[d] = info[d]
           /\ info'[d].state = info[d].state
           /\ info'[d].global_handler = info[d].global_handler
           /\ info'[d].deferred_frees = info[d].deferred_frees
  BY <1>0, CountOnly
<1>5. LiveSet' = LiveSet /\ Linked' = Linked /\ Deferred' = Deferred
  BY <1>4 DEF LiveSet, Linked, Deferred
<1>6. NodeCore(LiveSet, Linked, Deferred, node', OwnedBy(dhandle), call')
  <2> DEFINE O == OwnedBy(dhandle)
             nd2 == node'
             cl2 == call'
  <2>1. /\ NodeCore(LiveSet, Linked, Deferred, node, O, call) /\ nd2 \in [Nodes -> Decider]
        /\ nd2[n].refcount = node[n].refcount + 1 /\ nd2[n].state = node[n].state
        /\ \A m \in Nodes : m # n => nd2[m] = node[m]
    BY <1>1, <1>3
  <2>2. /\ cl2[a].pc = "decider" /\ cl2[a].item = c /\ cl2[a].current = n
        /\ \A b \in Actors : b # a => cl2[b] = call[b]
        /\ call[a].pc # "decider"
    OBVIOUS
  <2> HIDE DEF O, nd2, cl2
  <2>3. NodeCore(LiveSet, Linked, Deferred, nd2, O, cl2)
    BY ONLY <2>1, <2>2, CorePin, a \in Actors, c \in Containers, n \in Linked[c]
  <2> QED
    BY <2>3 DEF O, nd2, cl2
<1>7. Core'
  BY <1>5, <1>6 DEF Core
<1>8. Handles' /\ OrphanCore(dhandle', call', Linked')
  <2>1. call'[a].pc \notin DeciderPCs
    BY DEF DeciderPCs
  <2>2. \A d \in Containers : Linked'[d] \subseteq Linked[d]
    BY <1>5
  <2> QED
    BY <1>0, <2>1, <2>2, SideFrame
<1>9. AbandonCore(call', Linked', OwnedBy(dhandle), map')
  <2>1. call'[a].pc \notin AbandonPCs
    BY DEF AbandonPCs
  <2> QED
    BY <1>5, <2>1, AbandonSide
<1>10. DistinctLists'
  BY <1>4 DEF NodeInv, DistinctLists
<1>11. Counted'
  <2>1. info[c].lifetime_refcount \in Int
    BY <1>0, InfoType
  <2> QED
    BY <1>4, <2>1 DEF NodeInv, Counted
<1> QED
  BY <1>7, <1>8, <1>9, <1>10, <1>11 DEF NodeInv

(* A raise enters the first decider, or goes back into the one it had      *)
(* abandoned.                                                              *)
LEMMA NodesEnter ==
  ASSUME NodeInv, Lifetime', NEW a \in Actors, RaiseEnter(a) \/ AbandonResumeLocked(a)
  PROVE  NodeInv'
<1>0. /\ IType /\ TypeOK /\ CallShape /\ call[a] \in Call
      /\ info \in [Containers -> SighandlerInfo]
      /\ map \in [Signals -> Containers \cup {NULL}]
  BY CallType DEF NodeInv, Lifetime, IType, TypeOK
<1>o. ASSUME NEW k, Step(a, k)
      PROVE  call'[a] = k /\ \A b \in Actors : b # a => call'[b] = call[b]
  BY <1>0, <1>o DEF Step, TypeOK
<1>1. CASE RaiseEnter(a)
  <2> DEFINE c == map[call[a].signo]
             n == Head(info[c].global_handler)
  <2>1. /\ call[a].pc = "raising" /\ c # NULL /\ map' = map /\ dhandle' = dhandle
        /\ info[c].global_handler # <<>>
        /\ info' = [info EXCEPT ![c].lifetime_refcount = info[c].lifetime_refcount + 1]
        /\ node' = [node EXCEPT ![n].refcount = node[n].refcount + 1]
    BY <1>1 DEF RaiseEnter, At, installed, handles
  <2>2. c \in Containers
    <3>1. call[a].signo \in Signals
      BY <1>0, <2>1 DEF CallShape, ShapeOf, RaisePCs
    <3> QED
      BY <1>0, <2>1, <3>1
  <2>3. n \in Linked[c]
    <3>1. info[c].global_handler \in Seq(Nodes)
      BY <1>0, <2>2, InfoType
    <3> QED
      BY <2>1, <2>2, <3>1, FirstMember DEF Linked
  <2>4. PICK o, m, e :
          Step(a, [call[a] EXCEPT !.pc = "decider", !.item = c, !.current = n,
                                  !.sa = o, !.must = m, !.seen = e])
    BY <1>1 DEF RaiseEnter
  <2> HIDE DEF c, n
  <2>5. /\ call'[a].pc = "decider" /\ call'[a].item = c /\ call'[a].current = n
        /\ \A b \in Actors : b # a => call'[b] = call[b]
    <3> DEFINE k == [call[a] EXCEPT !.pc = "decider", !.item = c, !.current = n,
                                    !.sa = o, !.must = m, !.seen = e]
    <3>1. k.pc = "decider" /\ k.item = c /\ k.current = n
      BY <1>0 DEF Call
    <3>2. Step(a, k)
      BY <2>4
    <3> HIDE DEF k
    <3> QED
      BY <1>o, <3>1, <3>2
  <2>6. call[a].pc \notin DeciderPCs /\ call[a].pc # "decider"
    BY <2>1 DEF DeciderPCs
  <2> QED
    BY <2>1, <2>2, <2>3, <2>5, <2>6, PinFrame
<1>2. CASE AbandonResumeLocked(a)
  <2> DEFINE c == call[a].item
             n == call[a].current
  <2>1. /\ call[a].pc = "resuming" /\ map' = map /\ dhandle' = dhandle
        /\ Step(a, [call[a] EXCEPT !.pc = "decider"])
        /\ info' = [info EXCEPT ![c].lifetime_refcount = info[c].lifetime_refcount + 1]
        /\ node' = [node EXCEPT ![n].refcount = node[n].refcount + 1]
    BY <1>2 DEF AbandonResumeLocked, At, installed, handles
  <2>2. c \in Containers /\ n \in Linked[c]
    BY <2>1 DEF NodeInv, AbandonCore, AbandonPCs
  <2>3. /\ call'[a].pc = "decider" /\ call'[a].item = c /\ call'[a].current = n
        /\ \A b \in Actors : b # a => call'[b] = call[b]
    <3>1. /\ [call[a] EXCEPT !.pc = "decider"].pc = "decider"
          /\ [call[a] EXCEPT !.pc = "decider"].item = call[a].item
          /\ [call[a] EXCEPT !.pc = "decider"].current = call[a].current
      BY <1>0 DEF Call
    <3> QED
      BY <1>o, <2>1, <3>1
  <2>4. call[a].pc \notin DeciderPCs /\ call[a].pc # "decider"
    BY <2>1 DEF DeciderPCs
  <2> HIDE DEF c, n
  <2> QED
    BY <2>1, <2>2, <2>3, <2>4, PinFrame
<1> QED
  BY <1>1, <1>2

(* A member is appended.                                                   *)
LEMMA AppendMember ==
  ASSUME NEW S, NEW list \in Seq(S), NEW n \in S
  PROVE  ToSet(Append(list, n)) = ToSet(list) \cup {n}
<1> DEFINE p == Append(list, n)
           l == Len(list)
<1>1. /\ l \in Nat /\ p \in Seq(S) /\ Len(p) = l + 1 /\ p[l + 1] = n
      /\ \A i \in 1 .. l : p[i] = list[i]
  OBVIOUS
<1>2. /\ \A x : x \in ToSet(p) <=> \E i \in 1 .. l + 1 : p[i] = x
      /\ \A x : x \in ToSet(list) <=> \E i \in 1 .. l : list[i] = x
  <2> HIDE DEF p
  <2>1. \A x : x \in ToSet(p) <=> \E i \in 1 .. Len(p) : p[i] = x
    BY <1>1, Members
  <2> QED
    BY <1>1, <2>1, Members
<1>3. \A i \in 1 .. l + 1 : i \in 1 .. l \/ i = l + 1
  BY <1>1
<1>4. /\ l + 1 \in 1 .. l + 1
      /\ \A i \in 1 .. l : i \in 1 .. l + 1
  BY <1>1
<1> HIDE DEF p, l
<1>5. \A x : x \in ToSet(p) <=> x \in ToSet(list) \/ x = n
  BY <1>1, <1>2, <1>3, <1>4
<1> QED
  BY <1>5 DEF p

UnpinnedLinked(a) ==
  [d \in Containers |-> ToSet(UnpinnedInfo(a)[d].global_handler)]
UnpinnedDeferred(a) ==
  [d \in Containers |-> ToSet(UnpinnedInfo(a)[d].deferred_frees)]

(* The lists after a raise has dropped its pin.                            *)
LEMMA UnpinnedLists ==
  ASSUME NodeInv, NEW a \in Actors, call[a].pc = "decider",
         NEW c, c = call[a].item, NEW n, n = call[a].current
  PROVE  /\ c \in LiveSet /\ n \in Nodes /\ n \in Linked[c] /\ node[n].refcount \in Int
         /\ \A d \in Containers : d # c => UnpinnedInfo(a)[d] = info[d]
         /\ IF node[n].refcount = 1
            THEN /\ UnpinnedInfo(a)[c].global_handler = LIST_REMOVE(info[c].global_handler, n)
                 /\ UnpinnedLinked(a)[c] = Linked[c] \ {n}
                 /\ UnpinnedDeferred(a)[c] = Deferred[c] \cup {n}
            ELSE /\ UnpinnedInfo(a)[c].global_handler = info[c].global_handler
                 /\ UnpinnedLinked(a)[c] = Linked[c]
                 /\ UnpinnedDeferred(a)[c] = Deferred[c]
         /\ \A d \in Containers : d # c => UnpinnedLinked(a)[d] = Linked[d]
                                           /\ UnpinnedDeferred(a)[d] = Deferred[d]
         /\ \A d \in Containers : Distinct(UnpinnedInfo(a)[d].global_handler)
<1>0. /\ IType /\ TypeOK /\ info \in [Containers -> SighandlerInfo]
      /\ node \in [Nodes -> Decider] /\ DistinctLists
      /\ NodeCore(LiveSet, Linked, Deferred, node, OwnedBy(dhandle), call)
  BY DEF NodeInv, Lifetime, IType, TypeOK, Core
<1>1. c \in Containers /\ n \in Linked[c]
  BY <1>0 DEF NodeCore, Pinned
<1>2. n \in Nodes /\ node[n].refcount \in Int
  BY <1>0, <1>1, NodeType DEF NodeCore, Placed
<1>3. c \in LiveSet
  BY <1>0, <1>1 DEF NodeCore, Placed
<1>4. info[c].global_handler \in Seq(Nodes) /\ info[c].deferred_frees \in Seq(Nodes)
  BY <1>0, <1>1, InfoType
<1> DEFINE g == LIST_REMOVE(info[c].global_handler, n)
           f == Append(info[c].deferred_frees, n)
<1>5. ASSUME NEW r \in SighandlerInfo, NEW x, NEW y
      PROVE  LET k == [r EXCEPT !.global_handler = x, !.deferred_frees = y]
             IN  k.global_handler = x /\ k.deferred_frees = y
  BY DEF SighandlerInfo
<1>6. UnpinnedInfo(a) = IF node[n].refcount = 1
                        THEN [info EXCEPT ![c] =
                                [info[c] EXCEPT !.global_handler = g, !.deferred_frees = f]]
                        ELSE info
  BY DEF UnpinnedInfo, LIST_INSERT
<1>7. /\ \A d \in Containers : d # c => UnpinnedInfo(a)[d] = info[d]
      /\ node[n].refcount = 1 => /\ UnpinnedInfo(a)[c].global_handler = g
                                 /\ UnpinnedInfo(a)[c].deferred_frees = f
      /\ node[n].refcount # 1 => UnpinnedInfo(a)[c] = info[c]
  <2> HIDE DEF g, f
  <2> QED
    BY <1>0, <1>1, <1>5, <1>6
<1>8. ToSet(g) = Linked[c] \ {n} /\ Distinct(g)
  BY <1>0, <1>1, <1>4, RemoveNode DEF Linked, DistinctLists
<1>9. ToSet(f) = Deferred[c] \cup {n}
  BY <1>1, <1>2, <1>4, AppendMember DEF Deferred
<1> HIDE DEF g, f
<1>10. \A d \in Containers : d # c => UnpinnedLinked(a)[d] = Linked[d]
                                      /\ UnpinnedDeferred(a)[d] = Deferred[d]
  BY <1>7 DEF UnpinnedLinked, UnpinnedDeferred, Linked, Deferred
<1>11. \A d \in Containers : Distinct(UnpinnedInfo(a)[d].global_handler)
  BY <1>0, <1>7, <1>8 DEF DistinctLists
<1>12. IF node[n].refcount = 1
       THEN /\ UnpinnedLinked(a)[c] = Linked[c] \ {n}
            /\ UnpinnedDeferred(a)[c] = Deferred[c] \cup {n}
       ELSE /\ UnpinnedLinked(a)[c] = Linked[c]
            /\ UnpinnedDeferred(a)[c] = Deferred[c]
  BY <1>1, <1>7, <1>8, <1>9 DEF UnpinnedLinked, UnpinnedDeferred, Linked, Deferred
<1> QED
  BY <1>1, <1>2, <1>3, <1>7, <1>10, <1>11, <1>12 DEF g

(* The raise as it would be outside its decider, and the nodes then.       *)
Outside(a) == [call EXCEPT ![a] = Idle]

LEMMA UnpinnedCore ==
  ASSUME NodeInv, NEW a \in Actors, call[a].pc = "decider"
  PROVE  /\ NodeCore(LiveSet, UnpinnedLinked(a), UnpinnedDeferred(a), UnpinnedNode(a),
                     OwnedBy(dhandle), Outside(a))
         /\ call[a].current \in OwnedBy(dhandle) => node[call[a].current].refcount > 1
         /\ Outside(a)[a].pc = "idle"
         /\ \A b \in Actors : b # a => Outside(a)[b] = call[b]
         /\ UnpinnedNode(a)[call[a].current].refcount = node[call[a].current].refcount - 1
         /\ UnpinnedNode(a)[call[a].current].state = node[call[a].current].state
         /\ \A m \in Nodes : m # call[a].current => UnpinnedNode(a)[m] = node[m]
         /\ UnpinnedNode(a) \in [Nodes -> Decider]
<1> DEFINE c == call[a].item
           n == call[a].current
           nd2 == UnpinnedNode(a)
           cl2 == Outside(a)
           L2 == UnpinnedLinked(a)
           D2 == UnpinnedDeferred(a)
           O == OwnedBy(dhandle)
<1>0. /\ IType /\ TypeOK /\ node \in [Nodes -> Decider]
      /\ NodeCore(LiveSet, Linked, Deferred, node, O, call)
  BY DEF NodeInv, Lifetime, IType, TypeOK, Core
<1>1. /\ c \in LiveSet /\ n \in Nodes /\ node[n].refcount \in Int
      /\ IF node[n].refcount = 1
         THEN L2[c] = Linked[c] \ {n} /\ D2[c] = Deferred[c] \cup {n}
         ELSE L2[c] = Linked[c] /\ D2[c] = Deferred[c]
      /\ \A d \in Containers : d # c => L2[d] = Linked[d] /\ D2[d] = Deferred[d]
  BY UnpinnedLists
<1>2. /\ nd2 \in [Nodes -> Decider]
      /\ nd2[n].refcount = node[n].refcount - 1 /\ nd2[n].state = node[n].state
      /\ \A m \in Nodes : m # n => nd2[m] = node[m]
  <2>1. nd2 = [node EXCEPT ![n].refcount = node[n].refcount - 1]
    BY DEF UnpinnedNode
  <2>2. node[n].refcount - 1 \in Int
    BY <1>1
  <2> HIDE DEF nd2, n
  <2> QED
    BY <1>0, <1>1, <2>1, <2>2, NodeCount
<1>3. /\ cl2[a] = Idle /\ \A b \in Actors : b # a => cl2[b] = call[b]
  BY <1>0 DEF Outside, TypeOK
<1>4. cl2[a].pc = "idle" /\ cl2[a].pc # "decider"
  BY <1>3, IdleType
<1>5. call[a].pc = "decider" /\ call[a].item = c /\ call[a].current = n
  OBVIOUS
<1>c. NodeCore(LiveSet, Linked, Deferred, node, O, call) /\ c \in LiveSet
  BY <1>0, <1>1
<1>m. Moved(node, Linked, Deferred, L2, D2, c, n)
  BY <1>1 DEF Moved
<1> HIDE DEF c, n, nd2, cl2, L2, D2, O
<1>6. /\ NodeCore(LiveSet, L2, D2, nd2, O, cl2)
      /\ n \in O => node[n].refcount > 1
  BY ONLY <1>c, <1>2, <1>3, <1>4, <1>5, <1>m, a \in Actors, CoreUnpin
<1> QED
  BY <1>2, <1>3, <1>4, <1>6 DEF c, n, nd2, cl2, L2, D2, O

(* Dropping a pin unlinks no abandoned decider.                            *)
LEMMA UnpinnedAbandoned ==
  ASSUME NodeInv, NEW a \in Actors, call[a].pc = "decider",
         NEW b \in Actors, call[b].pc \in AbandonPCs
  PROVE  /\ call[b].item \in Containers
         /\ call[b].current \in UnpinnedLinked(a)[call[b].item]
         /\ InMap(call[b].item)
<1>1. /\ call[b].item \in Containers /\ call[b].current \in Linked[call[b].item]
      /\ call[b].current \in OwnedBy(dhandle) /\ \E s \in Signals : map[s] = call[b].item
  BY DEF NodeInv, AbandonCore
<1>2. call[a].current \in OwnedBy(dhandle) => node[call[a].current].refcount > 1
  BY UnpinnedCore
<1>3. /\ call[a].item \in LiveSet /\ node[call[a].current].refcount \in Int
      /\ IF node[call[a].current].refcount = 1
         THEN UnpinnedLinked(a)[call[a].item] = Linked[call[a].item] \ {call[a].current}
         ELSE UnpinnedLinked(a)[call[a].item] = Linked[call[a].item]
      /\ \A d \in Containers : d # call[a].item => UnpinnedLinked(a)[d] = Linked[d]
  BY UnpinnedLists
<1>4. call[b].current \in UnpinnedLinked(a)[call[b].item]
  <2>1. CASE call[b].item # call[a].item
    BY <1>1, <1>3, <2>1
  <2>2. CASE call[b].item = call[a].item
    <3>1. CASE call[b].current # call[a].current
      BY <1>1, <1>3, <2>2, <3>1
    <3>2. CASE call[b].current = call[a].current
      <4>1. node[call[a].current].refcount # 1
        BY <1>1, <1>2, <1>3, <3>2
      <4> QED
        BY <1>1, <1>3, <2>2, <4>1
    <3> QED
      BY <3>1, <3>2
  <2> QED
    BY <2>1, <2>2
<1> QED
  BY <1>1, <1>4 DEF InMap

(* The raise moves on to the next decider.                                 *)
LEMMA NodesWalk ==
  ASSUME NodeInv, Lifetime', NEW a \in Actors, DeciderNext(a)
  PROVE  NodeInv'
<1> DEFINE c == call[a].item
           n == call[a].current
           m == NextDecider(a)
<1>0. /\ IType /\ TypeOK /\ CallShape /\ call[a] \in Call /\ IType'
      /\ info \in [Containers -> SighandlerInfo]
  BY CallType DEF NodeInv, Lifetime, IType, TypeOK
<1>1. /\ call[a].pc = "decider" /\ m # NULL /\ map' = map /\ dhandle' = dhandle
      /\ info' = UnpinnedInfo(a)
      /\ node' = [UnpinnedNode(a) EXCEPT ![m].refcount = UnpinnedNode(a)[m].refcount + 1]
      /\ Step(a, [call[a] EXCEPT !.current = m, !.seen = call[a].seen \cup {m}])
  BY DEF DeciderNext, At, installed, handles
<1>2. /\ call'[a].pc = "decider" /\ call'[a].item = c /\ call'[a].current = m
      /\ \A b \in Actors : b # a => call'[b] = call[b]
  <2> HIDE DEF m
  <2> DEFINE k == [call[a] EXCEPT !.current = m, !.seen = call[a].seen \cup {m}]
  <2>1. k.pc = call[a].pc /\ k.item = c /\ k.current = m
    BY <1>0 DEF Call
  <2>2. Step(a, k)
    BY <1>1
  <2> HIDE DEF k
  <2> QED
    BY <1>0, <1>1, <2>1, <2>2 DEF Step, TypeOK
<1>3. /\ c \in LiveSet /\ n \in Linked[c]
      /\ IF node[n].refcount = 1
         THEN UnpinnedLinked(a)[c] = Linked[c] \ {n}
         ELSE UnpinnedLinked(a)[c] = Linked[c]
      /\ \A d \in Containers : d # c => UnpinnedLinked(a)[d] = Linked[d]
  BY <1>1, UnpinnedLists
<1>4. c \in Containers
  BY <1>3 DEF LiveSet
<1>5. m \in Linked[c] /\ m # n
  <2> DEFINE list == info[c].global_handler
  <2>1. list \in Seq(Nodes) /\ Distinct(list) /\ n \in ToSet(list) /\ m = NextIn(list, n)
    BY <1>0, <1>3, <1>4, InfoType DEF NodeInv, DistinctLists, Linked, NextDecider
  <2> HIDE DEF list, m, n
  <2>2. m \in ToSet(list) /\ Before(list, n, m)
    BY <1>1, <2>1, NextNode, NullAssumption
  <2>3. m # n
    BY <2>1, <2>2, BeforeOrder
  <2> QED
    BY <1>4, <2>2, <2>3 DEF Linked, list
<1>6. m \in UnpinnedLinked(a)[c]
  BY <1>3, <1>5
<1>7. /\ NodeCore(LiveSet, UnpinnedLinked(a), UnpinnedDeferred(a), UnpinnedNode(a),
                  OwnedBy(dhandle), Outside(a))
      /\ Outside(a)[a].pc # "decider"
      /\ \A b \in Actors : b # a => Outside(a)[b] = call[b]
      /\ UnpinnedNode(a) \in [Nodes -> Decider]
  BY <1>1, UnpinnedCore
<1>8. /\ node' \in [Nodes -> Decider]
      /\ node'[m].refcount = UnpinnedNode(a)[m].refcount + 1
      /\ node'[m].state = UnpinnedNode(a)[m].state
      /\ \A x \in Nodes : x # m => node'[x] = UnpinnedNode(a)[x]
  <2>1. m \in Nodes
    BY <1>4, <1>6, <1>7 DEF NodeCore, Placed
  <2>2. UnpinnedNode(a)[m].refcount + 1 \in Int
    BY <1>7, <2>1, NodeType
  <2> HIDE DEF m
  <2> QED
    BY <1>1, <1>7, <2>1, <2>2, NodeCount
<1>9. LiveSet' = LiveSet /\ Linked' = UnpinnedLinked(a) /\ Deferred' = UnpinnedDeferred(a)
  <2>1. SameCounts(UnpinnedInfo(a))
    BY <1>0, <1>1, UnpinnedCounts DEF InsidePCs
  <2>2. LiveSet' = LiveSet
    BY <1>1, <2>1 DEF LiveSet, SameCounts
  <2> QED
    BY <1>1, <2>2 DEF Linked, Deferred, UnpinnedLinked, UnpinnedDeferred
<1>10. Core'
  <2> DEFINE O == OwnedBy(dhandle)
             nd == UnpinnedNode(a)
             nd2 == node'
             cl == Outside(a)
             cl2 == call'
             L == UnpinnedLinked(a)
             D == UnpinnedDeferred(a)
  <2>1. /\ NodeCore(LiveSet, L, D, nd, O, cl) /\ nd2 \in [Nodes -> Decider]
        /\ m \in L[c] /\ c \in Containers
        /\ nd2[m].refcount = nd[m].refcount + 1 /\ nd2[m].state = nd[m].state
        /\ \A x \in Nodes : x # m => nd2[x] = nd[x]
    BY <1>4, <1>6, <1>7, <1>8
  <2>2. /\ cl2[a].pc = "decider" /\ cl2[a].item = c /\ cl2[a].current = m
        /\ \A b \in Actors : b # a => cl2[b] = cl[b]
        /\ cl[a].pc # "decider"
    BY <1>2, <1>7
  <2> HIDE DEF O, nd, nd2, cl, cl2, L, D, c, m
  <2>3. NodeCore(LiveSet, L, D, nd2, O, cl2)
    BY ONLY <2>1, <2>2, CorePin, a \in Actors
  <2> QED
    BY <1>1, <1>9, <2>3 DEF Core, O, nd2, cl2, L, D
<1>11. Handles' /\ OrphanCore(dhandle', call', Linked')
  <2>1. call[a].pc \notin DeciderPCs /\ call'[a].pc \notin DeciderPCs
    BY <1>1, <1>2 DEF DeciderPCs
  <2>2. \A d \in Containers : Linked'[d] \subseteq Linked[d]
    BY <1>3, <1>9
  <2> QED
    BY <1>0, <1>1, <1>2, <2>1, <2>2, SideFrame
<1>12. AbandonCore(call', Linked', OwnedBy(dhandle), map')
  <2>1. call'[a].pc \notin AbandonPCs
    BY <1>2 DEF AbandonPCs
  <2>2. \A b \in Actors : call[b].pc \in AbandonPCs =>
          call[b].current \in Linked'[call[b].item]
    BY <1>1, <1>9, UnpinnedAbandoned
  <2> QED
    BY <1>1, <1>2, <2>1, <2>2, AbandonSide
<1>13. DistinctLists'
  BY <1>1, UnpinnedLists DEF DistinctLists
<1>14. Counted'
  <2>1. SameCounts(UnpinnedInfo(a))
    BY <1>0, <1>1, UnpinnedCounts DEF InsidePCs
  <2> QED
    BY <1>1, <2>1 DEF NodeInv, Counted, SameCounts
<1> QED
  BY <1>1, <1>10, <1>11, <1>12, <1>13, <1>14 DEF NodeInv

(* The raise leaves its last decider and releases the container.           *)
LEMMA NodesLeave ==
  ASSUME NodeInv, Lifetime', NEW a \in Actors, DeciderExhausted(a) \/ DeciderClaims(a)
  PROVE  NodeInv'
<1> DEFINE c == call[a].item
           I == UnpinnedInfo(a)
           nd == UnpinnedNode(a)
           cl == Outside(a)
           L == UnpinnedLinked(a)
           D == UnpinnedDeferred(a)
           O == OwnedBy(dhandle)
           gone == info[c].lifetime_refcount = 1
<1>0. /\ IType /\ TypeOK /\ call[a] \in Call /\ IType'
      /\ info \in [Containers -> SighandlerInfo]
  BY CallType DEF NodeInv, Lifetime, IType, TypeOK
<1>1. call[a].pc = "decider" /\ RaiseRelease(a) /\ map' = map /\ dhandle' = dhandle
  BY DEF DeciderExhausted, DeciderClaims, At, installed, handles
<1>2. Away(a)
  <2>1. Return(a) \/ Step(a, [call[a] EXCEPT !.pc = "handoff", !.item = NULL,
                                             !.current = NULL])
    BY DEF DeciderExhausted, DeciderClaims
  <2>2. [call[a] EXCEPT !.pc = "handoff", !.item = NULL, !.current = NULL].pc
          = "handoff"
    BY <1>0 DEF Call
  <2> QED
    BY <1>0, <2>1, <2>2, StepAway, ReturnAway DEF InsidePCs, DeciderPCs
<1>3. /\ c \in LiveSet
      /\ \A d \in Containers : d # c => I[d] = info[d]
      /\ IF node[call[a].current].refcount = 1
         THEN L[c] = Linked[c] \ {call[a].current} ELSE L[c] = Linked[c]
      /\ \A d \in Containers : d # c => L[d] = Linked[d]
      /\ \A d \in Containers : Distinct(I[d].global_handler)
  BY <1>1, UnpinnedLists
<1>4. /\ NodeCore(LiveSet, L, D, nd, O, cl)
      /\ cl[a].pc = "idle" /\ \A b \in Actors : b # a => cl[b] = call[b]
      /\ nd \in [Nodes -> Decider]
  BY <1>1, UnpinnedCore
<1>5. SameCounts(I) /\ I \in [Containers -> SighandlerInfo]
  BY <1>0, <1>1, UnpinnedCounts, InsideType DEF InsidePCs
<1>6. /\ c \in Containers /\ info[c].state = "live" /\ info[c].lifetime_refcount > 0
      /\ info[c].lifetime_refcount \in Int /\ I[c].state = "live"
      /\ I[c].lifetime_refcount = info[c].lifetime_refcount
  BY <1>0, <1>3, <1>5, InfoType DEF LiveSet, NodeInv, Counted, SameCounts
<1>7. /\ info' = Release(I, c)
      /\ node' = FreeNodes(nd, IF gone THEN D[c] ELSE {})
  BY <1>1, <1>6 DEF RaiseRelease, FreedByRelease, UnpinnedDeferred
<1> HIDE DEF c, I, nd, cl, L, D, O, gone
<1>8. /\ \A d \in Containers : d # c => info'[d] = I[d]
      /\ info'[c].lifetime_refcount = info[c].lifetime_refcount - 1
      /\ gone => /\ info'[c].state = "freed"
                 /\ info'[c].global_handler = <<>> /\ info'[c].deferred_frees = <<>>
      /\ ~gone => /\ info'[c].state = "live"
                  /\ info'[c].global_handler = I[c].global_handler
                  /\ info'[c].deferred_frees = I[c].deferred_frees
  <2>1. /\ \A d \in Containers : d # c => info'[d] = I[d]
        /\ info'[c].lifetime_refcount = I[c].lifetime_refcount - 1
        /\ info'[c].state = IF I[c].lifetime_refcount = 1 THEN "freed" ELSE I[c].state
    BY <1>5, <1>6, <1>7, ReleaseCounts
  <2>2. IF I[c].lifetime_refcount = 1
        THEN info'[c].global_handler = <<>> /\ info'[c].deferred_frees = <<>>
        ELSE /\ info'[c].global_handler = I[c].global_handler
             /\ info'[c].deferred_frees = I[c].deferred_frees
    BY <1>5, <1>6, <1>7, ReleaseLists
  <2> QED
    BY <1>6, <2>1, <2>2 DEF gone
<1>9. /\ \A d \in Containers : d # c => Linked'[d] = L[d] /\ Deferred'[d] = D[d]
      /\ gone => Linked'[c] = {} /\ Deferred'[c] = {}
      /\ ~gone => Linked'[c] = L[c] /\ Deferred'[c] = D[c]
      /\ \A d \in Containers : d # c /\ d \in LiveSet => d \in LiveSet'
      /\ ~gone => c \in LiveSet'
  <2>1. ToSet(<<>>) = {}
    BY DEF ToSet
  <2>2. \A d \in Containers : d # c => info'[d].state = info[d].state
    BY <1>3, <1>8
  <2> QED
    BY <1>6, <1>8, <2>1, <2>2
    DEF Linked, Deferred, LiveSet, L, D, I, UnpinnedLinked, UnpinnedDeferred
<1>10. call'[a].pc # "decider" /\ \A b \in Actors : b # a => call'[b] = cl[b]
  BY <1>2, <1>4 DEF Away, InsidePCs
<1>11. /\ node' \in [Nodes -> Decider]
       /\ gone => \A m \in Nodes : IF m \in D[c] THEN node'[m].state = "freed"
                                                 ELSE node'[m] = nd[m]
       /\ ~gone => node' = nd
  <2>1. CASE gone
    <3>1. node' = FreeNodes(nd, D[c])
      BY <1>7, <2>1
    <3> QED
      BY <1>4, <2>1, <3>1, FreedNodes
  <2>2. CASE ~gone
    <3>1. node' = FreeNodes(nd, {})
      BY <1>7, <2>2
    <3>2. node' = nd
      BY <1>4, <3>1 DEF FreeNodes
    <3> QED
      BY <1>4, <2>2, <3>2
  <2> QED
    BY <2>1, <2>2
<1>12. NodeCore(LiveSet', Linked', Deferred', node', O, call')
  <2>1. CASE gone
    <3>1. \A m \in Nodes : IF m \in D[c] THEN node'[m].state = "freed"
                                         ELSE node'[m] = nd[m]
      BY <1>11, <2>1
    <3>2. Deferred'[c] = {} /\ \A d \in Containers : d # c => Deferred'[d] = D[d]
      BY <1>9, <2>1
    <3>3. NodeCore(LiveSet, L, Deferred', node', O, cl)
      BY <1>4, <1>6, <1>11, <3>1, <3>2, CoreDrain
    <3>4. \A b \in Actors : cl[b].pc = "decider" => cl[b].item # c
      <4>1. \A b \in Actors : call'[b].pc = "decider" => call'[b].item # c
        BY <1>8, <2>1 DEF Lifetime, LiveWhileHeld
      <4> QED
        BY <1>4, <1>10, <4>1
    <3>5. Linked'[c] = {} /\ \A d \in Containers : d # c => Linked'[d] = L[d]
      BY <1>9, <2>1
    <3>6. \A d \in Containers : d # c /\ d \in LiveSet => d \in LiveSet'
      BY <1>9
    <3>7. NodeCore(LiveSet', Linked', Deferred', node', O, cl)
      BY <1>6, <3>2, <3>3, <3>4, <3>5, <3>6, CoreClear
    <3>8. \A d \in Containers : d \notin LiveSet' => Linked'[d] = {} /\ Deferred'[d] = {}
      BY <3>7 DEF NodeCore, Placed
    <3>9. cl[a].pc # "decider"
      BY <1>4
    <3> QED
      BY <1>10, <3>7, <3>8, <3>9, CoreKept
  <2>2. CASE ~gone
    <3>1. \A d \in Containers : Linked'[d] = L[d] /\ Deferred'[d] = D[d]
      BY <1>9, <2>2
    <3>2. \A d \in Containers : d \notin LiveSet' => L[d] = {} /\ D[d] = {}
      BY <1>4, <1>9, <2>2 DEF NodeCore, Placed
    <3>3. cl[a].pc # "decider"
      BY <1>4
    <3>4. NodeCore(LiveSet', Linked', Deferred', nd, O, call')
      BY <1>4, <1>10, <3>1, <3>2, <3>3, CoreKept
    <3> QED
      BY <1>11, <2>2, <3>4
  <2> QED
    BY <2>1, <2>2
<1>13. Core'
  BY <1>1, <1>12 DEF Core, O
<1>14. Handles' /\ OrphanCore(dhandle', call', Linked')
  <2>1. call[a].pc \notin DeciderPCs /\ call'[a].pc \notin DeciderPCs
        /\ \A b \in Actors : b # a => call'[b] = call[b]
    BY <1>1, <1>2 DEF DeciderPCs, Away
  <2>2. \A d \in Containers : Linked'[d] \subseteq Linked[d]
    BY <1>3, <1>9
  <2> QED
    BY <1>0, <1>1, <2>1, <2>2, SideFrame
<1>15. AbandonCore(call', Linked', OwnedBy(dhandle), map')
  <2>1. call'[a].pc \notin AbandonPCs /\ \A b \in Actors : b # a => call'[b] = call[b]
    BY <1>2 DEF AbandonPCs, InsidePCs, Away
  <2>2. gone => ~InMap(c)
    <3>1. info[c].lifetime_refcount = Cardinality(Holders(c)) + (IF InMap(c) THEN 1 ELSE 0)
      BY <1>6 DEF NodeInv, Lifetime, LifetimeAccounting
    <3>2. a \in Holders(c)
      BY <1>1 DEF Holders, c
    <3>3. Cardinality(Holders(c)) \in Nat /\ Cardinality(Holders(c)) # 0
      BY <3>2, HoldersFinite, FS_EmptySet
    <3> QED
      BY <3>1, <3>3 DEF gone
  <2>3. \A b \in Actors : call[b].pc \in AbandonPCs =>
          call[b].current \in Linked'[call[b].item]
    <3> SUFFICES ASSUME NEW b \in Actors, call[b].pc \in AbandonPCs
                 PROVE  call[b].current \in Linked'[call[b].item]
      OBVIOUS
    <3>1. /\ call[b].item \in Containers /\ call[b].current \in L[call[b].item]
          /\ InMap(call[b].item)
      BY <1>1, UnpinnedAbandoned DEF L
    <3> QED
      BY <1>9, <2>2, <3>1
  <2> QED
    BY <1>1, <2>1, <2>3, AbandonSide
<1>16. DistinctLists'
  BY <1>3, <1>8, EmptyList, Literals DEF DistinctLists
<1>17. Counted'
  BY <1>3, <1>6, <1>8 DEF NodeInv, Counted, gone
<1> QED
  BY <1>1, <1>13, <1>14, <1>15, <1>16, <1>17 DEF NodeInv

(* sigdecider_abandon(), and the call of sigdecider_abandon_resume().      *)
LEMMA NodesAbandon ==
  ASSUME Careful, NodeInv, Lifetime', NEW a \in Actors, Abandon(a) \/ AbandonResume(a)
  PROVE  NodeInv'
<1>0. /\ IType /\ TypeOK /\ call[a] \in Call /\ IType'
      /\ info \in [Containers -> SighandlerInfo] /\ CallShape
  BY CallType DEF NodeInv, Lifetime, IType, TypeOK
<1>p. ASSUME NEW p, Step(a, [call[a] EXCEPT !.pc = p])
      PROVE  /\ call'[a].pc = p /\ call'[a].item = call[a].item
             /\ call'[a].current = call[a].current
             /\ \A b \in Actors : b # a => call'[b] = call[b]
  <2>1. /\ [call[a] EXCEPT !.pc = p].pc = p
        /\ [call[a] EXCEPT !.pc = p].item = call[a].item
        /\ [call[a] EXCEPT !.pc = p].current = call[a].current
    BY <1>0 DEF Call
  <2> QED
    BY <1>0, <1>p, <2>1 DEF Step, TypeOK
<1>1. CASE Abandon(a)
  <2> DEFINE c == call[a].item
             n == call[a].current
             O == OwnedBy(dhandle)
             nd == UnpinnedNode(a)
             cl == Outside(a)
             L == UnpinnedLinked(a)
             D == UnpinnedDeferred(a)
  <2>1. /\ call[a].pc = "decider" /\ map' = map /\ dhandle' = dhandle
        /\ AbandonAllowed(a) /\ Step(a, [call[a] EXCEPT !.pc = "abandoned"])
        /\ info' = [info EXCEPT ![c].lifetime_refcount = info[c].lifetime_refcount - 1]
        /\ node' = nd
    BY <1>1 DEF Abandon, At, installed, handles, UnpinnedNode
  <2>2. /\ call'[a].pc = "abandoned" /\ call'[a].item = c /\ call'[a].current = n
        /\ \A b \in Actors : b # a => call'[b] = call[b]
    BY <1>p, <2>1
  <2>3. /\ NodeCore(LiveSet, L, D, nd, O, cl)
        /\ cl[a].pc = "idle" /\ \A b \in Actors : b # a => cl[b] = call[b]
        /\ n \in O => node[n].refcount > 1
    BY <2>1, UnpinnedCore
  <2>l. node[n].refcount # 1 => L[c] = Linked[c] /\ D[c] = Deferred[c]
    BY <2>1, UnpinnedLists
  <2>k. \A d \in Containers : d # c => L[d] = Linked[d] /\ D[d] = Deferred[d]
    BY <2>1, UnpinnedLists
  <2>4. c \in LiveSet /\ n \in Nodes /\ n \in Linked[c] /\ node[n].refcount \in Int
    BY <2>1, UnpinnedLists
  <2>5. /\ c \in Containers /\ info[c].state = "live" /\ call[a].signo \in Signals
        /\ n \in O /\ map[call[a].signo] = c
    BY <1>0, <2>1, <2>4
    DEF LiveSet, AbandonAllowed, Owned, OwnedBy, CallShape, ShapeOf, RaisePCs, InsidePCs
  <2>6. \A d \in Containers : L[d] = Linked[d] /\ D[d] = Deferred[d]
    BY <2>3, <2>4, <2>5, <2>k, <2>l
  <2> HIDE DEF c, n, O, nd, cl, L, D
  <2>7. /\ info'[c].lifetime_refcount = info[c].lifetime_refcount - 1
        /\ \A d \in Containers :
             /\ d # c => info'[d] = info[d]
             /\ info'[d].state = info[d].state
             /\ info'[d].global_handler = info[d].global_handler
             /\ info'[d].deferred_frees = info[d].deferred_frees
    BY <1>0, <2>1, <2>5, CountOnly
  <2>8. LiveSet' = LiveSet /\ Linked' = Linked /\ Deferred' = Deferred
    BY <2>7 DEF LiveSet, Linked, Deferred
  <2>9. NodeCore(LiveSet', Linked', Deferred', nd, O, call')
    <3> DEFINE cl2 == call'
               L2 == Linked'
               D2 == Deferred'
               live2 == LiveSet'
    <3>1. \A d \in Containers : L2[d] = L[d] /\ D2[d] = D[d]
      BY <2>6, <2>8
    <3>2. \A d \in Containers : d \notin live2 => L[d] = {} /\ D[d] = {}
      BY <2>3, <2>8 DEF NodeCore, Placed
    <3>3. cl[a].pc # "decider" /\ cl2[a].pc # "decider"
          /\ \A b \in Actors : b # a => cl2[b] = cl[b]
      BY <2>2, <2>3
    <3>4. \A m \in Nodes : m \in O <=> m \in O
      OBVIOUS
    <3> HIDE DEF cl2, L2, D2, live2
    <3>5. NodeCore(live2, L2, D2, nd, O, cl2)
      BY ONLY <2>3, <3>1, <3>2, <3>3, <3>4, CoreKept, a \in Actors
    <3> QED
      BY <3>5 DEF cl2, L2, D2, live2
  <2>10. Core'
    BY <2>1, <2>9 DEF Core, O
  <2>11. Handles' /\ OrphanCore(dhandle', call', Linked')
    <3>1. call[a].pc \notin DeciderPCs /\ call'[a].pc \notin DeciderPCs
      BY <2>1, <2>2 DEF DeciderPCs
    <3>2. \A d \in Containers : Linked'[d] \subseteq Linked[d]
      BY <2>8
    <3> QED
      BY <1>0, <2>1, <2>2, <3>1, <3>2, SideFrame
  <2>12. AbandonCore(call', Linked', OwnedBy(dhandle), map')
    <3>1. AbandonCore(call, Linked, OwnedBy(dhandle), map)
      BY DEF NodeInv
    <3>2. /\ call'[a].item \in Containers /\ call'[a].current \in Linked'[call'[a].item]
          /\ call'[a].current \in OwnedBy(dhandle)
          /\ \E s \in Signals : map'[s] = call'[a].item
      BY <2>1, <2>2, <2>4, <2>5, <2>8 DEF O
    <3> QED
      BY <2>1, <2>2, <2>8, <3>1, <3>2 DEF AbandonCore
  <2>13. DistinctLists'
    BY <2>7 DEF NodeInv, DistinctLists
  <2>14. Counted'
    <3>1. info[c].lifetime_refcount = Cardinality(Holders(c)) + (IF InMap(c) THEN 1 ELSE 0)
      BY <2>5 DEF NodeInv, Lifetime, LifetimeAccounting
    <3>2. a \in Holders(c) /\ InMap(c)
      BY <2>1, <2>5 DEF Holders, InMap, c
    <3>3. Cardinality(Holders(c)) \in Nat /\ Cardinality(Holders(c)) # 0
      BY <3>2, HoldersFinite, FS_EmptySet
    <3>4. info'[c].lifetime_refcount > 0
      BY <2>7, <3>1, <3>2, <3>3
    <3> QED
      BY <2>7, <3>4 DEF NodeInv, Counted
  <2> QED
    BY <2>1, <2>10, <2>11, <2>12, <2>13, <2>14 DEF NodeInv
<1>2. CASE AbandonResume(a)
  <2>1. /\ call[a].pc = "abandoned" /\ Step(a, [call[a] EXCEPT !.pc = "resuming"])
        /\ map' = map /\ dhandle' = dhandle /\ info' = info /\ node' = node
    BY <1>2 DEF AbandonResume, At, registry, handles
  <2>2. /\ call'[a].pc = "resuming" /\ call'[a].item = call[a].item
        /\ call'[a].current = call[a].current
        /\ \A b \in Actors : b # a => call'[b] = call[b]
    BY <1>p, <2>1
  <2>3. LiveSet' = LiveSet /\ Linked' = Linked /\ Deferred' = Deferred
    BY <2>1 DEF LiveSet, Linked, Deferred
  <2>4. Core'
    <3> DEFINE O == OwnedBy(dhandle)
    <3>1. NodeCore(LiveSet, Linked, Deferred, node, O, call)
      BY DEF NodeInv, Core
    <3>2. \A d \in Containers : Linked'[d] = Linked[d] /\ Deferred'[d] = Deferred[d]
      BY <2>3
    <3>3. \A d \in Containers : d \notin LiveSet' => Linked[d] = {} /\ Deferred[d] = {}
      BY <2>3, <3>1 DEF NodeCore, Placed
    <3>4. call[a].pc # "decider" /\ call'[a].pc # "decider"
          /\ \A b \in Actors : b # a => call'[b] = call[b]
      BY <2>1, <2>2
    <3> HIDE DEF O
    <3>5. NodeCore(LiveSet', Linked', Deferred', node, O, call')
      BY <3>1, <3>2, <3>3, <3>4, CoreKept
    <3> QED
      BY <2>1, <3>5 DEF Core, O
  <2>5. Handles' /\ OrphanCore(dhandle', call', Linked')
    <3>1. call[a].pc \notin DeciderPCs /\ call'[a].pc \notin DeciderPCs
      BY <2>1, <2>2 DEF DeciderPCs
    <3>2. \A d \in Containers : Linked'[d] \subseteq Linked[d]
      BY <2>3
    <3> QED
      BY <1>0, <2>1, <2>2, <3>1, <3>2, SideFrame
  <2>6. AbandonCore(call', Linked', OwnedBy(dhandle), map')
    <3>1. AbandonCore(call, Linked, OwnedBy(dhandle), map) /\ call[a].pc \in AbandonPCs
      BY <2>1 DEF NodeInv, AbandonPCs
    <3> QED
      BY <2>1, <2>2, <2>3, <3>1 DEF AbandonCore
  <2> QED
    BY <2>1, <2>4, <2>5, <2>6 DEF NodeInv, DistinctLists, Counted
<1> QED
  BY <1>1, <1>2

-----------------------------------------------------------------------------
(* signal_decider_destroy().                                               *)

(* The handles of two calls that work on one are different.                *)
LEMMA OtherHandle ==
  ASSUME NodeInv, NEW a \in Actors, call[a].pc \in DeciderPCs,
         NEW b \in Actors, b # a, call[b].pc \in DeciderPCs
  PROVE  call[b].h \in DeciderHandles /\ call[b].h # call[a].h
<1>1. PICK q \in [DeciderHandles -> Seq(Signals)] :
        HandleCore(dhandle, call, q) /\ SlotCore(dhandle, q, Linked, map)
  BY DEF NodeInv, Handles
<1> QED
  BY <1>1 DEF HandleCore, Exclusive

(* One iteration of the loop, as the lemmas on handles see it.             *)
LEMMA SlotDonePopped ==
  ASSUME IType, NEW a \in Actors, call[a].pc \in DestroyPCs, SlotDone(a)
  PROVE  /\ Popped(dhandle, dhandle', call, call', a, Signo(a))
         /\ call'[a].pc \in {"idle", "destroying"}
<1> DEFINE h == call[a].h
           d == dhandle[h]
           s == Signo(a)
<1>0. /\ TypeOK /\ call[a] \in Call /\ call \in [Actors -> Call]
      /\ dhandle \in [DeciderHandles -> DeciderHandle]
  BY CallType DEF IType, TypeOK
<1>1. /\ call[a].pc \in DeciderPCs /\ h \in DeciderHandles /\ s \in call[a].todo
  BY SignoType, SlotType DEF DestroyPCs, DeciderPCs
<1>2. d \in DeciderHandle
  BY <1>0, <1>1
<1> DEFINE moved == IF s \in d.guarded /\ d.slots # <<>>
                    THEN [dhandle EXCEPT ![h].slots = Tail(d.slots)] ELSE dhandle
           k == [call[a] EXCEPT !.pc = "destroying", !.todo = Rest(a), !.current = NULL]
<1>3. IF Rest(a) = {}
      THEN dhandle' = [moved EXCEPT ![h] = NoDeciderHandle] /\ call' = [call EXCEPT ![a] = Idle]
      ELSE dhandle' = moved /\ call' = [call EXCEPT ![a] = k]
  BY DEF SlotDone, Step, Return
<1>4. ASSUME NEW r \in DeciderHandle, NEW x
      PROVE  LET q == [r EXCEPT !.slots = x]
             IN  q.state = r.state /\ q.guarded = r.guarded /\ q.slots = x
  BY DEF DeciderHandle
<1>5. /\ \A g \in DeciderHandles : g # h => moved[g] = dhandle[g]
      /\ moved[h].state = d.state /\ moved[h].guarded = d.guarded
      /\ moved[h].slots = IF s \in d.guarded /\ d.slots # <<>>
                          THEN Tail(d.slots) ELSE d.slots
      /\ DOMAIN moved = DeciderHandles
  BY <1>0, <1>1, <1>2, <1>4
<1>6. k.pc = "destroying" /\ k.todo = Rest(a) /\ k.h = h
  BY <1>0 DEF Call
<1>7. Rest(a) = call[a].todo \ {s} /\ (Rest(a) = {} <=> call[a].todo = {s})
  BY <1>1 DEF Rest
<1> HIDE DEF moved, k, s, d
<1>8. CASE Rest(a) = {}
  <2>1. /\ \A g \in DeciderHandles : g # h => dhandle'[g] = dhandle[g]
        /\ dhandle'[h] = NoDeciderHandle
    BY <1>1, <1>3, <1>5, <1>8
  <2>2. /\ call'[a] = Idle /\ \A b \in Actors : b # a => call'[b] = call[b]
    BY <1>0, <1>3, <1>8
  <2>3. call'[a].pc = "idle" /\ call'[a].pc \notin DeciderPCs
    BY <2>2, IdleType DEF DeciderPCs
  <2> QED
    BY <1>7, <1>8, <2>1, <2>2, <2>3 DEF Popped, s
<1>9. CASE Rest(a) # {}
  <2>1. dhandle' = moved
    BY <1>3, <1>9
  <2>2. /\ call'[a] = k /\ \A b \in Actors : b # a => call'[b] = call[b]
    BY <1>0, <1>3, <1>9
  <2> QED
    BY <1>5, <1>6, <1>7, <1>9, <2>1, <2>2 DEF Popped, s, d
<1> QED
  BY <1>8, <1>9

(* The slot the loop is at.                                                *)
LEMMA SlotHead ==
  ASSUME IType, NEW a \in Actors, call[a].pc \in DestroyPCs, NEW n \in Nodes
  PROVE  /\ n = Slot(a) <=> /\ Pops(dhandle[call[a].h], Signo(a))
                            /\ n = Head(dhandle[call[a].h].slots)
         /\ n = Slot(a) => n \in OwnedBy(dhandle)
<1>1. /\ call[a].h \in DeciderHandles
      /\ dhandle[call[a].h].slots \in Seq(Nodes \cup {NULL})
  BY SlotType DEF DestroyPCs, DeciderPCs
<1>2. n # NULL
  BY NullAssumption
<1>3. n = Slot(a) <=> /\ Pops(dhandle[call[a].h], Signo(a))
                      /\ n = Head(dhandle[call[a].h].slots)
  BY <1>2 DEF Slot, Pops
<1>4. Pops(dhandle[call[a].h], Signo(a)) =>
        Head(dhandle[call[a].h].slots) \in ToSet(dhandle[call[a].h].slots)
  BY <1>1, FirstMember DEF Pops
<1> QED
  BY <1>1, <1>3, <1>4 DEF OwnedBy

(* The handles after an iteration, and the nodes they own.                 *)
LEMMA PopFrame ==
  ASSUME NodeInv, IType', NEW a \in Actors, call[a].pc \in DestroyPCs, SlotDone(a),
         map' = map, \A c \in Containers : Linked'[c] \subseteq Linked[c]
  PROVE  /\ Handles' /\ OrphanCore(dhandle', call', Linked')
         /\ \A n \in Nodes : n \in OwnedBy(dhandle') <=> n \in OwnedBy(dhandle) /\ n # Slot(a)
         /\ \A b \in Actors : b # a => call'[b] = call[b]
         /\ call'[a].pc \notin InsidePCs
<1> DEFINE h == call[a].h
           s == Signo(a)
<1>0. /\ IType /\ TypeOK /\ dhandle \in [DeciderHandles -> DeciderHandle]
      /\ dhandle' \in [DeciderHandles -> DeciderHandle]
  BY DEF NodeInv, Lifetime, IType, TypeOK
<1>1. /\ call[a].pc \in DeciderPCs /\ h \in DeciderHandles /\ s \in call[a].todo
      /\ call[a].todo \subseteq Signals /\ \A t \in call[a].todo : s <= t
  <2>1. /\ call[a].pc \in DeciderPCs /\ h \in DeciderHandles /\ s \in call[a].todo
    BY <1>0, SignoType, SlotType DEF DestroyPCs, DeciderPCs
  <2>2. call[a].todo \in SUBSET Signals
    BY <1>0, CallType DEF Call
  <2> QED
    BY <2>1, <2>2, LeastSignal DEF Signo
<1>2. /\ Popped(dhandle, dhandle', call, call', a, s)
      /\ call'[a].pc \in {"idle", "destroying"}
  BY <1>0, SlotDonePopped
<1>3. PICK q \in [DeciderHandles -> Seq(Signals)] :
        HandleCore(dhandle, call, q) /\ SlotCore(dhandle, q, Linked, map)
  BY DEF NodeInv, Handles
<1> DEFINE r == [q EXCEPT ![h] = IF Pops(dhandle[h], s) THEN Tail(q[h]) ELSE q[h]]
<1>4. Shortened(dhandle, q, r, h, s)
  BY <1>1, <1>3 DEF Shortened
<1> HIDE DEF r, h, s
<1>5. HandleCore(dhandle', call', r) /\ Shifted(dhandle, dhandle', q, r, h, s)
  <2> DEFINE dm == dhandle'
             cm == call'
  <2>1. call[a].h = h /\ Popped(dhandle, dm, call, cm, a, s)
    BY <1>2 DEF h
  <2> HIDE DEF dm, cm
  <2>2. HandleCore(dm, cm, r) /\ Shifted(dhandle, dm, q, r, h, s)
    BY ONLY HandlePop, <1>0, <1>1, <1>3, <1>4, <2>1, a \in Actors, call[a].pc \in DestroyPCs
  <2> QED
    BY <2>2 DEF dm, cm
<1>6. \A g \in DeciderHandles : g # h => dhandle'[g] = dhandle[g] /\ r[g] = q[g]
  BY <1>5 DEF Shifted
<1>7. /\ SlotCore(dhandle', r, Linked, map)
      /\ \A n \in Nodes : n \in OwnedBy(dhandle') <=>
           n \in OwnedBy(dhandle) /\ ~(Pops(dhandle[h], s) /\ n = Head(dhandle[h].slots))
  <2> DEFINE dm == dhandle'
  <2>1. Shifted(dhandle, dm, q, r, h, s) /\ dm \in [DeciderHandles -> DeciderHandle]
    BY <1>0, <1>5
  <2> HIDE DEF dm
  <2>3. /\ SlotCore(dm, r, Linked, map)
        /\ \A n \in Nodes : n \in OwnedBy(dm) <=>
             n \in OwnedBy(dhandle) /\ ~(Pops(dhandle[h], s) /\ n = Head(dhandle[h].slots))
    BY ONLY SlotPop, <1>0, <1>1, <1>3, <2>1
  <2> QED
    BY <2>3 DEF dm
<1>8. SlotCore(dhandle', r, Linked', map')
  <2>1. \A t \in Signals : \/ map'[t] = NULL
                           \/ Linked'[map'[t]] = {}
                           \/ map'[t] = map[t] /\ Linked'[map'[t]] \subseteq Linked[map[t]]
    <3>1. \A t \in Signals : map'[t] \in Containers \cup {NULL}
      BY DEF IType, TypeOK
    <3> QED
      BY <3>1
  <2> QED
    BY <1>7, <2>1, SlotKept
<1>9. Handles'
  <2>1. r \in [DeciderHandles -> Seq(Signals)]
    <3>1. q[h] \in Seq(Signals) /\ Len(q[h]) = Len(dhandle[h].slots)
          /\ dhandle[h].slots \in Seq(Nodes \cup {NULL})
      BY <1>0, <1>1, <1>3 DEF HandleCore, Aligned, DeciderHandle
    <3>2. q[h] = <<>> => Len(q[h]) = 0
      OBVIOUS
    <3>3. dhandle[h].slots # <<>> => Len(dhandle[h].slots) # 0
      BY <3>1, NoLength
    <3>4. Pops(dhandle[h], s) => Tail(q[h]) \in Seq(Signals)
      BY <3>1, <3>2, <3>3 DEF Pops
    <3> QED
      BY <1>1, <1>3, <3>1, <3>4 DEF r
  <2> QED
    BY <1>5, <1>8, <2>1 DEF Handles
<1>10. \A b \in Actors : b # a => call'[b] = call[b]
  BY <1>2 DEF Popped
<1>11. OrphanCore(dhandle', call', Linked')
  <2>1. OrphanCore(dhandle, call, Linked) /\ call'[a].pc \notin OrphanPCs
    BY <1>2 DEF NodeInv, OrphanPCs
  <2>2. \A b \in Actors : b # a /\ call[b].pc \in OrphanPCs =>
          dhandle'[call[b].h] = dhandle[call[b].h]
    BY <1>1, <1>6, OtherHandle DEF OrphanPCs, DeciderPCs, h
  <2> QED
    BY <1>10, <2>1, <2>2, OrphanKept
<1>12. \A n \in Nodes : n \in OwnedBy(dhandle') <=> n \in OwnedBy(dhandle) /\ n # Slot(a)
  BY <1>0, <1>7, SlotHead DEF h, s
<1> QED
  BY <1>2, <1>9, <1>10, <1>11, <1>12 DEF InsidePCs

(* The first slot is the one of the signal the loop is at.                 *)
LEMMA FirstSlot ==
  ASSUME IType, NEW q, HandleCore(dhandle, call, q), NEW a \in Actors,
         call[a].pc \in DestroyPCs, Pops(dhandle[call[a].h], Signo(a))
  PROVE  q[call[a].h][1] = Signo(a)
<1> DEFINE h == call[a].h
           s == Signo(a)
           sl == dhandle[h].slots
           P == PendingOf(dhandle, call, h)
<1>0. TypeOK /\ dhandle \in [DeciderHandles -> DeciderHandle]
  BY DEF IType, TypeOK
<1>1. /\ Exclusive(dhandle, call) /\ call[a].pc \in DeciderPCs
      /\ h \in DeciderHandles /\ s \in call[a].todo /\ call[a].todo \in SUBSET Signals
  BY <1>0, SignoType, SlotType, CallType DEF HandleCore, DeciderPCs, DestroyPCs, Call
<1>2. \A b \in Actors : b # a /\ call[b].pc \in DeciderPCs => call[b].h # h
  BY <1>1 DEF Exclusive
<1>3. sl \in Seq(Nodes \cup {NULL}) /\ dhandle[h].guarded \in SUBSET Signals
  BY <1>0, <1>1 DEF DeciderHandle
<1>4. P = {x \in dhandle[h].guarded : x \in call[a].todo}
  BY <1>1, <1>2 DEF PendingOf, DestroyPCs, DeciderPCs
<1>5. Aligned(sl, P, q[h]) /\ sl # <<>> /\ s \in dhandle[h].guarded
  BY <1>1 DEF HandleCore, Pops
<1>6. \A t \in call[a].todo : s <= t
  BY <1>1, LeastSignal DEF Signo
<1>7. P \in SUBSET Signals /\ s \in P /\ \A t \in P : s <= t
  BY <1>1, <1>3, <1>4, <1>5, <1>6
<1> HIDE DEF P, sl, s, h
<1>8. q[h][1] = s
  BY <1>3, <1>5, <1>7, AlignedFirst
<1> QED
  BY <1>8 DEF s, h

(* A careful client destroys a node only when no container but the one of  *)
(* its signal links it.                                                    *)
LEMMA SlotPlace ==
  ASSUME Careful, NodeInv, NEW a \in Actors, call[a].pc = "destroying",
         Slot(a) # NULL, DestroyAllowed(Signo(a), Slot(a)),
         NEW d \in Containers, Slot(a) \in Linked[d]
  PROVE  d = map[Signo(a)]
<1> SUFFICES ASSUME d # map[Signo(a)] PROVE FALSE
  OBVIOUS
<1> DEFINE h == call[a].h
           s == Signo(a)
           n == Slot(a)
<1>0. /\ IType /\ TypeOK /\ dhandle \in [DeciderHandles -> DeciderHandle]
  BY DEF NodeInv, Lifetime, IType, TypeOK
<1>1. call[a].pc \in DestroyPCs /\ h \in DeciderHandles /\ n \in Nodes
  BY <1>0, SlotType DEF DestroyPCs, DeciderPCs
<1>2. RaisesIn(d) = {}
  BY DEF DestroyAllowed, HasDecider, Linked
<1>3. Holders(d) = {}
  BY <1>2 DEF RaisesIn, Holders, InDecider
<1>4. info[d].state = "live"
  BY DEF NodeInv, Core, NodeCore, Placed, LiveSet
<1>5. InMap(d)
  <2>1. /\ info[d].lifetime_refcount = Cardinality(Holders(d)) + (IF InMap(d) THEN 1 ELSE 0)
        /\ info[d].lifetime_refcount > 0
    BY <1>4 DEF NodeInv, Lifetime, LifetimeAccounting, Counted
  <2>2. Cardinality(Holders(d)) = 0
    BY <1>3, FS_EmptySet
  <2> QED
    BY <2>1, <2>2
<1>6. PICK t \in Signals : map[t] = d
  BY <1>5 DEF InMap
<1>7. PICK q \in [DeciderHandles -> Seq(Signals)] :
        HandleCore(dhandle, call, q) /\ SlotCore(dhandle, q, Linked, map)
  BY DEF NodeInv, Handles
<1>8. Pops(dhandle[h], s) /\ n = Head(dhandle[h].slots)
  BY <1>0, <1>1, SlotHead
<1>9. 1 \in 1 .. Len(dhandle[h].slots) /\ dhandle[h].slots[1] = n
  <2>1. dhandle[h].slots \in Seq(Nodes \cup {NULL}) /\ dhandle[h].slots # <<>>
    BY <1>0, <1>1, <1>8 DEF DeciderHandle, Pops
  <2> QED
    BY <1>8, <2>1
<1>10. q[h][1] = s
  BY <1>0, <1>1, <1>7, <1>8, FirstSlot
<1>11. map[t] # NULL
  BY <1>6, NullAssumption
<1>12. q[h][1] = t
  <2> HIDE DEF h, n
  <2> QED
    BY <1>1, <1>6, <1>7, <1>9, <1>11 DEF SlotCore, n
<1> QED
  BY <1>6, <1>10, <1>12

(* An iteration for a slot that holds no node.                             *)
LEMMA EmptySlot ==
  ASSUME NodeInv, Lifetime', NEW a \in Actors, call[a].pc = "destroying",
         SlotDone(a), Slot(a) = NULL, map' = map,
         \A c \in Containers : Linked'[c] = Linked[c],
         \A c \in Containers : info'[c].global_handler = info[c].global_handler,
         \A c \in Containers : /\ info'[c].state = info[c].state
                               /\ info'[c].lifetime_refcount = info[c].lifetime_refcount,
         NodeCore(LiveSet, Linked, Deferred', node', OwnedBy(dhandle), call)
  PROVE  NodeInv'
<1> DEFINE O == OwnedBy(dhandle)
           O2 == OwnedBy(dhandle')
<1>1. call[a].pc \in DestroyPCs /\ IType'
  BY DEF DestroyPCs, Lifetime
<1>2. /\ Handles' /\ OrphanCore(dhandle', call', Linked')
      /\ \A n \in Nodes : n \in O2 <=> n \in O /\ n # Slot(a)
      /\ \A b \in Actors : b # a => call'[b] = call[b]
      /\ call'[a].pc \notin InsidePCs
  BY <1>1, PopFrame
<1>3. \A n \in Nodes : n \in O2 <=> n \in O
  BY <1>2, NullAssumption
<1>4. Core'
  <2>1. \A c \in Containers : c \notin LiveSet' => Linked[c] = {} /\ Deferred'[c] = {}
    BY DEF NodeCore, Placed, LiveSet
  <2>2. call[a].pc # "decider" /\ call'[a].pc # "decider"
        /\ \A b \in Actors : b # a => call'[b] = call[b]
    BY <1>2 DEF InsidePCs
  <2>3. \A c \in Containers : Linked'[c] = Linked[c] /\ Deferred'[c] = Deferred'[c]
    OBVIOUS
  <2> HIDE DEF O, O2
  <2>4. NodeCore(LiveSet, Linked, Deferred', node', O, call)
    BY DEF O
  <2>5. NodeCore(LiveSet', Linked', Deferred', node', O2, call')
    BY ONLY <1>3, <2>1, <2>2, <2>3, <2>4, CoreKept, a \in Actors
  <2> QED
    BY <2>5 DEF Core, O2
<1>5. AbandonCore(call', Linked', OwnedBy(dhandle'), map')
  <2>1. call'[a].pc \notin AbandonPCs
    BY <1>2 DEF AbandonPCs, InsidePCs
  <2>2. AbandonCore(call, Linked, O, map)
    BY DEF NodeInv
  <2> HIDE DEF O
  <2>3. \A b \in Actors : call[b].pc \in AbandonPCs => call[b].current \in O2
    <3>1. O \subseteq Nodes
      BY DEF O, OwnedBy
    <3> QED
      BY <1>3, <2>2, <3>1 DEF AbandonCore
  <2> QED
    BY <1>2, <2>1, <2>2, <2>3 DEF AbandonCore
<1>6. DistinctLists' /\ Counted'
  BY DEF NodeInv, DistinctLists, Counted
<1> QED
  BY <1>2, <1>4, <1>5, <1>6 DEF NodeInv

(* The destroy of a node whose signal is not installed.                    *)
LEMMA NodesOrphaned ==
  ASSUME Careful, NodeInv, Lifetime', NEW a \in Actors,
         DestroyUninstalled(a) \/ OrphanLoad(a)
  PROVE  NodeInv'
<1>0. /\ IType /\ TypeOK /\ call[a] \in Call /\ IType'
      /\ map \in [Signals -> Containers \cup {NULL}]
  BY CallType DEF NodeInv, Lifetime, IType, TypeOK
<1>1. /\ map' = map /\ info' = info /\ node' = node
      /\ LiveSet' = LiveSet /\ Linked' = Linked /\ Deferred' = Deferred
  BY DEF DestroyUninstalled, OrphanLoad, registry, handles, LiveSet, Linked, Deferred
<1>c. NodeCore(LiveSet, Linked, Deferred, node, OwnedBy(dhandle), call)
  BY DEF NodeInv, Core
<1>2. CASE DestroyUninstalled(a) /\ Slot(a) = NULL
  <2>1. call[a].pc = "destroying" /\ SlotDone(a)
    BY <1>2 DEF DestroyUninstalled, At
  <2>2. NodeCore(LiveSet, Linked, Deferred', node', OwnedBy(dhandle), call)
    BY <1>1, <1>c
  <2> QED
    BY <1>1, <1>2, <2>1, <2>2, EmptySlot
<1>3. ASSUME dhandle' = dhandle, call[a].pc \in DestroyPCs,
             \A b \in Actors : b # a => call'[b] = call[b],
             call'[a].h = call[a].h, call'[a].todo = call[a].todo,
             call'[a].pc \in OrphanPCs,
             Pops(dhandle[call[a].h], Min(call[a].todo)),
             call'[a].current = Head(dhandle[call[a].h].slots),
             \A c \in Containers : call'[a].current \notin Linked[c],
             call'[a].pc = "orphan_store" => call'[a].reg = 0
      PROVE  NodeInv'
  <2>1. Core'
    <3> DEFINE O == OwnedBy(dhandle)
    <3>1. NodeCore(LiveSet, Linked, Deferred, node, O, call)
      BY <1>c
    <3>2. \A d \in Containers : Linked'[d] = Linked[d] /\ Deferred'[d] = Deferred[d]
      BY <1>1
    <3>3. \A d \in Containers : d \notin LiveSet' => Linked[d] = {} /\ Deferred[d] = {}
      BY <1>1, <3>1 DEF NodeCore, Placed
    <3>4. call[a].pc # "decider" /\ call'[a].pc # "decider"
          /\ \A b \in Actors : b # a => call'[b] = call[b]
      BY <1>3 DEF DestroyPCs, OrphanPCs
    <3> HIDE DEF O
    <3>5. NodeCore(LiveSet', Linked', Deferred', node, O, call')
      BY ONLY <3>1, <3>2, <3>3, <3>4, CoreKept, a \in Actors
    <3> QED
      BY <1>1, <1>3, <3>5 DEF Core, O
  <2>2. Handles'
    <3>1. PICK q \in [DeciderHandles -> Seq(Signals)] :
            HandleCore(dhandle, call, q) /\ SlotCore(dhandle, q, Linked, map)
      BY DEF NodeInv, Handles
    <3>2. call'[a].pc \in DestroyPCs
      BY <1>3 DEF DestroyPCs, OrphanPCs
    <3>3. HandleCore(dhandle, call', q)
      BY <1>3, <3>1, <3>2, HandleKept
    <3> QED
      BY <1>1, <1>3, <3>1, <3>3 DEF Handles
  <2>3. OrphanCore(dhandle, call', Linked)
    <3>1. OrphanCore(dhandle, call, Linked)
      BY DEF NodeInv
    <3>2. /\ Pops(dhandle[call'[a].h], Min(call'[a].todo))
          /\ call'[a].current = Head(dhandle[call'[a].h].slots)
          /\ \A c \in Containers : call'[a].current \notin Linked[c]
          /\ call'[a].pc = "orphan_store" => call'[a].reg = 0
      BY <1>3
    <3> QED
      BY <1>3, <3>1, <3>2 DEF OrphanCore
  <2>4. AbandonCore(call', Linked, OwnedBy(dhandle), map)
    <3>1. AbandonCore(call, Linked, OwnedBy(dhandle), map) /\ call'[a].pc \notin AbandonPCs
      BY <1>3 DEF NodeInv, AbandonPCs, OrphanPCs
    <3> QED
      BY <1>3, <3>1 DEF AbandonCore
  <2> QED
    BY <1>1, <1>3, <2>1, <2>2, <2>3, <2>4 DEF NodeInv, DistinctLists, Counted
<1>4. CASE DestroyUninstalled(a) /\ Slot(a) # NULL
  <2> DEFINE n == Slot(a)
  <2>1. /\ call[a].pc = "destroying" /\ call[a].pc \in DestroyPCs /\ map[Signo(a)] = NULL
        /\ DestroyAllowed(Signo(a), n) /\ dhandle' = dhandle
        /\ Step(a, [call[a] EXCEPT !.pc = "orphan_load", !.current = n])
    BY <1>4 DEF DestroyUninstalled, At, DestroyPCs
  <2>2. n \in Nodes
    BY <1>0, <1>4, <2>1, SlotType DEF DestroyPCs, DeciderPCs
  <2>3. Pops(dhandle[call[a].h], Signo(a)) /\ n = Head(dhandle[call[a].h].slots)
    BY <1>0, <2>1, <2>2, SlotHead
  <2>4. \A c \in Containers : n \notin Linked[c]
    BY <1>4, <2>1, SlotPlace, NullAssumption
  <2> HIDE DEF n
  <2>5. /\ call'[a].pc = "orphan_load" /\ call'[a].current = n
        /\ call'[a].h = call[a].h /\ call'[a].todo = call[a].todo
        /\ \A b \in Actors : b # a => call'[b] = call[b]
    <3> DEFINE k == [call[a] EXCEPT !.pc = "orphan_load", !.current = n]
    <3>1. /\ k.pc = "orphan_load" /\ k.current = n /\ k.h = call[a].h
          /\ k.todo = call[a].todo
      BY <1>0 DEF Call
    <3>2. Step(a, k)
      BY <2>1
    <3> HIDE DEF k
    <3> QED
      BY <1>0, <3>1, <3>2 DEF Step, TypeOK
  <2> QED
    BY <1>3, <2>1, <2>3, <2>4, <2>5 DEF OrphanPCs, Signo
<1>5. CASE OrphanLoad(a)
  <2> DEFINE n == call[a].current
  <2>1. /\ call[a].pc = "orphan_load" /\ call[a].pc \in DestroyPCs /\ call[a].pc \in OrphanPCs
        /\ dhandle' = dhandle
        /\ Step(a, [call[a] EXCEPT !.pc = "orphan_store", !.reg = node[n].refcount - 1])
    BY <1>5 DEF OrphanLoad, At, DestroyPCs, OrphanPCs, handles
  <2>2. /\ Pops(dhandle[call[a].h], Min(call[a].todo))
        /\ n = Head(dhandle[call[a].h].slots)
        /\ \A c \in Containers : n \notin Linked[c]
    BY <2>1 DEF NodeInv, OrphanCore
  <2>3. n \in Nodes
    BY <1>0, <2>1 DEF IType, CallShape, ShapeOf
  <2>4. n \in OwnedBy(dhandle)
    BY <1>0, <2>1, <2>2, <2>3, SlotHead DEF Signo
  <2>5. node[n].refcount = 1
    <3>1. PinsOf(call, n) = {}
      BY <1>c, <2>2 DEF NodeCore, Pinned, PinsOf
    <3>2. Cardinality(PinsOf(call, n)) = 0
      BY <3>1, PinsFinite
    <3> QED
      BY <1>c, <2>3, <2>4, <3>2 DEF NodeCore, Referenced
  <2>6. /\ call'[a].pc = "orphan_store" /\ call'[a].current = n /\ call'[a].reg = 0
        /\ call'[a].h = call[a].h /\ call'[a].todo = call[a].todo
        /\ \A b \in Actors : b # a => call'[b] = call[b]
    <3> DEFINE k == [call[a] EXCEPT !.pc = "orphan_store", !.reg = node[n].refcount - 1]
    <3>1. /\ k.pc = "orphan_store" /\ k.current = n /\ k.h = call[a].h
          /\ k.todo = call[a].todo /\ k.reg = node[n].refcount - 1
      BY <1>0 DEF Call
    <3>2. Step(a, k)
      BY <2>1
    <3> HIDE DEF k
    <3> QED
      BY <1>0, <2>5, <3>1, <3>2 DEF Step, TypeOK
  <2> QED
    BY <1>3, <2>1, <2>2, <2>6 DEF OrphanPCs
<1> QED
  BY <1>2, <1>4, <1>5

(* An iteration that gives up the node n of its slot.                      *)
LEMMA NodeGivenUp ==
  ASSUME NodeInv, Lifetime', NEW a \in Actors, call[a].pc \in DestroyPCs,
         SlotDone(a), NEW n \in Nodes, n = Slot(a), map' = map,
         \A c \in Containers : \A m : m # n => (m \in Linked'[c] <=> m \in Linked[c]),
         \A c \in Containers : n \in Linked'[c] => n \in Linked[c],
         DistinctLists', SameCounts(info'),
         NodeCore(LiveSet, Linked', Deferred', node', {m \in OwnedBy(dhandle) : m # n}, call),
         \A b \in Actors : call[b].pc \in AbandonPCs => call[b].current # n
  PROVE  NodeInv'
<1> DEFINE O == {m \in OwnedBy(dhandle) : m # n}
           O2 == OwnedBy(dhandle')
<1>1. IType' /\ \A c \in Containers : Linked'[c] \subseteq Linked[c]
  BY DEF Lifetime
<1>2. /\ Handles' /\ OrphanCore(dhandle', call', Linked')
      /\ \A m \in Nodes : m \in O2 <=> m \in OwnedBy(dhandle) /\ m # Slot(a)
      /\ \A b \in Actors : b # a => call'[b] = call[b]
      /\ call'[a].pc \notin InsidePCs
  BY <1>1, PopFrame
<1>3. \A m \in Nodes : m \in O2 <=> m \in O
  BY <1>2
<1>4. LiveSet' = LiveSet
  BY DEF LiveSet, SameCounts
<1>5. Core'
  <2>1. /\ Placed(LiveSet, Linked', Deferred', node') /\ Pinned(Linked', call)
        /\ Referenced(Deferred', node', O, call) /\ node' \in [Nodes -> Decider]
    BY DEF NodeCore
  <2>2. call[a].pc # "decider" /\ call'[a].pc # "decider"
        /\ \A b \in Actors : b # a => call'[b] = call[b]
    BY <1>2 DEF InsidePCs, DestroyPCs
  <2>3. \A m : PinsOf(call', m) = PinsOf(call, m)
    BY <2>2 DEF PinsOf
  <2> HIDE DEF O, O2
  <2>4. Placed(LiveSet', Linked', Deferred', node')
    BY <1>4, <2>1
  <2>5. Pinned(Linked', call')
    BY <2>1, <2>2 DEF Pinned
  <2>6. Referenced(Deferred', node', O2, call')
    BY <1>3, <2>1, <2>3 DEF Referenced
  <2> QED
    BY <2>1, <2>4, <2>5, <2>6 DEF Core, NodeCore, O2
<1>6. AbandonCore(call', Linked', OwnedBy(dhandle'), map')
  <2>1. call'[a].pc \notin AbandonPCs
    BY <1>2 DEF AbandonPCs, InsidePCs
  <2>2. AbandonCore(call, Linked, OwnedBy(dhandle), map) /\ OwnedBy(dhandle) \subseteq Nodes
    BY DEF NodeInv, OwnedBy
  <2>3. \A b \in Actors : call[b].pc \in AbandonPCs =>
          call[b].current \in O2 /\ call[b].current \in Linked'[call[b].item]
    BY <1>2, <2>2 DEF AbandonCore
  <2> QED
    BY <1>2, <2>1, <2>2, <2>3 DEF AbandonCore
<1>7. Counted'
  BY DEF NodeInv, Counted, SameCounts
<1> QED
  BY <1>2, <1>5, <1>6, <1>7 DEF NodeInv

(* The last reference on a node that no container links any more.          *)
LEMMA NodesOrphanFreed ==
  ASSUME NodeInv, Lifetime', NEW a \in Actors, OrphanStore(a)
  PROVE  NodeInv'
<1> DEFINE n == call[a].current
           O == OwnedBy(dhandle)
           O2 == {m \in OwnedBy(dhandle) : m # n}
           dropped == [node EXCEPT ![n].refcount = 0]
<1>0. /\ IType /\ TypeOK /\ node \in [Nodes -> Decider]
      /\ NodeCore(LiveSet, Linked, Deferred, node, O, call)
  BY DEF NodeInv, Lifetime, IType, TypeOK, Core
<1>1. /\ call[a].pc = "orphan_store" /\ call[a].pc \in DestroyPCs /\ call[a].pc \in OrphanPCs
      /\ map' = map /\ info' = info /\ SlotDone(a)
      /\ LiveSet' = LiveSet /\ Linked' = Linked /\ Deferred' = Deferred
  BY DEF OrphanStore, At, DestroyPCs, OrphanPCs, installed, LiveSet, Linked, Deferred
<1>2. /\ Pops(dhandle[call[a].h], Min(call[a].todo))
      /\ n = Head(dhandle[call[a].h].slots)
      /\ \A c \in Containers : n \notin Linked[c]
      /\ call[a].reg = 0
  BY <1>1 DEF NodeInv, OrphanCore
<1>3. n \in Nodes
  BY <1>0, <1>1 DEF IType, CallShape, ShapeOf
<1>4. n = Slot(a) /\ n \in O
  BY <1>0, <1>1, <1>2, <1>3, SlotHead DEF Signo
<1>5. node[n].refcount = 1
  <2>1. PinsOf(call, n) = {}
    BY <1>0, <1>2 DEF NodeCore, Pinned, PinsOf
  <2>2. Cardinality(PinsOf(call, n)) = 0
    BY <2>1, PinsFinite
  <2> QED
    BY <1>0, <1>3, <1>4, <2>2 DEF NodeCore, Referenced
<1>6. node' = FreeNodes(dropped, {n})
  BY <1>2 DEF OrphanStore
<1> HIDE DEF n, O, O2
<1>7. /\ dropped \in [Nodes -> Decider] /\ dropped[n].refcount = 0
      /\ \A m \in Nodes : m # n => dropped[m] = node[m]
  BY <1>0, <1>3, NodeCount
<1> HIDE DEF dropped
<1>8. /\ node' \in [Nodes -> Decider]
      /\ node'[n].refcount = node[n].refcount - 1
      /\ node'[n].state = IF node[n].refcount = 1 THEN "freed" ELSE node[n].state
      /\ \A m \in Nodes : m # n => node'[m] = node[m]
  BY <1>3, <1>5, <1>6, <1>7, FreedNodes
<1>9. \A d \in Containers : Linked[d] = IF node[n].refcount = 1 THEN Linked[d] \ {n} ELSE Linked[d]
  BY <1>2, <1>5
<1>10. \A m \in Nodes : m \in O2 <=> m \in O /\ m # n
  BY DEF O, O2
<1>11. NodeCore(LiveSet, Linked, Deferred, node', O2, call)
  <2> DEFINE nd2 == node'
  <2>1. nd2 \in [Nodes -> Decider] /\ Dropped(node, Linked, nd2, Linked, n)
    BY <1>8, <1>9 DEF Dropped
  <2> HIDE DEF nd2
  <2>2. NodeCore(LiveSet, Linked, Deferred, nd2, O2, call)
    BY ONLY <1>0, <1>3, <1>4, <1>10, <2>1, CoreDisown
  <2> QED
    BY <2>2 DEF nd2
<1>12. \A b \in Actors : call[b].pc \in AbandonPCs => call[b].current # n
  BY <1>2 DEF NodeInv, AbandonCore
<1>13. DistinctLists' /\ SameCounts(info')
  BY <1>1 DEF NodeInv, DistinctLists, SameCounts
<1>14. NodeCore(LiveSet, Linked', Deferred', node', {m \in OwnedBy(dhandle) : m # n}, call)
  BY <1>1, <1>11 DEF O2
<1> QED
  BY <1>1, <1>3, <1>4, <1>12, <1>13, <1>14, NodeGivenUp

(* The lists and nodes after the locked part of a destroy of node n, in    *)
(* container c.                                                            *)
Destroyed(c, n) ==
  /\ \A d \in Containers : d # c => info'[d] = info[d]
  /\ info'[c].deferred_frees = <<>>
  /\ info'[c].global_handler =
       IF n # NULL /\ node[n].refcount = 1
       THEN LIST_REMOVE(info[c].global_handler, n) ELSE info[c].global_handler
  /\ n = NULL => node' = FreeNodes(node, Deferred[c])
  /\ n # NULL => node' = FreeNodes([node EXCEPT ![n].refcount = node[n].refcount - 1],
                            Deferred[c] \cup (IF node[n].refcount = 1 THEN {n} ELSE {}))

(* What the locked part of a destroy does.                                 *)
LEMMA DestroyEffect ==
  ASSUME IType, NEW a \in Actors, DestroyLocked(a)
  PROVE  /\ map[Signo(a)] \in Containers /\ call[a].pc = "destroying" /\ SlotDone(a)
         /\ map' = map /\ DestroyAllowed(Signo(a), Slot(a)) /\ SameCounts(info')
         /\ Destroyed(map[Signo(a)], Slot(a))
<1> DEFINE c == map[Signo(a)]
           n == Slot(a)
<1>0. /\ TypeOK /\ info \in [Containers -> SighandlerInfo]
      /\ map \in [Signals -> Containers \cup {NULL}] /\ node \in [Nodes -> Decider]
  BY DEF IType, TypeOK, SignoToSighandlerMap
<1>1. call[a].pc = "destroying" /\ call[a].pc \in InstallPCs \cup DeciderPCs
  BY DEF DestroyLocked, At, DeciderPCs
<1>2. Signo(a) \in Signals
  BY <1>1, SignoType
<1>3. c \in Containers
  BY <1>0, <1>2 DEF DestroyLocked
<1> DEFINE g == IF n # NULL /\ node[n].refcount = 1
                THEN LIST_REMOVE(info[c].global_handler, n) ELSE info[c].global_handler
           k == [info[c] EXCEPT !.deferred_frees = <<>>, !.global_handler = g]
<1>4. info' = [info EXCEPT ![c] = k]
  BY DEF DestroyLocked
<1>5. /\ k.deferred_frees = <<>> /\ k.global_handler = g
      /\ k.state = info[c].state /\ k.lifetime_refcount = info[c].lifetime_refcount
  <2>1. info[c] \in SighandlerInfo
    BY <1>0, <1>3
  <2> HIDE DEF g
  <2> QED
    BY <2>1 DEF SighandlerInfo
<1> HIDE DEF k
<1>6. /\ info'[c] = k /\ \A d \in Containers : d # c => info'[d] = info[d]
  BY <1>0, <1>3, <1>4
<1>7. SameCounts(info')
  BY <1>5, <1>6 DEF SameCounts
<1>8. map' = map /\ SlotDone(a) /\ DestroyAllowed(Signo(a), n)
  BY DEF DestroyLocked, installed
<1>9. Deferred[c] = ToSet(info[c].deferred_frees)
  BY <1>3 DEF Deferred
<1>10. n = NULL => node' = FreeNodes(node, Deferred[c])
  <2> SUFFICES ASSUME n = NULL PROVE node' = FreeNodes(node, Deferred[c])
    OBVIOUS
  <2>1. node' = FreeNodes(node, Deferred[c] \cup {})
    BY <1>9 DEF DestroyLocked
  <2>2. Deferred[c] \cup {} = Deferred[c]
    OBVIOUS
  <2> QED
    BY <2>1, <2>2
<1>11. n # NULL => node' = FreeNodes([node EXCEPT ![n].refcount = node[n].refcount - 1],
                                  Deferred[c] \cup (IF node[n].refcount = 1 THEN {n} ELSE {}))
  BY <1>0, <1>9 DEF DestroyLocked
<1> QED
  BY <1>1, <1>3, <1>5, <1>6, <1>7, <1>8, <1>10, <1>11 DEF Destroyed

(* The locked part of a destroy.                                           *)
LEMMA NodesDestroy ==
  ASSUME Careful, NodeInv, Lifetime', NEW a \in Actors, DestroyLocked(a)
  PROVE  NodeInv'
<1> DEFINE c == map[Signo(a)]
           n == Slot(a)
           O == OwnedBy(dhandle)
           drained == FreeNodes(node, Deferred[c])
           D2 == Deferred'
           L2 == Linked'
           nd2 == node'
<1>0. /\ IType /\ TypeOK /\ node \in [Nodes -> Decider] /\ IType'
      /\ info \in [Containers -> SighandlerInfo] /\ nd2 \in [Nodes -> Decider]
      /\ NodeCore(LiveSet, Linked, Deferred, node, O, call)
  BY DEF NodeInv, Lifetime, IType, TypeOK, Core
<1>1. /\ c \in Containers /\ call[a].pc = "destroying" /\ SlotDone(a)
      /\ map' = map /\ DestroyAllowed(Signo(a), n) /\ SameCounts(info')
      /\ \A d \in Containers : d # c => info'[d] = info[d]
      /\ info'[c].deferred_frees = <<>>
      /\ info'[c].global_handler =
           IF n # NULL /\ node[n].refcount = 1
           THEN LIST_REMOVE(info[c].global_handler, n) ELSE info[c].global_handler
      /\ n = NULL => nd2 = drained
      /\ n # NULL => nd2 = FreeNodes([node EXCEPT ![n].refcount = node[n].refcount - 1],
                               Deferred[c] \cup (IF node[n].refcount = 1 THEN {n} ELSE {}))
  <2>1. /\ c \in Containers /\ call[a].pc = "destroying" /\ SlotDone(a)
        /\ map' = map /\ DestroyAllowed(Signo(a), n) /\ SameCounts(info')
    BY <1>0, DestroyEffect
  <2>2. Destroyed(c, n)
    BY <1>0, DestroyEffect
  <2> HIDE DEF c, n
  <2> QED
    BY <1>0, <2>1, <2>2 DEF drained, nd2, Destroyed
<1>2. call[a].pc \in DestroyPCs /\ n \in Nodes \cup {NULL}
  BY <1>0, <1>1, SlotType DEF DestroyPCs, DeciderPCs
<1>d. /\ D2[c] = {} /\ \A d \in Containers : d # c => D2[d] = Deferred[d]
  BY <1>1, NoLength, EmptyList DEF Deferred, ToSet
<1>3. /\ drained \in [Nodes -> Decider]
      /\ \A m \in Nodes : IF m \in Deferred[c]
           THEN drained[m].state = "freed" /\ drained[m].refcount = node[m].refcount
           ELSE drained[m] = node[m]
  BY <1>0, FreedNodes
<1>p. \A d \in Containers : n # NULL /\ n \in Linked[d] => d = c
  BY <1>1, SlotPlace
<1> HIDE DEF O, drained, c, n, D2, L2, nd2
<1>4. NodeCore(LiveSet, Linked, D2, drained, O, call)
  <2>1. \A m \in Nodes : IF m \in Deferred[c] THEN drained[m].state = "freed"
                         ELSE drained[m] = node[m]
    BY <1>3
  <2> QED
    BY ONLY <1>0, <1>1, <1>3, <1>d, <2>1, CoreDrain
<1>5. CASE n = NULL
  <2>1. \A d \in Containers : info'[d].global_handler = info[d].global_handler
    BY <1>1, <1>5
  <2>2. \A d \in Containers : Linked'[d] = Linked[d]
    BY <2>1 DEF Linked
  <2>3. NodeCore(LiveSet, Linked, Deferred', node', OwnedBy(dhandle), call)
    BY <1>1, <1>4, <1>5 DEF D2, nd2, O
  <2> QED
    BY <1>1, <1>5, <2>1, <2>2, <2>3, EmptySlot DEF SameCounts, n
<1>6. CASE n # NULL
  <2>0. n \in Nodes /\ n = Slot(a)
    BY <1>2, <1>6 DEF n
  <2>1. n \in O
    BY <1>0, <1>2, <2>0, SlotHead DEF O
  <2>2. node[n].refcount \in Int /\ n \notin Deferred[c]
    <3>1. /\ node[n].state = "live" /\ node[n].refcount = Cardinality(PinsOf(call, n)) + 1
      BY <1>0, <2>0, <2>1 DEF NodeCore, Referenced
    <3>2. Cardinality(PinsOf(call, n)) \in Nat
      BY PinsFinite
    <3>3. n \in Deferred[c] => node[n].refcount = 0
      BY <1>0, <1>1 DEF NodeCore, Placed
    <3> QED
      BY <3>1, <3>2, <3>3
  <2> DEFINE dropped == [node EXCEPT ![n].refcount = node[n].refcount - 1]
             S == Deferred[c] \cup (IF node[n].refcount = 1 THEN {n} ELSE {})
  <2>3. /\ dropped \in [Nodes -> Decider] /\ dropped[n].refcount = node[n].refcount - 1
        /\ dropped[n].state = node[n].state
        /\ \A m \in Nodes : m # n => dropped[m] = node[m]
    <3>1. node[n].refcount - 1 \in Int
      BY <2>2
    <3> QED
      BY <1>0, <2>0, <3>1, NodeCount
  <2>4. nd2 = FreeNodes(dropped, S)
    BY <1>1, <1>6
  <2>5. /\ n \in S <=> node[n].refcount = 1
        /\ \A m \in Nodes : m # n => (m \in S <=> m \in Deferred[c])
    BY <2>2
  <2> HIDE DEF dropped, S
  <2>6. /\ \A m \in Nodes : IF m \in S
             THEN nd2[m].state = "freed" /\ nd2[m].refcount = dropped[m].refcount
             ELSE nd2[m] = dropped[m]
    BY <2>3, <2>4, FreedNodes
  <2>7. drained[n] = node[n]
    BY <1>3, <2>0, <2>2
  <2>8. /\ nd2[n].refcount = drained[n].refcount - 1
        /\ nd2[n].state = IF drained[n].refcount = 1 THEN "freed" ELSE drained[n].state
    BY <2>0, <2>3, <2>5, <2>6, <2>7
  <2>9. ASSUME NEW m \in Nodes, m # n PROVE nd2[m] = drained[m]
    <3>1. CASE m \in Deferred[c]
      <4>1. FreeNodes(node, Deferred[c])[m] = [node[m] EXCEPT !.state = "freed"]
        BY <3>1 DEF FreeNodes
      <4>2. FreeNodes(dropped, S)[m] = [dropped[m] EXCEPT !.state = "freed"]
        BY <2>5, <2>9, <3>1 DEF FreeNodes
      <4> QED
        BY <2>3, <2>4, <2>9, <4>1, <4>2 DEF drained
    <3>2. CASE m \notin Deferred[c]
      BY <1>3, <2>3, <2>5, <2>6, <2>9, <3>2
    <3> QED
      BY <3>1, <3>2
  <2>10. \A d \in Containers : Distinct(info[d].global_handler) /\ info[d].global_handler \in Seq(Nodes)
    BY <1>0, InfoType DEF NodeInv, DistinctLists
  <2>11. DistinctLists'
    <3>1. Distinct(info'[c].global_handler)
      BY <1>1, <2>10, RemoveNode
    <3> QED
      BY <1>1, <2>10, <3>1 DEF DistinctLists
  <2>12. L2[c] = IF node[n].refcount = 1 THEN Linked[c] \ {n} ELSE Linked[c]
    <3>1. ToSet(LIST_REMOVE(info[c].global_handler, n)) = ToSet(info[c].global_handler) \ {n}
      BY <1>1, <2>10, RemoveNode
    <3> QED
      BY <1>1, <1>6, <3>1 DEF L2, Linked
  <2>13. \A d \in Containers : d # c => L2[d] = Linked[d] /\ n \notin Linked[d]
    <3>1. \A d \in Containers : d # c => n \notin Linked[d]
      BY <1>6, <1>p
    <3> QED
      BY <1>1, <3>1 DEF L2, Linked
  <2>14. \A d \in Containers :
           L2[d] = IF drained[n].refcount = 1 THEN Linked[d] \ {n} ELSE Linked[d]
    BY <2>7, <2>12, <2>13
  <2>15. Dropped(drained, Linked, nd2, L2, n)
    BY <2>8, <2>9, <2>14 DEF Dropped
  <2> DEFINE O2 == {m \in O : m # n}
  <2>16. \A m \in Nodes : m \in O2 <=> m \in O /\ m # n
    OBVIOUS
  <2> HIDE DEF O2
  <2>17. NodeCore(LiveSet, L2, D2, nd2, O2, call)
    BY ONLY <1>0, <1>4, <2>0, <2>1, <2>15, <2>16, CoreDisown
  <2>18. NodeCore(LiveSet, Linked', Deferred', node', {m \in OwnedBy(dhandle) : m # n}, call)
    BY <2>17 DEF L2, D2, nd2, O2, O
  <2>19. \A d \in Containers : \A m : m # n => (m \in Linked'[d] <=> m \in Linked[d])
    BY <2>14 DEF L2
  <2>20. \A d \in Containers : n \in Linked'[d] => n \in Linked[d]
    BY <2>14 DEF L2
  <2>21. \A b \in Actors : call[b].pc \in AbandonPCs => call[b].current # n
    BY <1>1 DEF DestroyAllowed, Abandoned, AbandonPCs
  <2> QED
    BY <1>1, <1>2, <2>0, <2>11, <2>18, <2>19, <2>20, <2>21, NodeGivenUp
<1> QED
  BY <1>5, <1>6

-----------------------------------------------------------------------------
(* signal_decider_create().                                                *)

(* A call takes a handle, and leaves the slots of all of them alone.       *)
LEMMA HandleOnly ==
  ASSUME NodeInv, Lifetime', NEW a \in Actors, NEW h \in DeciderHandles,
         map' = map, info' = info, node' = node,
         \A b \in Actors : b # a => call'[b] = call[b],
         call[a].pc \in {"idle", "creating"}, call'[a].pc \in {"creating", "destroying"},
         \A g \in DeciderHandles : g # h => dhandle'[g] = dhandle[g],
         dhandle'[h].slots = dhandle[h].slots,
         \A b \in Actors : b # a /\ call[b].pc \in DeciderPCs => call[b].h # h,
         \E q \in [DeciderHandles -> Seq(Signals)] :
           HandleCore(dhandle', call', q) /\ SlotCore(dhandle', q, Linked, map)
  PROVE  NodeInv'
<1>1. LiveSet' = LiveSet /\ Linked' = Linked /\ Deferred' = Deferred
  BY DEF LiveSet, Linked, Deferred
<1>2. Handles'
  BY <1>1 DEF Handles
<1>3. \A m \in Nodes : m \in OwnedBy(dhandle') <=> m \in OwnedBy(dhandle)
  <2>1. \A g \in DeciderHandles : dhandle'[g].slots = dhandle[g].slots
    OBVIOUS
  <2> QED
    BY <2>1 DEF OwnedBy
<1>4. Core'
  <2>1. NodeCore(LiveSet, Linked, Deferred, node, OwnedBy(dhandle), call)
    BY DEF NodeInv, Core
  <2>2. \A c \in Containers : c \notin LiveSet => Linked[c] = {} /\ Deferred[c] = {}
    BY <2>1 DEF NodeCore, Placed
  <2>3. call[a].pc # "decider" /\ call'[a].pc # "decider"
    OBVIOUS
  <2>4. \A m : PinsOf(call', m) = PinsOf(call, m)
    BY <2>3 DEF PinsOf
  <2>5. Pinned(Linked, call')
    BY <2>1, <2>3 DEF NodeCore, Pinned
  <2>6. Referenced(Deferred, node, OwnedBy(dhandle'), call')
    BY <1>3, <2>1, <2>4 DEF NodeCore, Referenced
  <2>7. NodeCore(LiveSet, Linked, Deferred, node, OwnedBy(dhandle'), call')
    BY <2>1, <2>5, <2>6 DEF NodeCore
  <2> QED
    BY <1>1, <2>7 DEF Core
<1>5. OrphanCore(dhandle', call', Linked')
  <2>1. OrphanCore(dhandle, call, Linked) /\ call'[a].pc \notin OrphanPCs
    BY DEF NodeInv, OrphanPCs
  <2>2. \A b \in Actors : b # a /\ call[b].pc \in OrphanPCs =>
          dhandle'[call[b].h] = dhandle[call[b].h]
    <3>1. \A b \in Actors : call[b].pc \in OrphanPCs =>
            call[b].pc \in DeciderPCs /\ call[b].h \in DeciderHandles
      BY DEF NodeInv, Lifetime, IType, CallShape, ShapeOf, OrphanPCs, DeciderPCs
    <3> QED
      BY <3>1
  <2> QED
    BY <1>1, <2>1, <2>2 DEF OrphanCore
<1>6. AbandonCore(call', Linked', OwnedBy(dhandle'), map')
  <2>1. AbandonCore(call, Linked, OwnedBy(dhandle), map) /\ call'[a].pc \notin AbandonPCs
        /\ OwnedBy(dhandle) \subseteq Nodes
    BY DEF NodeInv, AbandonPCs, OwnedBy
  <2>2. \A b \in Actors : call[b].pc \in AbandonPCs => call[b].current \in OwnedBy(dhandle')
    BY <1>3, <2>1 DEF AbandonCore
  <2> QED
    BY <1>1, <2>1, <2>2 DEF AbandonCore
<1>7. DistinctLists' /\ Counted'
  BY DEF NodeInv, DistinctLists, Counted
<1> QED
  BY <1>2, <1>4, <1>5, <1>6, <1>7 DEF NodeInv

(* The beginning and the failure of a create, and the beginning of a       *)
(* destroy.                                                                *)
LEMMA NodesTaken ==
  ASSUME NodeInv, Lifetime', NEW a \in Actors,
         SignalDeciderCreate(a) \/ CreateFails(a) \/ SignalDeciderDestroy(a)
  PROVE  NodeInv'
<1>0. /\ IType /\ TypeOK /\ call[a] \in Call /\ call \in [Actors -> Call]
      /\ dhandle \in [DeciderHandles -> DeciderHandle]
  BY CallType DEF NodeInv, Lifetime, IType, TypeOK
<1>1. map' = map /\ info' = info /\ node' = node
  BY DEF SignalDeciderCreate, CreateFails, SignalDeciderDestroy, registry, handles
<1>2. PICK q \in [DeciderHandles -> Seq(Signals)] :
        HandleCore(dhandle, call, q) /\ SlotCore(dhandle, q, Linked, map)
  BY DEF NodeInv, Handles
<1>3. CASE SignalDeciderCreate(a)
  <2>1. PICK h \in DeciderHandles, S \in (SUBSET Signals) \ {{}}, first \in BOOLEAN :
          /\ dhandle[h].state = "unused"
          /\ dhandle' = [dhandle EXCEPT ![h] =
                           [state |-> "busy", guarded |-> S,
                            callfirst |-> first, slots |-> <<>>]]
          /\ Step(a, [Idle EXCEPT !.pc = "creating", !.todo = S, !.h = h])
    BY <1>3 DEF SignalDeciderCreate
  <2>2. call[a].pc = "idle"
    BY <1>3 DEF SignalDeciderCreate, At
  <2> DEFINE k == [Idle EXCEPT !.pc = "creating", !.todo = S, !.h = h]
             r == [q EXCEPT ![h] = <<>>]
             dm == dhandle'
             cm == call'
  <2>3. k.pc = "creating" /\ k.todo = S /\ k.h = h
    BY DEF Idle
  <2> HIDE DEF k
  <2>4. cm[a] = k /\ \A b \in Actors : b # a => cm[b] = call[b]
    BY <1>0, <2>1 DEF Step, k
  <2>5. /\ dm[h].state = "busy" /\ dm[h].slots = <<>> /\ dm[h].guarded = S
        /\ \A g \in DeciderHandles : g # h => dm[g] = dhandle[g]
    BY <1>0, <2>1
  <2>6. /\ r \in [DeciderHandles -> Seq(Signals)] /\ r[h] = <<>>
        /\ \A g \in DeciderHandles : g # h => r[g] = q[g]
    <3>1. <<>> \in Seq(Signals)
      OBVIOUS
    <3> QED
      BY <3>1
  <2> HIDE DEF r, dm, cm
  <2>7. HandleCore(dm, cm, r)
    <3>1. \A g \in DeciderHandles : g # h => dm[g] = dhandle[g] /\ r[g] = q[g]
      BY <2>5, <2>6
    <3>2. /\ call[a].pc \notin DeciderPCs /\ cm[a].pc = "creating" /\ cm[a].h = h
          /\ cm[a].todo = dm[h].guarded /\ dhandle[h].state = "unused"
      BY <2>1, <2>2, <2>3, <2>4, <2>5 DEF DeciderPCs
    <3>3. HandleCore(dhandle, call, q)
      BY <1>2
    <3>4. \A b \in Actors : b # a => cm[b] = call[b]
      BY <2>4
    <3>5. dm[h].state = "busy" /\ dm[h].slots = <<>> /\ r[h] = <<>>
      BY <2>5, <2>6
    <3>6. Allocated(dhandle, dm, call, cm, q, r, a, h)
      BY <3>1, <3>2, <3>4, <3>5 DEF Allocated
    <3> QED
      BY ONLY <3>3, <3>6, HandleNew, a \in Actors, h \in DeciderHandles
  <2>8. SlotCore(dm, r, Linked, map)
    <3>1. \A g \in DeciderHandles :
            \/ dm[g].slots = <<>>
            \/ dm[g].slots = dhandle[g].slots /\ r[g] = q[g]
      BY <2>5, <2>6
    <3> QED
      BY ONLY <1>2, <3>1, SlotSame
  <2>9. dhandle[h].slots = <<>> /\ \A b \in Actors : call[b].pc \in DeciderPCs => call[b].h # h
    BY <1>2, <2>1 DEF HandleCore, Exclusive
  <2>10. \E u \in [DeciderHandles -> Seq(Signals)] :
           HandleCore(dhandle', call', u) /\ SlotCore(dhandle', u, Linked, map)
    BY <2>6, <2>7, <2>8 DEF dm, cm
  <2>11. /\ call[a].pc \in {"idle", "creating"} /\ call'[a].pc \in {"creating", "destroying"}
         /\ \A b \in Actors : b # a => call'[b] = call[b]
         /\ \A g \in DeciderHandles : g # h => dhandle'[g] = dhandle[g]
         /\ dhandle'[h].slots = dhandle[h].slots
    BY <2>2, <2>3, <2>4, <2>5, <2>9 DEF dm, cm
  <2> QED
    BY <1>1, <2>9, <2>10, <2>11, HandleOnly
<1>4. ASSUME NEW h \in DeciderHandles,
             \/ dhandle[h].state = "open" /\ call[a].pc = "idle"
             \/ call[a].pc = "creating" /\ call[a].h = h,
             dhandle'[h].state = "busy", dhandle'[h].slots = dhandle[h].slots,
             dhandle'[h].guarded = dhandle[h].guarded,
             \A g \in DeciderHandles : g # h => dhandle'[g] = dhandle[g],
             \A b \in Actors : b # a => call'[b] = call[b],
             call'[a].pc = "destroying", call'[a].h = h, call'[a].todo = Signals
      PROVE  NodeInv'
  <2> DEFINE dm == dhandle'
             cm == call'
  <2>1. /\ dhandle[h].guarded \subseteq Signals /\ call[a].pc \in {"idle", "creating"}
        /\ \/ dhandle[h].state = "open" /\ call[a].pc \notin DeciderPCs
           \/ call[a].pc = "creating" /\ call[a].h = h
    BY <1>0, <1>4 DEF DeciderHandle, DeciderPCs
  <2>2. /\ dm[h].state = "busy" /\ dm[h].slots = dhandle[h].slots
        /\ dm[h].guarded = dhandle[h].guarded
        /\ \A g \in DeciderHandles : g # h => dm[g] = dhandle[g]
        /\ \A b \in Actors : b # a => cm[b] = call[b]
        /\ cm[a].pc = "destroying" /\ cm[a].h = h /\ cm[a].todo = Signals
    BY <1>4
  <2> HIDE DEF dm, cm
  <2>3. HandleCore(dm, cm, q)
    BY ONLY <1>2, <1>4, <2>1, <2>2, HandleTaken, a \in Actors
  <2>4. SlotCore(dm, q, Linked, map)
    <3>1. \A g \in DeciderHandles :
            \/ dm[g].slots = <<>>
            \/ dm[g].slots = dhandle[g].slots /\ q[g] = q[g]
      BY <2>2
    <3> QED
      BY ONLY <1>2, <3>1, SlotSame
  <2>5. \A b \in Actors : b # a /\ call[b].pc \in DeciderPCs => call[b].h # h
    BY <1>2, <1>4 DEF HandleCore, Exclusive, DeciderPCs
  <2>6. \E u \in [DeciderHandles -> Seq(Signals)] :
           HandleCore(dhandle', call', u) /\ SlotCore(dhandle', u, Linked, map)
    BY <2>3, <2>4 DEF dm, cm
  <2> QED
    BY <1>1, <1>4, <2>1, <2>5, <2>6, HandleOnly
<1>5. CASE CreateFails(a)
  <2> DEFINE k == [call[a] EXCEPT !.pc = "destroying", !.todo = Signals]
  <2>1. call[a].pc = "creating" /\ dhandle' = dhandle /\ Step(a, k)
    BY <1>5 DEF CreateFails, At, handles
  <2>2. k.pc = "destroying" /\ k.todo = Signals /\ k.h = call[a].h
    BY <1>0 DEF Call
  <2> HIDE DEF k
  <2>3. call[a].h \in DeciderHandles /\ dhandle[call[a].h].state = "busy"
    BY <1>2, <2>1 DEF HandleCore, Exclusive, DeciderPCs
  <2>4. call'[a] = k /\ \A b \in Actors : b # a => call'[b] = call[b]
    BY <1>0, <2>1 DEF Step
  <2> QED
    BY <1>4, <2>1, <2>2, <2>3, <2>4
<1>6. CASE SignalDeciderDestroy(a)
  <2>1. PICK h \in DeciderHandles :
          /\ dhandle[h].state = "open"
          /\ dhandle' = [dhandle EXCEPT ![h].state = "busy"]
          /\ Step(a, [Idle EXCEPT !.pc = "destroying", !.todo = Signals, !.h = h])
    BY <1>6 DEF SignalDeciderDestroy
  <2>2. call[a].pc = "idle"
    BY <1>6 DEF SignalDeciderDestroy, At
  <2> DEFINE k == [Idle EXCEPT !.pc = "destroying", !.todo = Signals, !.h = h]
             d == [dhandle[h] EXCEPT !.state = "busy"]
  <2>3. k.pc = "destroying" /\ k.todo = Signals /\ k.h = h
    BY DEF Idle
  <2>4. d.state = "busy" /\ d.slots = dhandle[h].slots /\ d.guarded = dhandle[h].guarded
    <3>1. dhandle[h] \in DeciderHandle
      BY <1>0
    <3> QED
      BY <3>1 DEF DeciderHandle
  <2>5. dhandle' = [dhandle EXCEPT ![h] = d] /\ Step(a, k)
    BY <2>1
  <2> HIDE DEF k, d
  <2>6. call'[a] = k /\ \A b \in Actors : b # a => call'[b] = call[b]
    BY <1>0, <2>5 DEF Step
  <2>7. dhandle'[h] = d /\ \A g \in DeciderHandles : g # h => dhandle'[g] = dhandle[g]
    BY <1>0, <2>5
  <2> QED
    BY <1>4, <2>1, <2>2, <2>3, <2>4, <2>6, <2>7
<1> QED
  BY <1>3, <1>5, <1>6

(* One iteration of the create loop, as the lemmas on handles see it.      *)
LEMMA CreateSlotStored ==
  ASSUME IType, NEW a \in Actors, call[a].pc = "creating",
         dhandle[call[a].h].state = "busy",
         NEW p \in Nodes \cup {NULL}, CreateSlot(a, p),
         NEW q \in [DeciderHandles -> Seq(Signals)],
         NEW r \in [DeciderHandles -> Seq(Signals)],
         r = [q EXCEPT ![call[a].h] = Append(q[call[a].h], Signo(a))]
  PROVE  /\ Stored(dhandle, dhandle', q, r, call[a].h, Signo(a), p)
         /\ Turned(dhandle', call, call', a, call[a].h, Signo(a))
         /\ call'[a].pc \in {"idle", "creating"}
<1> DEFINE h == call[a].h
           s == Signo(a)
           sl == Append(dhandle[h].slots, p)
           filled == [dhandle EXCEPT ![h].slots = sl]
<1>0. /\ TypeOK /\ call[a] \in Call /\ call \in [Actors -> Call]
      /\ call[a].pc \in DeciderPCs
  BY CallType DEF IType, TypeOK, DeciderPCs
<1>1. /\ h \in DeciderHandles
      /\ dhandle \in [DeciderHandles -> DeciderHandle]
  BY <1>0, SlotType
<1>2. /\ r[h] = Append(q[h], s) /\ \A g \in DeciderHandles : g # h => r[g] = q[g]
  BY <1>1
<1> HIDE DEF sl
<1>3. /\ filled \in [DeciderHandles -> DeciderHandle]
      /\ filled[h].slots = sl /\ filled[h].guarded = dhandle[h].guarded
      /\ filled[h].state = "busy"
      /\ \A g \in DeciderHandles : g # h => filled[g] = dhandle[g]
  <2>1. dhandle[h] \in DeciderHandle /\ sl \in Seq(Nodes \cup {NULL})
    BY <1>0, <1>1, SlotType DEF sl
  <2> DEFINE d == [dhandle[h] EXCEPT !.slots = sl]
  <2>2. /\ d.slots = sl /\ d.guarded = dhandle[h].guarded /\ d.state = "busy"
        /\ d \in DeciderHandle
    BY <2>1 DEF DeciderHandle
  <2>3. filled = [dhandle EXCEPT ![h] = d]
    OBVIOUS
  <2> HIDE DEF d, filled
  <2> QED
    BY <1>1, <2>2, <2>3
<1>4. IF Rest(a) = {}
      THEN /\ dhandle' = [filled EXCEPT ![h].state = "open", ![h].callfirst = FALSE]
           /\ Return(a)
      ELSE dhandle' = filled /\ Step(a, [call[a] EXCEPT !.todo = Rest(a)])
  BY DEF CreateSlot, sl
<1> HIDE DEF filled
<1>5. CASE Rest(a) = {}
  <2>1. /\ call'[a].pc = "idle" /\ \A b \in Actors : b # a => call'[b] = call[b]
    BY <1>0, <1>4, <1>5, IdleType DEF Return, Step
  <2> DEFINE d == [filled[h] EXCEPT !.state = "open"]
             e == [d EXCEPT !.callfirst = FALSE]
  <2>2. /\ e.slots = sl /\ e.guarded = dhandle[h].guarded /\ e.state = "open"
    <3>1. filled[h] \in DeciderHandle
      BY <1>1, <1>3
    <3>2. /\ d.slots = filled[h].slots /\ d.guarded = filled[h].guarded /\ d.state = "open"
          /\ e.slots = filled[h].slots /\ e.guarded = filled[h].guarded /\ e.state = "open"
      BY <3>1 DEF DeciderHandle
    <3> QED
      BY <1>3, <3>2
  <2>3. [filled EXCEPT ![h].state = "open", ![h].callfirst = FALSE] = [filled EXCEPT ![h] = e]
    BY <1>1, <1>3
  <2>4. dhandle'[h] = e /\ \A g \in DeciderHandles : g # h => dhandle'[g] = filled[g]
    <3> HIDE DEF e
    <3> QED
      BY <1>1, <1>3, <1>4, <1>5, <2>3
  <2> HIDE DEF e
  <2>5. Stored(dhandle, dhandle', q, r, h, s, p)
    BY <1>2, <1>3, <2>2, <2>4 DEF Stored, sl
  <2>6. Turned(dhandle', call, call', a, h, s)
    BY <2>1, <2>2, <2>4 DEF Turned, DeciderPCs
  <2> QED
    BY <2>1, <2>5, <2>6
<1>6. CASE Rest(a) # {}
  <2> DEFINE k == [call[a] EXCEPT !.todo = Rest(a)]
  <2>1. k.pc = "creating" /\ k.h = h /\ k.todo = Rest(a)
    BY <1>0 DEF Call
  <2>2. Step(a, k) /\ dhandle' = filled
    BY <1>4, <1>6
  <2> HIDE DEF k
  <2>3. call'[a] = k /\ \A b \in Actors : b # a => call'[b] = call[b]
    BY <1>0, <2>2 DEF Step
  <2>4. Stored(dhandle, dhandle', q, r, h, s, p)
    BY <1>2, <1>3, <2>2 DEF Stored, sl
  <2>5. Turned(dhandle', call, call', a, h, s)
    BY <1>3, <2>1, <2>2, <2>3 DEF Turned, Rest
  <2> QED
    BY <2>1, <2>3, <2>4, <2>5
<1> QED
  BY <1>5, <1>6

(* The handles after an iteration, and the nodes they own.                 *)
LEMMA FillFrame ==
  ASSUME NodeInv, IType', NEW a \in Actors, call[a].pc = "creating",
         NEW p \in Nodes \cup {NULL}, p \notin OwnedBy(dhandle), CreateSlot(a, p),
         map' = map, Joined(Linked, Linked', map, Signo(a), p),
         \A b \in Actors : call[b].pc \in OrphanPCs => \A c \in Containers :
           call[b].current \in Linked'[c] => call[b].current \in Linked[c]
  PROVE  /\ Handles' /\ OrphanCore(dhandle', call', Linked')
         /\ \A n \in Nodes : n \in OwnedBy(dhandle') <=> n \in OwnedBy(dhandle) \/ n = p
         /\ \A b \in Actors : b # a => call'[b] = call[b]
         /\ call'[a].pc \in {"idle", "creating"}
<1> DEFINE h == call[a].h
           s == Signo(a)
           dm == dhandle'
           cm == call'
           K == Linked'
<1>0. /\ IType /\ TypeOK /\ call[a].pc \in DeciderPCs /\ call[a] \in Call
      /\ call[a].pc \in InstallPCs \cup DeciderPCs
      /\ dhandle \in [DeciderHandles -> DeciderHandle]
      /\ dm \in [DeciderHandles -> DeciderHandle]
  BY CallType DEF NodeInv, Lifetime, IType, TypeOK, DeciderPCs
<1>1. /\ h \in DeciderHandles /\ s \in Signals /\ s \in call[a].todo
      /\ call[a].todo \in SUBSET Signals
  BY <1>0, SignoType, SlotType DEF Call
<1>2. PICK q \in [DeciderHandles -> Seq(Signals)] :
        HandleCore(dhandle, call, q) /\ SlotCore(dhandle, q, Linked, map)
  BY DEF NodeInv, Handles
<1>3. dhandle[h].state = "busy" /\ q[h] \in Seq(Signals) /\ Len(q[h]) = Len(dhandle[h].slots)
  BY <1>0, <1>1, <1>2 DEF HandleCore, Exclusive, Aligned
<1> DEFINE r == [q EXCEPT ![h] = Append(q[h], s)]
<1>4. r \in [DeciderHandles -> Seq(Signals)]
  <2>1. Append(q[h], s) \in Seq(Signals)
    BY <1>1, <1>3
  <2> QED
    BY <1>1, <2>1
<1>5. /\ Stored(dhandle, dm, q, r, h, s, p) /\ Turned(dm, call, cm, a, h, s)
      /\ cm[a].pc \in {"idle", "creating"}
  BY <1>0, <1>3, <1>4, CreateSlotStored
<1>6. \A t \in call[a].todo : s <= t
  BY <1>1, LeastSignal DEF Signo
<1>7. Joined(Linked, K, map, s, p)
  OBVIOUS
<1> HIDE DEF r, dm, cm, h, s, K
<1>8. HandleCore(dm, cm, r)
  BY ONLY <1>0, <1>1, <1>2, <1>5, <1>6, HandleFill, a \in Actors, p \in Nodes \cup {NULL}
<1>9. /\ SlotCore(dm, r, K, map)
      /\ \A n \in Nodes : n \in OwnedBy(dm) <=> n \in OwnedBy(dhandle) \/ n = p
  <2>1. SlotCore(dhandle, q, Linked, map)
    BY <1>2
  <2>2. Stored(dhandle, dm, q, r, h, s, p)
    BY <1>5
  <2>3. /\ dhandle \in [DeciderHandles -> DeciderHandle]
        /\ dm \in [DeciderHandles -> DeciderHandle]
    BY <1>0
  <2>4. Gained(dhandle, dm, r, K, map, p)
    BY ONLY <1>1, <1>3, <1>7, <2>1, <2>2, <2>3, SlotFill, p \in Nodes \cup {NULL},
            p \notin OwnedBy(dhandle)
  <2> QED
    BY <2>4 DEF Gained
<1>10. Handles'
  BY <1>4, <1>8, <1>9 DEF Handles, dm, cm, K
<1>11. \A b \in Actors : b # a => cm[b] = call[b]
  BY <1>5 DEF Turned
<1>12. OrphanCore(dhandle', call', Linked')
  <2>1. OrphanCore(dhandle, call, Linked) /\ cm[a].pc \notin OrphanPCs
    BY <1>5 DEF NodeInv, OrphanPCs
  <2>2. \A b \in Actors : b # a /\ call[b].pc \in OrphanPCs => dm[call[b].h] = dhandle[call[b].h]
    <3>1. \A b \in Actors : call[b].pc \in OrphanPCs => call[b].pc \in DeciderPCs
      BY DEF OrphanPCs, DeciderPCs
    <3>2. \A g \in DeciderHandles : g # h => dm[g] = dhandle[g]
      BY <1>5 DEF Stored
    <3> QED
      BY <1>0, <3>1, <3>2, OtherHandle DEF h
  <2> QED
    BY <1>11, <2>1, <2>2 DEF OrphanCore, dm, cm
<1> QED
  BY <1>5, <1>9, <1>10, <1>11, <1>12 DEF dm, cm

(* One iteration of the create loop.                                       *)
LEMMA NodesCreate ==
  ASSUME NodeInv, Lifetime', NEW a \in Actors, CreateUninstalled(a) \/ CreateNode(a)
  PROVE  NodeInv'
<1> DEFINE O == OwnedBy(dhandle)
           O2 == OwnedBy(dhandle')
           s == Signo(a)
           nd2 == node'
           L2 == Linked'
           cl2 == call'
<1>0. /\ IType /\ TypeOK /\ node \in [Nodes -> Decider] /\ IType'
      /\ info \in [Containers -> SighandlerInfo] /\ nd2 \in [Nodes -> Decider]
      /\ map \in [Signals -> Containers \cup {NULL}]
      /\ NodeCore(LiveSet, Linked, Deferred, node, O, call)
  BY DEF NodeInv, Lifetime, IType, TypeOK, Core, SignoToSighandlerMap
<1>1. call[a].pc = "creating" /\ call[a].pc \in InstallPCs \cup DeciderPCs /\ map' = map
  BY DEF CreateUninstalled, CreateNode, At, DeciderPCs, registry, installed
<1>2. s \in Signals
  BY <1>0, <1>1, SignoType
<1>3. AbandonCore(call, Linked, O, map) /\ O \subseteq Nodes
  BY DEF NodeInv, OwnedBy
<1>4. \A c \in Containers : c \notin LiveSet => Linked[c] = {} /\ Deferred[c] = {}
  BY <1>0 DEF NodeCore, Placed
<1>n. \A t \in Signals : \A m : map[t] # NULL /\ m \in Linked[map[t]] => m # NULL
  <2>1. \A c \in Containers : Linked[c] \subseteq Nodes
    BY <1>0 DEF NodeCore, Placed
  <2> QED
    BY <1>0, <2>1, NullAssumption
<1>5. CASE CreateUninstalled(a)
  <2>1. CreateSlot(a, NULL) /\ info' = info /\ node' = node /\ map[s] = NULL
    BY <1>5 DEF CreateUninstalled, registry
  <2>2. LiveSet' = LiveSet /\ Linked' = Linked /\ Deferred' = Deferred
    BY <2>1 DEF LiveSet, Linked, Deferred
  <2>3. NULL \notin O
    BY NullAssumption DEF OwnedBy
  <2>4. Joined(Linked, Linked', map, s, NULL)
    BY <1>n, <2>2 DEF Joined
  <2>5. /\ Handles' /\ OrphanCore(dhandle', call', Linked')
        /\ \A n \in Nodes : n \in O2 <=> n \in O \/ n = NULL
        /\ \A b \in Actors : b # a => call'[b] = call[b]
        /\ call'[a].pc \in {"idle", "creating"}
    BY <1>0, <1>1, <2>1, <2>2, <2>3, <2>4, FillFrame
  <2>6. \A n \in Nodes : n \in O2 <=> n \in O
    BY <2>5, NullAssumption
  <2> HIDE DEF O, O2
  <2>7. Core'
    <3>1. \A m : PinsOf(call', m) = PinsOf(call, m)
      BY <1>1, <2>5 DEF PinsOf
    <3>2. Pinned(Linked, call')
      BY <1>0, <1>1, <2>5 DEF NodeCore, Pinned
    <3>3. Referenced(Deferred, node, O2, call')
      BY <1>0, <2>6, <3>1 DEF NodeCore, Referenced
    <3>4. NodeCore(LiveSet, Linked, Deferred, node, O2, call')
      BY <1>0, <3>2, <3>3 DEF NodeCore
    <3> QED
      BY <2>1, <2>2, <3>4 DEF Core, O2
  <2>8. AbandonCore(call', Linked', O2, map')
    <3>1. call'[a].pc \notin AbandonPCs
      BY <2>5 DEF AbandonPCs
    <3>2. \A b \in Actors : call[b].pc \in AbandonPCs => call[b].current \in O2
      BY <1>3, <2>6 DEF AbandonCore
    <3> QED
      BY <1>1, <1>3, <2>2, <2>5, <3>1, <3>2 DEF AbandonCore
  <2>9. DistinctLists' /\ Counted'
    BY <2>1 DEF NodeInv, DistinctLists, Counted
  <2> QED
    BY <2>5, <2>7, <2>8, <2>9 DEF NodeInv, O2
<1>6. CASE CreateNode(a)
  <2> DEFINE c == map[s]
             first == dhandle[call[a].h].callfirst
  <2>1. PICK n \in Nodes :
          /\ node[n].state = "unused"
          /\ node' = [node EXCEPT ![n] = [state |-> "live", refcount |-> 1]]
          /\ info' = [info EXCEPT ![c].global_handler =
                        LIST_INSERT(info[c].global_handler, n, first)]
          /\ CreateSlot(a, n)
    <3>1. \E n \in Nodes :
          /\ node[n].state = "unused"
          /\ node' = [node EXCEPT ![n] = [state |-> "live", refcount |-> 1]]
          /\ info' = [info EXCEPT ![c].global_handler =
                        LIST_INSERT(@, n, first)]
          /\ CreateSlot(a, n)
      BY <1>6 DEF CreateNode
    <3> QED
      BY <3>1
  <2>2. c \in Containers
    BY <1>0, <1>2, <1>6 DEF CreateNode
  <2> DEFINE old == info[c].global_handler
             list == LIST_INSERT(old, n, first)
  <2>3. /\ info'[c].global_handler = list /\ SameCounts(info')
        /\ \A d \in Containers : d # c => info'[d] = info[d]
        /\ info'[c].deferred_frees = info[c].deferred_frees
    <3> DEFINE k == [info[c] EXCEPT !.global_handler = list]
    <3>1. info[c] \in SighandlerInfo
      BY <1>0, <2>2
    <3> HIDE DEF list
    <3>2. /\ k.global_handler = list /\ k.deferred_frees = info[c].deferred_frees
          /\ k.state = info[c].state /\ k.lifetime_refcount = info[c].lifetime_refcount
      BY <3>1 DEF SighandlerInfo
    <3>3. info' = [info EXCEPT ![c] = k]
      BY <2>1 DEF list
    <3> HIDE DEF k
    <3>4. info'[c] = k /\ \A d \in Containers : d # c => info'[d] = info[d]
      BY <1>0, <2>2, <3>3
    <3> QED
      BY <3>2, <3>4 DEF SameCounts
  <2>4. /\ old \in Seq(Nodes) /\ Distinct(old)
    BY <1>0, <2>2, InfoType DEF NodeInv, DistinctLists
  <2>5. \A d \in Containers : n \notin Linked[d] /\ n \notin Deferred[d]
    BY <1>0, <2>1 DEF NodeCore, Placed
  <2>6. n \notin O /\ n # NULL
    BY <1>0, <2>1, NullAssumption DEF NodeCore, Referenced
  <2>7. n \notin ToSet(old)
    BY <2>2, <2>5 DEF Linked
  <2>8. ToSet(list) = ToSet(old) \cup {n} /\ Distinct(list)
    <3> HIDE DEF old
    <3> QED
      BY <2>1, <2>4, <2>7, InsertBack, InsertFront DEF LIST_INSERT
  <2> HIDE DEF list, old, first
  <2>9. /\ L2[c] = Linked[c] \cup {n} /\ \A d \in Containers : d # c => L2[d] = Linked[d]
        /\ LiveSet' = LiveSet /\ Deferred' = Deferred
    <3>1. Deferred' = Deferred
      BY <2>3 DEF Deferred
    <3>2. LiveSet' = LiveSet
      BY <2>3 DEF LiveSet, SameCounts
    <3> QED
      BY <2>2, <2>3, <2>8, <3>1, <3>2 DEF Linked, old
  <2>10. DistinctLists' /\ Counted'
    <3>1. Counted'
      BY <2>3 DEF NodeInv, Counted, SameCounts
    <3>2. \A d \in Containers : Distinct(info[d].global_handler)
      BY DEF NodeInv, DistinctLists
    <3> QED
      BY <2>3, <2>8, <3>1, <3>2 DEF DistinctLists
  <2>11. Joined(Linked, Linked', map, s, n)
    <3>1. \A t \in Signals : map[t] # NULL /\ map[t] = c => t = s
      BY <1>2 DEF NodeInv, Lifetime, MapInjective
    <3>2. \A t \in Signals : map[t] # NULL => map[t] \in Containers
      BY <1>0
    <3> HIDE DEF c
    <3> QED
      BY <1>n, <2>2, <2>5, <2>6, <2>9, <3>1, <3>2 DEF Joined
  <2>12. \A b \in Actors : call[b].pc \in OrphanPCs => \A d \in Containers :
           call[b].current \in Linked'[d] => call[b].current \in Linked[d]
    <3>1. \A b \in Actors : call[b].pc \in OrphanPCs => call[b].current # n
      <4> SUFFICES ASSUME NEW b \in Actors, call[b].pc \in OrphanPCs PROVE call[b].current # n
        OBVIOUS
      <4>1. /\ Pops(dhandle[call[b].h], Min(call[b].todo))
            /\ call[b].current = Head(dhandle[call[b].h].slots)
        BY DEF NodeInv, OrphanCore
      <4>2. call[b].pc \in DestroyPCs /\ call[b].current \in Nodes
        BY <1>0 DEF DestroyPCs, OrphanPCs, IType, CallShape, ShapeOf
      <4>3. call[b].current \in O
        BY <1>0, <4>1, <4>2, SlotHead DEF Signo
      <4> QED
        BY <2>6, <4>3
    <3> HIDE DEF c
    <3> QED
      BY <2>2, <2>9, <3>1
  <2>13. /\ Handles' /\ OrphanCore(dhandle', call', Linked')
         /\ \A m \in Nodes : m \in O2 <=> m \in O \/ m = n
         /\ \A b \in Actors : b # a => call'[b] = call[b]
         /\ call'[a].pc \in {"idle", "creating"}
    BY <1>0, <1>1, <2>1, <2>6, <2>11, <2>12, FillFrame
  <2> HIDE DEF O, O2, L2, nd2, c
  <2>14. Core'
    <3>1. /\ nd2[n].refcount = 1 /\ nd2[n].state = "live"
          /\ \A m \in Nodes : m # n => nd2[m] = node[m]
      BY <1>0, <2>1 DEF nd2
    <3>2. c \in LiveSet
      <4>1. info[map[s]].state = "live"
        BY <1>2, <2>2, NullAssumption DEF NodeInv, Lifetime, LiveWhileHeld, c
      <4> QED
        BY <2>2, <4>1 DEF LiveSet, c
    <3>3. NodeCore(LiveSet, L2, Deferred, nd2, O2, call)
      BY ONLY <1>0, <2>1, <2>2, <2>9, <2>13, <3>1, <3>2, CoreNew
    <3>4. \A m : PinsOf(call', m) = PinsOf(call, m)
      BY <1>1, <2>13 DEF PinsOf
    <3>5. Pinned(L2, call')
      BY <1>1, <2>13, <3>3 DEF NodeCore, Pinned
    <3>6. Referenced(Deferred, nd2, O2, call')
      BY <3>3, <3>4 DEF NodeCore, Referenced
    <3>7. NodeCore(LiveSet, L2, Deferred, nd2, O2, call')
      BY <3>3, <3>5, <3>6 DEF NodeCore
    <3> QED
      BY <2>9, <3>7 DEF Core, O2, L2, nd2
  <2>15. AbandonCore(call', Linked', O2, map')
    <3>1. call'[a].pc \notin AbandonPCs
      BY <2>13 DEF AbandonPCs
    <3>2. \A b \in Actors : call[b].pc \in AbandonPCs =>
            /\ call[b].current \in O2 /\ call[b].item \in Containers
            /\ call[b].current \in L2[call[b].item]
      BY <1>3, <2>9, <2>13 DEF AbandonCore
    <3> QED
      BY <1>1, <1>3, <2>13, <3>1, <3>2 DEF AbandonCore, L2
  <2> QED
    BY <2>10, <2>13, <2>14, <2>15 DEF NodeInv, O2
<1> QED
  BY <1>5, <1>6

-----------------------------------------------------------------------------
(* The invariant holds.                                                    *)

(* The initial state.                                                      *)
LEMMA NodesInit == Init => NodeInv
<1> SUFFICES ASSUME Init PROVE NodeInv
  OBVIOUS
<1>1. Lifetime
  BY LifetimeInit
<1>2. /\ \A c \in Containers : /\ info[c].state = "unused"
                               /\ info[c].global_handler = <<>>
                               /\ info[c].deferred_frees = <<>>
      /\ \A n \in Nodes : node[n].state = "unused" /\ node[n].refcount = 0
      /\ \A h \in DeciderHandles : /\ dhandle[h].state = "unused"
                                   /\ dhandle[h].slots = <<>>
                                   /\ dhandle[h].guarded = {}
      /\ \A a \in Actors : call[a].pc = "idle"
      /\ \A s \in Signals : map[s] = NULL
  BY IdleType DEF Init, NoDeciderHandle
<1>3. node \in [Nodes -> Decider] /\ dhandle \in [DeciderHandles -> DeciderHandle]
  BY <1>1 DEF Lifetime, IType, TypeOK
<1>4. ToSet(<<>>) = {}
  BY DEF ToSet
<1>5. /\ \A c \in Containers : Linked[c] = {} /\ Deferred[c] = {}
      /\ LiveSet = {} /\ OwnedBy(dhandle) = {}
  BY <1>2, <1>4 DEF Linked, Deferred, LiveSet, OwnedBy
<1>6. Core
  <2>1. Placed(LiveSet, Linked, Deferred, node)
    BY <1>5 DEF Placed
  <2>2. Pinned(Linked, call)
    BY <1>2 DEF Pinned
  <2>3. Referenced(Deferred, node, OwnedBy(dhandle), call)
    BY <1>2, <1>5 DEF Referenced
  <2> QED
    BY <1>3, <2>1, <2>2, <2>3 DEF Core, NodeCore
<1>7. Handles
  <2> DEFINE q == [h \in DeciderHandles |-> <<>>]
  <2>1. q \in [DeciderHandles -> Seq(Signals)] /\ \A h \in DeciderHandles : q[h] = <<>>
    OBVIOUS
  <2> HIDE DEF q
  <2>2. HandleCore(dhandle, call, q)
    <3>1. Exclusive(dhandle, call) /\ Filling(dhandle, call, q)
      BY <1>2 DEF Exclusive, Filling, DeciderPCs
    <3>2. \A h \in DeciderHandles : Aligned(dhandle[h].slots, PendingOf(dhandle, call, h), q[h])
      BY <1>2, <2>1, AlignedEmpty
    <3> QED
      BY <1>2, <3>1, <3>2 DEF HandleCore
  <2>3. SlotCore(dhandle, q, Linked, map)
    <3>1. \A h \in DeciderHandles : Len(dhandle[h].slots) = 0
      BY <1>2
    <3> QED
      BY <1>2, <3>1 DEF SlotCore
  <2> QED
    BY <2>1, <2>2, <2>3 DEF Handles
<1>8. OrphanCore(dhandle, call, Linked) /\ AbandonCore(call, Linked, OwnedBy(dhandle), map)
  BY <1>2 DEF OrphanCore, AbandonCore, OrphanPCs, AbandonPCs
<1>9. DistinctLists /\ Counted
  <2>1. Distinct(<<>>)
    BY DEF Distinct
  <2> QED
    BY <1>2, <2>1 DEF DistinctLists, Counted
<1> QED
  BY <1>1, <1>6, <1>7, <1>8, <1>9 DEF NodeInv

(* Every step of a careful client.                                         *)
LEMMA NodesNext ==
  ASSUME Careful
  PROVE  NodeInv /\ [Next]_vars => NodeInv'
<1> SUFFICES ASSUME NodeInv, [Next]_vars PROVE NodeInv'
  OBVIOUS
<1>1. Lifetime'
  BY LifetimeNext DEF NodeInv
<1>2. CASE UNCHANGED vars
  <2>1. /\ map' = map /\ info' = info /\ node' = node /\ dhandle' = dhandle /\ call' = call
    BY <1>2 DEF vars
  <2>2. LiveSet' = LiveSet /\ Linked' = Linked /\ Deferred' = Deferred
    BY <2>1 DEF LiveSet, Linked, Deferred
  <2>3. Core' /\ Handles' /\ DistinctLists' /\ Counted'
    BY <2>1, <2>2 DEF NodeInv, Core, Handles, DistinctLists, Counted
  <2>4. /\ OrphanCore(dhandle', call', Linked')
        /\ AbandonCore(call', Linked', OwnedBy(dhandle'), map')
    BY <2>1, <2>2 DEF NodeInv
  <2> QED
    BY <1>1, <2>3, <2>4 DEF NodeInv
<1>3. ASSUME NEW a \in Actors, Install(a) PROVE NodeInv'
  BY <1>1, <1>3, NodesInstall, NodesUninstall DEF Install
<1>4. ASSUME NEW a \in Actors, Deciders(a) PROVE NodeInv'
  BY <1>1, <1>4, NodesTaken, NodesCreate, NodesDestroy, NodesOrphaned, NodesOrphanFreed
  DEF Deciders
<1>5. ASSUME NEW a \in Actors, Raise(a) PROVE NodeInv'
  BY <1>1, <1>5, NodesOutside, NodesEnter, NodesWalk, NodesLeave, NodesAbandon DEF Raise
<1> QED
  BY <1>1, <1>2, <1>3, <1>4, <1>5, NodesInvoke DEF Next

(* The invariant of the deciders.                                          *)
LEMMA NodeInvariant ==
  ASSUME Careful
  PROVE  Spec => []NodeInv
<1>1. NodeInv /\ [Next]_vars => NodeInv'
  BY NodesNext
<1> QED
  BY <1>1, NodesInit, PTL DEF Spec

(* The refcount of a live node is one for the handle that owns it and one  *)
(* for each raise inside its decider, though DestroyLocked() and the       *)
(* unlocked decrement of an orphaned node race the raises.                 *)
THEOREM NodeCounts ==
  ASSUME Careful
  PROVE  Spec => []NodeRefAccounting
<1>1. NodeInv => NodeRefAccounting
  <2> SUFFICES ASSUME NodeInv PROVE NodeRefAccounting
    OBVIOUS
  <2>1. Referenced(Deferred, node, OwnedBy(dhandle), call)
    BY DEF NodeInv, Core, NodeCore
  <2>2. \A n \in Nodes : Pins(n) = PinsOf(call, n) /\ (Owned(n) <=> n \in OwnedBy(dhandle))
    BY DEF Pins, PinsOf, Owned, OwnedBy
  <2> QED
    BY <2>1, <2>2 DEF NodeRefAccounting, Referenced
<1> QED
  BY <1>1, NodeInvariant, PTL

(* No step of stdc_raise(), of the destroy loop or of a locked section     *)
(* touches a container or a decider node after its free().                 *)
THEOREM NodesNotFreed ==
  ASSUME Careful
  PROVE  Spec => []NoUseAfterFree
<1>1. NodeInv => NoUseAfterFree
  <2> SUFFICES ASSUME NodeInv PROVE ~UseAfterFree
    BY DEF NoUseAfterFree
  <2>0. /\ IType /\ TypeOK /\ dhandle \in [DeciderHandles -> DeciderHandle]
        /\ info \in [Containers -> SighandlerInfo] /\ LiveWhileHeld
        /\ map \in [Signals -> Containers \cup {NULL}]
    BY DEF NodeInv, Lifetime, IType, TypeOK
  <2>1. /\ Placed(LiveSet, Linked, Deferred, node) /\ Pinned(Linked, call)
        /\ Referenced(Deferred, node, OwnedBy(dhandle), call)
    BY DEF NodeInv, Core, NodeCore
  <2>2. \A c \in Containers : \A n \in Linked[c] \cup Deferred[c] : ~Freed(n)
    BY <2>1 DEF Placed, Freed
  <2>3. \A n \in OwnedBy(dhandle) : ~Freed(n)
    BY <2>1 DEF Referenced, Freed, OwnedBy
  <2>4. ASSUME NEW a \in Actors, call[a].pc \in {"decider", "resuming"}
        PROVE  /\ call[a].item \in Containers /\ call[a].current \in Linked[call[a].item]
               /\ info[call[a].item].state # "freed" /\ ~Freed(call[a].current)
    <3>1. CASE call[a].pc = "decider"
      BY <2>0, <2>1, <2>2, <3>1 DEF Pinned, LiveWhileHeld
    <3>2. CASE call[a].pc = "resuming"
      <4>1. /\ call[a].item \in Containers /\ call[a].current \in Linked[call[a].item]
            /\ \E s \in Signals : map[s] = call[a].item
        BY <3>2 DEF NodeInv, AbandonCore, AbandonPCs
      <4>2. info[call[a].item].state = "live"
        BY <2>0, <4>1, NullAssumption DEF LiveWhileHeld
      <4> QED
        BY <2>2, <4>1, <4>2
    <3> QED
      BY <2>4, <3>1, <3>2
  <2>5. ASSUME NEW a \in Actors, call[a].pc = "decider" PROVE ~Freed(NextDecider(a))
    <3> DEFINE list == info[call[a].item].global_handler
    <3>1. /\ call[a].item \in Containers /\ call[a].current \in Linked[call[a].item]
      BY <2>4, <2>5
    <3>2. list \in Seq(Nodes) /\ Distinct(list) /\ call[a].current \in ToSet(list)
      BY <2>0, <3>1, InfoType DEF NodeInv, DistinctLists, Linked
    <3>3. NextDecider(a) = NULL \/ NextDecider(a) \in ToSet(list)
      <4> HIDE DEF list
      <4>1. NextIn(list, call[a].current) = NULL \/ NextIn(list, call[a].current) \in ToSet(list)
        BY <3>2, NextNode, NullAssumption
      <4> QED
        BY <4>1 DEF NextDecider, list
    <3>4. NextDecider(a) = NULL \/ NextDecider(a) \in Linked[call[a].item]
      BY <3>1, <3>3 DEF Linked
    <3> QED
      BY <2>2, <3>1, <3>4 DEF Freed
  <2>6. ASSUME NEW a \in Actors, call[a].pc = "destroying" PROVE ~Freed(Slot(a))
    <3>1. call[a].pc \in DestroyPCs /\ Slot(a) \in Nodes \cup {NULL}
      BY <2>0, <2>6, SlotType DEF DestroyPCs, DeciderPCs
    <3>2. CASE Slot(a) \in Nodes
      <4>1. Slot(a) \in OwnedBy(dhandle)
        BY <2>0, <3>1, <3>2, SlotHead
      <4> QED
        BY <2>3, <4>1
    <3>3. CASE Slot(a) = NULL
      BY <3>3 DEF Freed
    <3> QED
      BY <3>1, <3>2, <3>3
  <2>7. ASSUME NEW a \in Actors, call[a].pc \in OrphanPCs PROVE ~Freed(call[a].current)
    <3>1. /\ Pops(dhandle[call[a].h], Min(call[a].todo))
          /\ call[a].current = Head(dhandle[call[a].h].slots)
      BY <2>7 DEF NodeInv, OrphanCore
    <3>2. call[a].pc \in DestroyPCs /\ call[a].current \in Nodes
      BY <2>0, <2>7 DEF DestroyPCs, OrphanPCs, IType, CallShape, ShapeOf
    <3>3. call[a].current \in OwnedBy(dhandle)
      BY <2>0, <3>1, <3>2, SlotHead DEF Signo
    <3> QED
      BY <2>3, <3>3
  <2>8. ASSUME NEW s \in Signals, map[s] # NULL
        PROVE  /\ info[map[s]].state # "freed"
               /\ \A n \in ToSet(info[map[s]].global_handler)
                             \cup ToSet(info[map[s]].deferred_frees) : ~Freed(n)
    <3>1. map[s] \in Containers
      BY <2>0, <2>8
    <3>2. info[map[s]].state # "freed"
      BY <2>0, <2>8 DEF LiveWhileHeld
    <3> QED
      BY <2>2, <3>1, <3>2 DEF Linked, Deferred
  <2> QED
    BY <2>4, <2>5, <2>6, <2>7, <2>8 DEF UseAfterFree, OrphanPCs
<1> QED
  BY <1>1, NodeInvariant, PTL

(* No container and no decider node is leaked: what is live is still       *)
(* reachable by the map, a handle or a raise, or waits in deferred_frees.  *)
THEOREM NodesNotLeaked ==
  ASSUME Careful
  PROVE  Spec => []NoLeak
<1>1. NodeInv => NoLeak
  <2> SUFFICES ASSUME NodeInv PROVE NoLeak
    OBVIOUS
  <2>1. ASSUME NEW c \in Containers, info[c].state = "live" PROVE InMap(c) \/ Holders(c) # {}
    <3>1. /\ info[c].lifetime_refcount = Cardinality(Holders(c)) + (IF InMap(c) THEN 1 ELSE 0)
          /\ info[c].lifetime_refcount > 0
      BY <2>1 DEF NodeInv, Lifetime, LifetimeAccounting, Counted
    <3>2. Cardinality({}) = 0
      BY FS_EmptySet
    <3> QED
      BY <3>1, <3>2
  <2>2. ASSUME NEW n \in Nodes, node[n].state = "live"
        PROVE  \/ Owned(n) \/ Pins(n) # {}
               \/ \E c \in Containers : /\ info[c].state = "live"
                                        /\ n \in ToSet(info[c].deferred_frees)
    <3>1. /\ Placed(LiveSet, Linked, Deferred, node)
          /\ Referenced(Deferred, node, OwnedBy(dhandle), call)
      BY DEF NodeInv, Core, NodeCore
    <3>2. Pins(n) = PinsOf(call, n) /\ (Owned(n) <=> n \in OwnedBy(dhandle))
      BY DEF Pins, PinsOf, Owned, OwnedBy
    <3>3. CASE \E c \in Containers : n \in Deferred[c]
      <4>1. PICK c \in Containers : n \in Deferred[c]
        BY <3>3
      <4>2. c \in LiveSet
        BY <3>1, <4>1 DEF Placed
      <4> QED
        BY <4>1, <4>2 DEF LiveSet, Deferred
    <3>4. CASE node[n].refcount > 0
      <4>1. node[n].refcount = Cardinality(Pins(n)) + (IF Owned(n) THEN 1 ELSE 0)
        BY <2>2, <3>1, <3>2 DEF Referenced
      <4>2. Cardinality({}) = 0
        BY FS_EmptySet
      <4> QED
        BY <3>4, <4>1, <4>2
    <3> QED
      BY <2>2, <3>1, <3>3, <3>4 DEF Referenced
  <2> QED
    BY <2>1, <2>2 DEF NoLeak
<1> QED
  BY <1>1, NodeInvariant, PTL

-----------------------------------------------------------------------------
(* The order in which a raise calls the deciders.                          *)

(* The order of a list without repetitions is transitive.                  *)
LEMMA BeforeChain ==
  ASSUME NEW S, NEW list \in Seq(S), Distinct(list), NEW x, NEW y, NEW z,
         Before(list, x, y), Before(list, y, z)
  PROVE  Before(list, x, z)
<1>1. Len(list) \in Nat
  OBVIOUS
<1>2. PICK i, j \in 1 .. Len(list) : i < j /\ list[i] = x /\ list[j] = y
  BY DEF Before
<1>3. PICK k, l \in 1 .. Len(list) : k < l /\ list[k] = y /\ list[l] = z
  BY DEF Before
<1>4. k = j
  BY <1>2, <1>3 DEF Distinct
<1>5. i < l
  BY <1>1, <1>2, <1>3, <1>4
<1> QED
  BY <1>2, <1>3, <1>5 DEF Before

(* A walk of the list is at its current node: what it has called and is    *)
(* still linked lies before, and what it must still call and is owned by a *)
(* handle lies after.                                                      *)
WalkOf(k, list, O) ==
  /\ k.current \in k.seen
  /\ \A x \in k.seen : x \in ToSet(list) =>
       x = k.current \/ Before(list, x, k.current)
  /\ \A x \in k.must \ k.seen : x \in O => Before(list, k.current, x)

OrderOf(k, inf, nd, O) ==
  /\ \A x \in k.must \cup k.seen : nd[x].state # "unused"
  /\ k.pc = "raising" => k.must = {}
  /\ k.pc = "handoff" => \A x \in k.must \ k.seen : x \notin O
  /\ k.pc \in InsidePCs => WalkOf(k, inf[k.item].global_handler, O)

(* The inductive invariant.                                                *)
OrderInv == /\ NodeInv
            /\ \A a \in Actors : OrderOf(call[a], info, node, OwnedBy(dhandle))

(* A list changes by linking nodes never used before and by unlinking      *)
(* nodes that no handle owns.                                              *)
ListEvolves(list, next, nd, O) ==
  /\ \A x \in ToSet(next) : x \in ToSet(list) \/ nd[x].state = "unused"
  /\ \A x \in ToSet(list) : x \in O => x \in ToSet(next)
  /\ \A x, y \in ToSet(next) : Before(list, x, y) => Before(next, x, y)

Evolves(inf, inf2, nd, nd2, O, O2) ==
  /\ \A n \in Nodes : nd[n].state # "unused" => nd2[n].state # "unused"
  /\ \A n \in O2 : n \in O \/ nd[n].state = "unused"
  /\ \A c \in Containers : inf2[c].state = "live" =>
       ListEvolves(inf[c].global_handler, inf2[c].global_handler, nd, O2)

(* The lists of both states are sequences without repetitions.             *)
Lists(inf) == \A c \in Containers : /\ inf[c].global_handler \in Seq(Nodes)
                                    /\ Distinct(inf[c].global_handler)

(* A raise inside a decider is at a node linked in a live container.       *)
Within(k, inf) == k.pc \in InsidePCs =>
  /\ k.item \in Containers /\ inf[k.item].state = "live"
  /\ k.current \in ToSet(inf[k.item].global_handler)

(* A walk that a step of another actor leaves alone keeps its place.       *)
LEMMA OrderKept ==
  ASSUME NEW k, NEW inf, NEW inf2, NEW nd, NEW nd2, NEW O, NEW O2,
         k.must \subseteq Nodes, k.seen \subseteq Nodes,
         OrderOf(k, inf, nd, O), Evolves(inf, inf2, nd, nd2, O, O2),
         Lists(inf), Within(k, inf2)
  PROVE  OrderOf(k, inf2, nd2, O2)
<1>1. \A x \in k.must \cup k.seen : nd[x].state # "unused" /\ nd2[x].state # "unused"
  BY DEF OrderOf, Evolves
<1>2. \A x \in k.must \cup k.seen : x \in O2 => x \in O
  BY <1>1 DEF Evolves
<1>3. k.pc = "handoff" => \A x \in k.must \ k.seen : x \notin O2
  BY <1>2 DEF OrderOf
<1>4. ASSUME k.pc \in InsidePCs
      PROVE  WalkOf(k, inf2[k.item].global_handler, O2)
  <2> DEFINE c == k.item
             list == inf[c].global_handler
             next == inf2[c].global_handler
  <2>1. /\ c \in Containers /\ k.current \in ToSet(next)
        /\ ListEvolves(list, next, nd, O2)
    BY <1>4 DEF Within, Evolves
  <2>2. list \in Seq(Nodes) /\ Distinct(list) /\ WalkOf(k, list, O)
    BY <1>4, <2>1 DEF Lists, OrderOf
  <2> HIDE DEF list, next
  <2>3. ASSUME NEW x \in k.seen, x \in ToSet(next)
        PROVE  x = k.current \/ Before(next, x, k.current)
    <3>1. x \in ToSet(list)
      BY <1>1, <2>1, <2>3 DEF ListEvolves
    <3> QED
      BY <2>1, <2>2, <2>3, <3>1 DEF WalkOf, ListEvolves
  <2>4. ASSUME NEW x \in k.must \ k.seen, x \in O2
        PROVE  Before(next, k.current, x)
    <3>1. Before(list, k.current, x)
      BY <1>2, <2>2, <2>4 DEF WalkOf
    <3>2. x \in ToSet(list)
      BY <2>2, <3>1, BeforeOrder
    <3> QED
      BY <2>1, <2>4, <3>1, <3>2 DEF ListEvolves
  <2> QED
    BY <2>2, <2>3, <2>4 DEF WalkOf, list, next
<1> QED
  BY <1>1, <1>3, <1>4 DEF OrderOf

(* What the invariant of the deciders says of the lists and of the raises  *)
(* inside them.                                                            *)
LEMMA NodeFacts ==
  ASSUME NodeInv
  PROVE  /\ Lists(info)
         /\ \A a \in Actors : /\ Within(call[a], info)
                              /\ call[a].must \subseteq Nodes
                              /\ call[a].seen \subseteq Nodes
<1>0. /\ IType /\ TypeOK /\ info \in [Containers -> SighandlerInfo]
      /\ NodeCore(LiveSet, Linked, Deferred, node, OwnedBy(dhandle), call)
      /\ AbandonCore(call, Linked, OwnedBy(dhandle), map) /\ DistinctLists
  BY DEF NodeInv, Lifetime, IType, TypeOK, Core
<1>1. Lists(info)
  BY <1>0, InfoType DEF Lists, DistinctLists
<1>2. ASSUME NEW a \in Actors PROVE Within(call[a], info)
  <2>1. call[a].pc \in InsidePCs =>
          call[a].item \in Containers /\ call[a].current \in Linked[call[a].item]
    BY <1>0 DEF NodeCore, Pinned, AbandonCore, InsidePCs, AbandonPCs
  <2> QED
    BY <1>0, <2>1 DEF Within, NodeCore, Placed, LiveSet, Linked
<1>3. \A a \in Actors : call[a].must \subseteq Nodes /\ call[a].seen \subseteq Nodes
  <2>1. \A a \in Actors : call[a] \in Call
    BY <1>0, CallType
  <2> QED
    BY <2>1 DEF Call
<1> QED
  BY <1>1, <1>2, <1>3

(* The step of actor a, the other raises keeping their place.              *)
LEMMA OrderStep ==
  ASSUME OrderInv, NodeInv', NEW a \in Actors,
         \A b \in Actors : b # a => call'[b] = call[b],
         Evolves(info, info', node, node', OwnedBy(dhandle), OwnedBy(dhandle')),
         OrderOf(call'[a], info', node', OwnedBy(dhandle'))
  PROVE  OrderInv'
<1> DEFINE inf2 == info'
           nd2 == node'
           O == OwnedBy(dhandle)
           O2 == OwnedBy(dhandle')
<1>1. Lists(info)
  BY NodeFacts DEF OrderInv
<1>2. ASSUME NEW b \in Actors, b # a PROVE OrderOf(call'[b], inf2, nd2, O2)
  <2> DEFINE k == call[b]
  <2>1. call'[b] = k /\ OrderOf(k, info, node, O) /\ Evolves(info, inf2, node, nd2, O, O2)
    BY <1>2 DEF OrderInv
  <2>2. k.must \subseteq Nodes /\ k.seen \subseteq Nodes
    BY NodeFacts DEF OrderInv
  <2>3. Within(call'[b], inf2)
    <3>1. /\ NodeCore(LiveSet', Linked', Deferred', nd2, O2, call')
          /\ AbandonCore(call', Linked', O2, map')
      BY DEF NodeInv, Core
    <3>2. call'[b].pc \in InsidePCs =>
            call'[b].item \in Containers /\ call'[b].current \in Linked'[call'[b].item]
      BY <3>1 DEF NodeCore, Pinned, AbandonCore, InsidePCs, AbandonPCs
    <3> QED
      BY <3>1, <3>2 DEF Within, NodeCore, Placed, LiveSet, Linked
  <2>4. Within(k, inf2)
    BY <2>1, <2>3
  <2> HIDE DEF k, inf2, nd2, O, O2
  <2>5. OrderOf(k, inf2, nd2, O2)
    BY ONLY <1>1, <2>1, <2>2, <2>4, OrderKept
  <2> QED
    BY <2>1, <2>5
<1> QED
  BY <1>2 DEF OrderInv

(* Actor a leaves the deciders, or was outside them, and forgets what it   *)
(* had to call or is past the handoff.                                     *)
Aside(a) ==
  /\ \A b \in Actors : b # a => call'[b] = call[b]
  /\ call'[a].pc \notin InsidePCs
  /\ call'[a].must \subseteq call[a].must /\ call'[a].seen \subseteq call[a].seen
  /\ call'[a].must = {} \/ call'[a].pc \notin {"raising", "handoff"}

(* A step to such a control point.                                         *)
LEMMA StepAside ==
  ASSUME TypeOK, NEW a \in Actors, NEW k, Step(a, k), k.pc \notin InsidePCs,
         k.must \subseteq call[a].must, k.seen \subseteq call[a].seen,
         k.must = {} \/ k.pc \notin {"raising", "handoff"}
  PROVE  Aside(a)
  BY DEF TypeOK, Step, Aside

(* Returning from the library.                                             *)
LEMMA ReturnAside ==
  ASSUME TypeOK, NEW a \in Actors, Return(a)
  PROVE  Aside(a)
<1>1. Idle.pc = "idle" /\ Idle.must = {} /\ Idle.seen = {}
  BY DEF Idle
<1> QED
  BY <1>1, StepAside DEF Return, InsidePCs

(* Such a step keeps the walks of the other raises.                        *)
LEMMA OrderAside ==
  ASSUME OrderInv, NodeInv', NEW a \in Actors, Aside(a),
         Evolves(info, info', node, node', OwnedBy(dhandle), OwnedBy(dhandle'))
  PROVE  OrderInv'
<1>1. \A x \in call[a].must \cup call[a].seen : x \in Nodes /\ node[x].state # "unused"
  BY NodeFacts DEF OrderInv, OrderOf
<1>2. \A x \in call'[a].must \cup call'[a].seen : node'[x].state # "unused"
  BY <1>1 DEF Aside, Evolves
<1>3. OrderOf(call'[a], info', node', OwnedBy(dhandle'))
  BY <1>2 DEF OrderOf, Aside
<1> QED
  BY <1>3, OrderStep DEF Aside

(* The lists of the live containers stay as they are.                      *)
LEMMA EvolvesSame ==
  ASSUME \A n \in Nodes : node[n].state # "unused" => node'[n].state # "unused",
         OwnedBy(dhandle') \subseteq OwnedBy(dhandle),
         \A c \in Containers : info'[c].state = "live" =>
           info'[c].global_handler = info[c].global_handler
  PROVE  Evolves(info, info', node, node', OwnedBy(dhandle), OwnedBy(dhandle'))
  BY DEF Evolves, ListEvolves

(* Nothing but the dispositions and the map.                               *)
LEMMA OrderUntouched ==
  ASSUME OrderInv, NodeInv', NEW a \in Actors, Aside(a),
         info' = info, node' = node, dhandle' = dhandle
  PROVE  OrderInv'
<1>1. Evolves(info, info', node, node', OwnedBy(dhandle), OwnedBy(dhandle'))
  BY EvolvesSame
<1> QED
  BY <1>1, OrderAside

(* The loops of siginstall() and siguninstall().                           *)
LEMMA DoneAside ==
  ASSUME TypeOK, NEW a \in Actors, call[a].pc \in InstallPCs,
         InstallDone(a) \/ Rollback(a) \/ UninstallDone(a)
  PROVE  Aside(a)
<1>1. call[a] \in Call
  BY CallType
<1>2. ASSUME NEW T, Step(a, [call[a] EXCEPT !.todo = T]) PROVE Aside(a)
  <2> DEFINE k == [call[a] EXCEPT !.todo = T]
  <2>1. k.pc = call[a].pc /\ k.must = call[a].must /\ k.seen = call[a].seen
    BY <1>1 DEF Call
  <2>2. Step(a, k)
    BY <1>2
  <2> HIDE DEF k
  <2> QED
    BY <2>1, <2>2, StepAside DEF InstallPCs, InsidePCs
<1>3. ASSUME NEW T, Step(a, [call[a] EXCEPT !.pc = "rollback", !.todo = T])
      PROVE  Aside(a)
  <2> DEFINE k == [call[a] EXCEPT !.pc = "rollback", !.todo = T]
  <2>1. k.pc = "rollback" /\ k.must = call[a].must /\ k.seen = call[a].seen
    BY <1>1 DEF Call
  <2>2. Step(a, k)
    BY <1>3
  <2> HIDE DEF k
  <2> QED
    BY <2>1, <2>2, StepAside DEF InsidePCs
<1> QED
  BY <1>2, <1>3, ReturnAside DEF InstallDone, Rollback, UninstallDone

(* siginstall(), and siguninstall() up to its loop.                        *)
LEMMA OrderInstall ==
  ASSUME OrderInv, NodeInv', NEW a \in Actors,
         \/ Siginstall(a) \/ InstallFirst(a) \/ InstallAgain(a)
         \/ InstallFails(a) \/ InstallTssFails(a) \/ Siguninstall(a)
  PROVE  OrderInv'
<1>0. /\ TypeOK /\ call[a] \in Call /\ NodeInv /\ IType
      /\ info \in [Containers -> SighandlerInfo]
      /\ map \in [Signals -> Containers \cup {NULL}]
  BY CallType DEF OrderInv, NodeInv, Lifetime, IType, TypeOK
<1>1. node' = node /\ dhandle' = dhandle
  BY DEF Siginstall, InstallFirst, InstallAgain, InstallFails, InstallTssFails,
         Siguninstall, registry
<1>2. Aside(a)
  <2>1. CASE Siginstall(a) \/ Siguninstall(a)
    <3>1. \E p \in {"installing", "uninstalling"} : \E T, h :
            Step(a, [Idle EXCEPT !.pc = p, !.todo = T, !.h = h])
      BY <2>1 DEF Siginstall, Siguninstall
    <3>2. \A p, T, h : LET k == [Idle EXCEPT !.pc = p, !.todo = T, !.h = h]
                       IN  k.pc = p /\ k.must = {} /\ k.seen = {}
      BY DEF Idle
    <3> QED
      BY <1>0, <3>1, <3>2, StepAside DEF InsidePCs
  <2>2. CASE InstallFirst(a) \/ InstallAgain(a) \/ InstallFails(a) \/ InstallTssFails(a)
    <3>1. call[a].pc \in InstallPCs /\ (InstallDone(a) \/ Rollback(a))
      BY <2>2 DEF InstallFirst, InstallAgain, InstallFails, InstallTssFails, At, InstallPCs
    <3> QED
      BY <1>0, <3>1, DoneAside
  <2> QED
    BY <2>1, <2>2
<1>3. \A c \in Containers : info'[c].state = "live" =>
        info'[c].global_handler = info[c].global_handler
  <2>1. CASE Siginstall(a) \/ Siguninstall(a) \/ InstallFails(a)
    BY <2>1 DEF Siginstall, Siguninstall, InstallFails, registry
  <2>2. CASE InstallFirst(a)
    <3>1. PICK c, o :
            /\ c \in Containers /\ info[c].state = "unused"
            /\ info' = [info EXCEPT ![c] =
                 [state |-> "live", install_count |-> 1, lifetime_refcount |-> 1,
                  old_handler |-> o, global_handler |-> <<>>, deferred_frees |-> <<>>]]
      BY <2>2 DEF InstallFirst
    <3>2. info[c].global_handler = <<>>
      BY <1>0, <3>1, DeadEmpty
    <3> QED
      BY <1>0, <3>1, <3>2
  <2>3. CASE InstallAgain(a)
    <3> DEFINE c == map[Signo(a)]
               x == info[c].install_count + 1
    <3>1. info' = [info EXCEPT ![c].install_count = x]
      BY <2>3 DEF InstallAgain
    <3>2. \A r \in SighandlerInfo :
            [r EXCEPT !.install_count = x].global_handler = r.global_handler
      BY DEF SighandlerInfo
    <3> HIDE DEF c, x
    <3> QED
      BY <1>0, <3>1, <3>2
  <2>4. CASE InstallTssFails(a)
    <3>1. PICK c \in Containers : info' = [info EXCEPT ![c].state = "freed"]
      BY <2>4 DEF InstallTssFails
    <3>2. \A r \in SighandlerInfo :
            [r EXCEPT !.state = "freed"].global_handler = r.global_handler
      BY DEF SighandlerInfo
    <3> QED
      BY <1>0, <3>1, <3>2
  <2> QED
    BY <2>1, <2>2, <2>3, <2>4
<1>4. Evolves(info, info', node, node', OwnedBy(dhandle), OwnedBy(dhandle'))
  BY <1>1, <1>3, EvolvesSame
<1> QED
  BY <1>2, <1>4, OrderAside

(* free() leaves no node unused.                                           *)
LEMMA FreedStates ==
  ASSUME NEW nodes \in [Nodes -> Decider], NEW S
  PROVE  \A m \in Nodes : nodes[m].state # "unused" =>
           FreeNodes(nodes, S)[m].state # "unused"
  BY FreedNodes

(* uninstall_sighandler().                                                 *)
LEMMA OrderUninstall ==
  ASSUME OrderInv, NodeInv', NEW a \in Actors, UninstallSighandler(a)
  PROVE  OrderInv'
<1>0. /\ IType /\ TypeOK /\ NodeInv
      /\ info \in [Containers -> SighandlerInfo] /\ node \in [Nodes -> Decider]
      /\ map \in [Signals -> Containers \cup {NULL}]
  BY DEF OrderInv, NodeInv, Lifetime, IType, TypeOK
<1>1. call[a].pc \in InstallPCs
  BY DEF UninstallSighandler, At, InstallPCs
<1>2. Aside(a) /\ dhandle' = dhandle
  BY <1>0, <1>1, DoneAside DEF UninstallSighandler
<1> DEFINE s == Signo(a)
           c == map[s]
<1>3. s \in Signals /\ c \in Containers \cup {NULL}
  BY <1>0, <1>1, SignoType
<1>4. CASE c = NULL
  <2>1. UNCHANGED registry
    BY <1>4 DEF UninstallSighandler
  <2> QED
    BY <1>2, <2>1, OrderUntouched DEF registry
<1>5. CASE c # NULL
  <2>1. /\ node' = FreeNodes(node, ToSet(info[c].deferred_frees))
        /\ info' = Release(Uninstalled(c), c) \/ info' = Uninstalled(c)
    BY <1>5 DEF UninstallSighandler
  <2>2. c \in Containers
    BY <1>3, <1>5
  <2> HIDE DEF s, c
  <2>3. /\ Uninstalled(c) \in [Containers -> SighandlerInfo]
        /\ Uninstalled(c)[c].global_handler = info[c].global_handler
        /\ \A d \in Containers : d # c => Uninstalled(c)[d] = info[d]
    <3>1. ASSUME NEW r \in SighandlerInfo, NEW x
          PROVE  [r EXCEPT !.install_count = x, !.deferred_frees = <<>>].global_handler
                   = r.global_handler
      BY DEF SighandlerInfo
    <3>2. Uninstalled(c) \in [Containers -> SighandlerInfo]
      BY <1>0, <2>2, UninstalledType
    <3> QED
      BY <1>0, <2>2, <3>1, <3>2 DEF Uninstalled
  <2>4. \A d \in Containers : info'[d].state = "live" =>
          info'[d].global_handler = info[d].global_handler
    <3>1. CASE info' = Uninstalled(c)
      BY <2>3, <3>1
    <3>2. CASE info' = Release(Uninstalled(c), c)
      <4>1. /\ \A d \in Containers : d # c => info'[d] = info[d]
            /\ Uninstalled(c)[c].lifetime_refcount = 1 => info'[c].state = "freed"
        BY <2>2, <2>3, <3>2, ReleaseCounts
      <4>2. Uninstalled(c)[c].lifetime_refcount # 1 =>
              info'[c].global_handler = info[c].global_handler
        BY <2>2, <2>3, <3>2, ReleaseLists
      <4> QED
        BY <4>1, <4>2
    <3> QED
      BY <2>1, <3>1, <3>2
  <2>5. \A n \in Nodes : node[n].state # "unused" => node'[n].state # "unused"
    BY <1>0, <2>1, FreedStates
  <2>6. Evolves(info, info', node, node', OwnedBy(dhandle), OwnedBy(dhandle'))
    BY <1>2, <2>4, <2>5, EvolvesSame
  <2> QED
    BY <1>2, <2>6, OrderAside
<1> QED
  BY <1>4, <1>5

(* The default actions and the previous handler.                           *)
LEMMA OrderInvoke ==
  ASSUME OrderInv, NodeInv', NEW a \in Actors, Invoke(a)
  PROVE  OrderInv'
<1>0. TypeOK /\ call[a] \in Call
  BY CallType DEF OrderInv, NodeInv, Lifetime, IType
<1>1. info' = info /\ node' = node /\ dhandle' = dhandle
  BY DEF Invoke, InvokeOther, InvokeRawSignalHandler, InvokeDefault, DefaultSet,
         DefaultKill, DefaultRestore, registry, handles
<1>2. \/ Return(a)
      \/ Step(a, [Idle EXCEPT !.pc = "raising", !.signo = call[a].signo,
                              !.delivered = TRUE])
      \/ \E o : Step(a, [call[a] EXCEPT !.pc = "dfl_set", !.sa = o])
      \/ \E p \in {"dfl_kill", "dfl_restore", "terminated"} :
           Step(a, [call[a] EXCEPT !.pc = p])
  BY DEF Invoke, InvokeOther, InvokeRawSignalHandler, InvokeDefault, DefaultSet,
         DefaultKill, DefaultRestore
<1>3. LET k == [Idle EXCEPT !.pc = "raising", !.signo = call[a].signo, !.delivered = TRUE]
      IN  k.pc = "raising" /\ k.must = {} /\ k.seen = {}
  BY DEF Idle
<1>4. \A o : LET k == [call[a] EXCEPT !.pc = "dfl_set", !.sa = o]
             IN  k.pc = "dfl_set" /\ k.must = call[a].must /\ k.seen = call[a].seen
  BY <1>0 DEF Call
<1>5. \A p : LET k == [call[a] EXCEPT !.pc = p]
             IN  k.pc = p /\ k.must = call[a].must /\ k.seen = call[a].seen
  BY <1>0 DEF Call
<1>6. Aside(a)
  BY <1>0, <1>2, <1>3, <1>4, <1>5, ReturnAside, StepAside DEF InsidePCs
<1> QED
  BY <1>1, <1>6, OrderUntouched

(* The steps of a raise outside the deciders.                              *)
LEMMA OrderOutside ==
  ASSUME OrderInv, NodeInv', NEW a \in Actors,
         \/ StdcRaise(a) \/ RawSignalHandler(a) \/ RaiseUninstalled(a)
         \/ RaiseNoDecider(a) \/ LeaveAbandoned(a)
  PROVE  OrderInv'
<1>0. TypeOK /\ call[a] \in Call /\ OrderOf(call[a], info, node, OwnedBy(dhandle))
  BY CallType DEF OrderInv, NodeInv, Lifetime, IType
<1>1. info' = info /\ node' = node /\ dhandle' = dhandle
  BY DEF StdcRaise, RawSignalHandler, RaiseUninstalled, RaiseNoDecider,
         LeaveAbandoned, registry, handles
<1>2. \/ Return(a)
      \/ \E s : Step(a, [Idle EXCEPT !.pc = "raising", !.signo = s])
      \/ \E s : Step(a, [Idle EXCEPT !.pc = "raising", !.signo = s,
                                     !.delivered = TRUE])
      \/ /\ call[a].pc = "raising"
         /\ \E o : Step(a, [call[a] EXCEPT !.pc = "handoff", !.sa = o])
  BY DEF StdcRaise, RawSignalHandler, RaiseUninstalled, RaiseNoDecider,
         LeaveAbandoned, At
<1>3. \A s : LET k == [Idle EXCEPT !.pc = "raising", !.signo = s]
             IN  k.pc = "raising" /\ k.must = {} /\ k.seen = {}
  BY DEF Idle
<1>4. \A s : LET k == [Idle EXCEPT !.pc = "raising", !.signo = s, !.delivered = TRUE]
             IN  k.pc = "raising" /\ k.must = {} /\ k.seen = {}
  BY DEF Idle
<1>5. \A o : LET k == [call[a] EXCEPT !.pc = "handoff", !.sa = o]
             IN  k.pc = "handoff" /\ k.must = call[a].must /\ k.seen = call[a].seen
  BY <1>0 DEF Call
<1>6. call[a].pc = "raising" => call[a].must = {}
  BY <1>0 DEF OrderOf
<1>7. Aside(a)
  BY <1>0, <1>2, <1>3, <1>4, <1>5, <1>6, ReturnAside, StepAside DEF InsidePCs
<1> QED
  BY <1>1, <1>7, OrderUntouched

(* An iteration of signal_decider_destroy().                               *)
LEMMA SlotDoneAside ==
  ASSUME TypeOK, NEW a \in Actors, SlotDone(a)
  PROVE  Aside(a)
<1>1. call[a] \in Call
  BY CallType
<1>2. \/ Return(a)
      \/ Step(a, [call[a] EXCEPT !.pc = "destroying", !.todo = Rest(a), !.current = NULL])
  BY DEF SlotDone
<1> DEFINE k == [call[a] EXCEPT !.pc = "destroying", !.todo = Rest(a), !.current = NULL]
<1>3. k.pc = "destroying" /\ k.must = call[a].must /\ k.seen = call[a].seen
  BY <1>1 DEF Call
<1>4. Return(a) \/ Step(a, k)
  BY <1>2
<1> HIDE DEF k
<1> QED
  BY <1>3, <1>4, ReturnAside, StepAside DEF InsidePCs

(* Unlinking a node that no handle owns any more.                          *)
LEMMA UnlinkEvolves ==
  ASSUME NEW list \in Seq(Nodes), Distinct(list), NEW n, NEW nd, NEW O, n \notin O
  PROVE  /\ ListEvolves(list, LIST_REMOVE(list, n), nd, O)
         /\ ListEvolves(list, list, nd, O)
<1> DEFINE next == LIST_REMOVE(list, n)
<1>1. /\ ToSet(next) = ToSet(list) \ {n}
      /\ \A x, y : Before(next, x, y) <=> Before(list, x, y) /\ x # n /\ y # n
  BY RemoveNode
<1> HIDE DEF next
<1>2. ListEvolves(list, next, nd, O)
  BY <1>1 DEF ListEvolves
<1>3. ListEvolves(list, list, nd, O)
  BY DEF ListEvolves
<1> QED
  BY <1>2, <1>3 DEF next

(* The locked part of a destroy.                                           *)
LEMMA OrderDestroy ==
  ASSUME OrderInv, NodeInv', NEW a \in Actors, DestroyLocked(a)
  PROVE  OrderInv'
<1> DEFINE c == map[Signo(a)]
           n == Slot(a)
           O2 == OwnedBy(dhandle')
<1>0. /\ IType /\ TypeOK /\ node \in [Nodes -> Decider] /\ IType' /\ NodeInv
      /\ Lists(info)
  BY NodeFacts DEF OrderInv, NodeInv, Lifetime, IType, TypeOK
<1>1. /\ c \in Containers /\ call[a].pc \in DestroyPCs /\ SlotDone(a) /\ map' = map
      /\ Destroyed(c, n)
  BY <1>0, DestroyEffect DEF DestroyPCs
<1>2. Aside(a) /\ n \in Nodes \cup {NULL}
  BY <1>0, <1>1, SlotDoneAside, SlotType DEF DestroyPCs, DeciderPCs
<1> HIDE DEF c, n
<1>3. /\ \A d \in Containers : d # c => info'[d].global_handler = info[d].global_handler
      /\ \/ info'[c].global_handler = info[c].global_handler
         \/ info'[c].global_handler = LIST_REMOVE(info[c].global_handler, n)
  BY <1>1 DEF Destroyed
<1>4. \A d \in Containers : Linked'[d] \subseteq Linked[d]
  <2>1. ToSet(LIST_REMOVE(info[c].global_handler, n)) \subseteq ToSet(info[c].global_handler)
    BY <1>0, <1>1, RemoveNode DEF Lists
  <2> QED
    BY <1>1, <1>3, <2>1 DEF Linked
<1>5. \A m \in Nodes : m \in O2 <=> m \in OwnedBy(dhandle) /\ m # n
  BY <1>0, <1>1, <1>4, PopFrame DEF n
<1>6. n \notin O2 /\ O2 \subseteq OwnedBy(dhandle)
  BY <1>2, <1>5, NullAssumption DEF OwnedBy
<1>7. \A m \in Nodes : node[m].state # "unused" => node'[m].state # "unused"
  <2>1. CASE n = NULL
    BY <1>0, <1>1, <2>1, FreedStates DEF Destroyed
  <2>2. CASE n # NULL
    <3> DEFINE x == node[n].refcount - 1
               nodes == [node EXCEPT ![n].refcount = x]
               S == Deferred[c] \cup (IF node[n].refcount = 1 THEN {n} ELSE {})
    <3>1. n \in Nodes /\ x \in Int
      BY <1>0, <1>2, <2>2, NodeType
    <3>2. node' = FreeNodes(nodes, S)
      BY <1>1, <2>2 DEF Destroyed
    <3> HIDE DEF x, S
    <3>3. /\ nodes \in [Nodes -> Decider] /\ nodes[n].state = node[n].state
          /\ \A m \in Nodes : m # n => nodes[m] = node[m]
      BY <1>0, <3>1, NodeCount
    <3> HIDE DEF nodes
    <3> QED
      BY <3>2, <3>3, FreedStates
  <2> QED
    BY <2>1, <2>2
<1> HIDE DEF O2
<1>8. \A d \in Containers : ListEvolves(info[d].global_handler, info'[d].global_handler, node, O2)
  BY <1>0, <1>1, <1>3, <1>6, UnlinkEvolves DEF Lists
<1>9. Evolves(info, info', node, node', OwnedBy(dhandle), OwnedBy(dhandle'))
  BY <1>6, <1>7, <1>8 DEF Evolves, O2
<1> QED
  BY <1>2, <1>9, OrderAside

(* The part of a destroy that works on an orphaned node, out of any list.  *)
LEMMA OrderOrphan ==
  ASSUME OrderInv, NodeInv', NEW a \in Actors,
         DestroyUninstalled(a) \/ OrphanLoad(a) \/ OrphanStore(a)
  PROVE  OrderInv'
<1>0. /\ IType /\ TypeOK /\ node \in [Nodes -> Decider] /\ IType' /\ NodeInv
      /\ call[a] \in Call
  BY CallType DEF OrderInv, NodeInv, Lifetime, IType, TypeOK
<1>1. info' = info /\ map' = map /\ call[a].pc \in DestroyPCs
  BY DEF DestroyUninstalled, OrphanLoad, OrphanStore, registry, installed, At, DestroyPCs
<1>2. CASE SlotDone(a)
  <2>1. Aside(a)
    BY <1>0, <1>2, SlotDoneAside
  <2>2. \A c \in Containers : Linked'[c] \subseteq Linked[c]
    BY <1>1 DEF Linked
  <2>3. \A m \in Nodes : m \in OwnedBy(dhandle') <=> m \in OwnedBy(dhandle) /\ m # Slot(a)
    BY <1>0, <1>1, <1>2, <2>2, PopFrame
  <2>4. OwnedBy(dhandle') \subseteq OwnedBy(dhandle)
    BY <2>3 DEF OwnedBy
  <2>5. \A m \in Nodes : node[m].state # "unused" => node'[m].state # "unused"
    <3>1. CASE DestroyUninstalled(a) \/ OrphanLoad(a)
      BY <3>1 DEF DestroyUninstalled, OrphanLoad, registry
    <3>2. CASE OrphanStore(a)
      <4> DEFINE n == call[a].current
                 nodes == [node EXCEPT ![n].refcount = call[a].reg]
                 S == IF call[a].reg = 0 THEN {n} ELSE {}
      <4>1. node' = FreeNodes(nodes, S)
        BY <3>2 DEF OrphanStore
      <4>2. n \in Nodes /\ call[a].reg \in Int
        BY <1>0, <3>2 DEF IType, CallShape, ShapeOf, OrphanStore, At, OrphanPCs, Call
      <4>3. /\ nodes \in [Nodes -> Decider] /\ nodes[n].state = node[n].state
            /\ \A m \in Nodes : m # n => nodes[m] = node[m]
        BY <1>0, <4>2, NodeCount
      <4> HIDE DEF nodes, S
      <4> QED
        BY <4>1, <4>3, FreedStates
    <3> QED
      BY <3>1, <3>2
  <2>6. Evolves(info, info', node, node', OwnedBy(dhandle), OwnedBy(dhandle'))
    BY <1>1, <2>4, <2>5, EvolvesSame
  <2> QED
    BY <2>1, <2>6, OrderAside
<1>3. CASE ~SlotDone(a)
  <2>1. /\ node' = node /\ dhandle' = dhandle
        /\ \/ \E n : Step(a, [call[a] EXCEPT !.pc = "orphan_load", !.current = n])
           \/ \E x : Step(a, [call[a] EXCEPT !.pc = "orphan_store", !.reg = x])
    BY <1>3 DEF DestroyUninstalled, OrphanLoad, OrphanStore, registry, handles
  <2>2. \A n : LET k == [call[a] EXCEPT !.pc = "orphan_load", !.current = n]
               IN  k.pc = "orphan_load" /\ k.must = call[a].must /\ k.seen = call[a].seen
    BY <1>0 DEF Call
  <2>3. \A x : LET k == [call[a] EXCEPT !.pc = "orphan_store", !.reg = x]
               IN  k.pc = "orphan_store" /\ k.must = call[a].must /\ k.seen = call[a].seen
    BY <1>0 DEF Call
  <2>4. Aside(a)
    BY <1>0, <2>1, <2>2, <2>3, StepAside DEF InsidePCs
  <2> QED
    BY <1>1, <2>1, <2>4, OrderUntouched
<1> QED
  BY <1>2, <1>3

(* The start of a create and of a destroy, and a create that fails.        *)
LEMMA OrderTaken ==
  ASSUME OrderInv, NodeInv', NEW a \in Actors,
         SignalDeciderCreate(a) \/ CreateFails(a) \/ SignalDeciderDestroy(a)
  PROVE  OrderInv'
<1>0. TypeOK /\ call[a] \in Call /\ dhandle \in [DeciderHandles -> DeciderHandle]
  BY CallType DEF OrderInv, NodeInv, Lifetime, IType, TypeOK
<1>1. info' = info /\ node' = node
  BY DEF SignalDeciderCreate, CreateFails, SignalDeciderDestroy, registry, handles
<1>2. \/ \E p \in {"creating", "destroying"} : \E T, h :
           Step(a, [Idle EXCEPT !.pc = p, !.todo = T, !.h = h])
      \/ Step(a, [call[a] EXCEPT !.pc = "destroying", !.todo = Signals])
  BY DEF SignalDeciderCreate, CreateFails, SignalDeciderDestroy
<1>3. \A p, T, h : LET k == [Idle EXCEPT !.pc = p, !.todo = T, !.h = h]
                   IN  k.pc = p /\ k.must = {} /\ k.seen = {}
  BY DEF Idle
<1>4. LET k == [call[a] EXCEPT !.pc = "destroying", !.todo = Signals]
      IN  k.pc = "destroying" /\ k.must = call[a].must /\ k.seen = call[a].seen
  BY <1>0 DEF Call
<1>5. Aside(a)
  BY <1>0, <1>2, <1>3, <1>4, StepAside DEF InsidePCs
<1>6. \A h \in DeciderHandles : dhandle'[h].slots = dhandle[h].slots
                                \/ dhandle'[h].slots = <<>>
  <2>1. CASE SignalDeciderCreate(a)
    <3>1. PICK h, S, first :
            /\ h \in DeciderHandles
            /\ dhandle' = [dhandle EXCEPT ![h] = [state |-> "busy", guarded |-> S,
                                                  callfirst |-> first, slots |-> <<>>]]
      BY <2>1 DEF SignalDeciderCreate
    <3> QED
      BY <1>0, <3>1
  <2>2. CASE CreateFails(a)
    BY <2>2 DEF CreateFails, handles
  <2>3. CASE SignalDeciderDestroy(a)
    <3>1. PICK h \in DeciderHandles : dhandle' = [dhandle EXCEPT ![h].state = "busy"]
      BY <2>3 DEF SignalDeciderDestroy
    <3>2. \A r \in DeciderHandle : [r EXCEPT !.state = "busy"].slots = r.slots
      BY DEF DeciderHandle
    <3> QED
      BY <1>0, <3>1, <3>2
  <2> QED
    BY <2>1, <2>2, <2>3
<1>7. OwnedBy(dhandle') \subseteq OwnedBy(dhandle)
  <2>1. ToSet(<<>>) = {}
    BY DEF ToSet
  <2> QED
    BY <1>6, <2>1 DEF OwnedBy
<1>8. Evolves(info, info', node, node', OwnedBy(dhandle), OwnedBy(dhandle'))
  BY <1>1, <1>7, EvolvesSame
<1> QED
  BY <1>5, <1>8, OrderAside

(* The slot that signal_decider_create() fills.                            *)
LEMMA CreateSlotOwned ==
  ASSUME NodeInv, NEW a \in Actors, call[a].pc = "creating",
         NEW p \in Nodes \cup {NULL}, CreateSlot(a, p)
  PROVE  Aside(a) /\ OwnedBy(dhandle') \subseteq OwnedBy(dhandle) \cup {p}
<1> DEFINE h == call[a].h
           s == Signo(a)
<1>0. /\ IType /\ TypeOK /\ call[a].pc \in DeciderPCs /\ call[a] \in Call
      /\ call[a].pc \in InstallPCs \cup DeciderPCs
      /\ dhandle \in [DeciderHandles -> DeciderHandle]
  BY CallType DEF NodeInv, Lifetime, IType, TypeOK, DeciderPCs
<1>1. h \in DeciderHandles /\ s \in Signals
  BY <1>0, SignoType, SlotType
<1>2. PICK q \in [DeciderHandles -> Seq(Signals)] : HandleCore(dhandle, call, q)
  BY DEF NodeInv, Handles
<1>3. dhandle[h].state = "busy" /\ q[h] \in Seq(Signals)
  BY <1>0, <1>1, <1>2 DEF HandleCore, Exclusive
<1> DEFINE r == [q EXCEPT ![h] = Append(q[h], s)]
<1>4. r \in [DeciderHandles -> Seq(Signals)]
  <2>1. Append(q[h], s) \in Seq(Signals)
    BY <1>1, <1>3
  <2> QED
    BY <1>1, <2>1
<1>5. Stored(dhandle, dhandle', q, r, h, s, p)
  BY <1>0, <1>3, <1>4, CreateSlotStored
<1>6. /\ \A g \in DeciderHandles : g # h => dhandle'[g] = dhandle[g]
      /\ dhandle'[h].slots = Append(dhandle[h].slots, p)
  BY <1>5 DEF Stored
<1>7. ToSet(dhandle'[h].slots) = ToSet(dhandle[h].slots) \cup {p}
  <2>1. dhandle[h].slots \in Seq(Nodes \cup {NULL})
    BY <1>0, SlotType
  <2> QED
    BY <1>6, <2>1, AppendMember
<1>8. OwnedBy(dhandle') \subseteq OwnedBy(dhandle) \cup {p}
  BY <1>1, <1>6, <1>7 DEF OwnedBy
<1>9. Aside(a)
  <2>1. Return(a) \/ Step(a, [call[a] EXCEPT !.todo = Rest(a)])
    BY DEF CreateSlot
  <2> DEFINE k == [call[a] EXCEPT !.todo = Rest(a)]
  <2>2. k.pc = "creating" /\ k.must = call[a].must /\ k.seen = call[a].seen
    BY <1>0 DEF Call
  <2>3. Return(a) \/ Step(a, k)
    BY <2>1
  <2> HIDE DEF k
  <2> QED
    BY <1>0, <2>2, <2>3, ReturnAside, StepAside DEF InsidePCs
<1> QED
  BY <1>8, <1>9

(* Linking a node that was never used, at either end.                      *)
LEMMA LinkEvolves ==
  ASSUME NEW list \in Seq(Nodes), Distinct(list), NEW n \in Nodes, n \notin ToSet(list),
         NEW first, NEW nd, nd[n].state = "unused", NEW O
  PROVE  ListEvolves(list, LIST_INSERT(list, n, first), nd, O)
<1> DEFINE back == Append(list, n)
           front == <<n>> \o list
<1>1. /\ ToSet(back) = ToSet(list) \cup {n}
      /\ \A x, y : Before(back, x, y) <=> Before(list, x, y) \/ (x \in ToSet(list) /\ y = n)
  BY InsertBack
<1>2. /\ ToSet(front) = ToSet(list) \cup {n}
      /\ \A x, y : Before(front, x, y) <=> Before(list, x, y) \/ (x = n /\ y \in ToSet(list))
  BY InsertFront
<1> HIDE DEF back, front
<1>3. ListEvolves(list, back, nd, O) /\ ListEvolves(list, front, nd, O)
  BY <1>1, <1>2 DEF ListEvolves
<1> QED
  BY <1>3 DEF LIST_INSERT, back, front

(* An iteration of signal_decider_create().                                *)
LEMMA OrderCreate ==
  ASSUME OrderInv, NodeInv', NEW a \in Actors, CreateUninstalled(a) \/ CreateNode(a)
  PROVE  OrderInv'
<1>0. /\ IType /\ TypeOK /\ NodeInv /\ node \in [Nodes -> Decider]
      /\ info \in [Containers -> SighandlerInfo]
      /\ map \in [Signals -> Containers \cup {NULL}] /\ Lists(info)
      /\ NodeCore(LiveSet, Linked, Deferred, node, OwnedBy(dhandle), call)
  BY NodeFacts DEF OrderInv, NodeInv, Lifetime, IType, TypeOK, Core
<1>1. call[a].pc = "creating" /\ Signo(a) \in Signals
  BY <1>0, SignoType DEF CreateUninstalled, CreateNode, At, DeciderPCs
<1>2. CASE CreateUninstalled(a)
  <2>1. CreateSlot(a, NULL) /\ info' = info /\ node' = node
    BY <1>2 DEF CreateUninstalled, registry
  <2>2. Aside(a) /\ OwnedBy(dhandle') \subseteq OwnedBy(dhandle) \cup {NULL}
    BY <1>0, <1>1, <2>1, CreateSlotOwned
  <2>3. OwnedBy(dhandle') \subseteq OwnedBy(dhandle)
    BY <2>2, NullAssumption DEF OwnedBy
  <2>4. Evolves(info, info', node, node', OwnedBy(dhandle), OwnedBy(dhandle'))
    BY <2>1, <2>3, EvolvesSame
  <2> QED
    BY <2>2, <2>4, OrderAside
<1>3. CASE CreateNode(a)
  <2> DEFINE c == map[Signo(a)]
             first == dhandle[call[a].h].callfirst
             O2 == OwnedBy(dhandle')
  <2>1. c \in Containers
    BY <1>0, <1>1, <1>3 DEF CreateNode
  <2>2. PICK n \in Nodes :
          /\ node[n].state = "unused"
          /\ node' = [node EXCEPT ![n] = [state |-> "live", refcount |-> 1]]
          /\ info' = [info EXCEPT ![c].global_handler =
                        LIST_INSERT(info[c].global_handler, n, first)]
          /\ CreateSlot(a, n)
    <3>1. \E n \in Nodes :
          /\ node[n].state = "unused"
          /\ node' = [node EXCEPT ![n] = [state |-> "live", refcount |-> 1]]
          /\ info' = [info EXCEPT ![c].global_handler = LIST_INSERT(@, n, first)]
          /\ CreateSlot(a, n)
      BY <1>3 DEF CreateNode
    <3> QED
      BY <3>1
  <2>3. Aside(a) /\ O2 \subseteq OwnedBy(dhandle) \cup {n}
    BY <1>0, <1>1, <2>2, CreateSlotOwned
  <2> DEFINE old == info[c].global_handler
             next == LIST_INSERT(old, n, first)
  <2>4. old \in Seq(Nodes) /\ Distinct(old) /\ n \notin ToSet(old)
    BY <1>0, <2>1, <2>2 DEF Lists, NodeCore, Placed, Linked
  <2>5. info'[c].global_handler = next /\ \A d \in Containers : d # c => info'[d] = info[d]
    <3> DEFINE k == [info[c] EXCEPT !.global_handler = next]
    <3> HIDE DEF next
    <3>1. k.global_handler = next
      BY <1>0, <2>1 DEF SighandlerInfo
    <3>2. info' = [info EXCEPT ![c] = k]
      BY <2>2 DEF next
    <3> HIDE DEF k
    <3> QED
      BY <1>0, <2>1, <3>1, <3>2
  <2> HIDE DEF c, first, O2
  <2>6. ListEvolves(old, next, node, O2)
    <3> HIDE DEF old
    <3> QED
      BY <2>2, <2>4, LinkEvolves
  <2>7. \A d \in Containers : ListEvolves(info[d].global_handler, info'[d].global_handler, node, O2)
    <3>1. \A d \in Containers : ListEvolves(info[d].global_handler, info[d].global_handler, node, O2)
      BY DEF ListEvolves
    <3> QED
      BY <2>5, <2>6, <3>1
  <2>8. /\ \A m \in Nodes : node[m].state # "unused" => node'[m].state # "unused"
        /\ \A m \in O2 : m \in OwnedBy(dhandle) \/ node[m].state = "unused"
    BY <1>0, <2>2, <2>3
  <2>9. Evolves(info, info', node, node', OwnedBy(dhandle), OwnedBy(dhandle'))
    BY <2>7, <2>8 DEF Evolves, O2
  <2> QED
    BY <2>3, <2>9, OrderAside
<1> QED
  BY <1>2, <1>3

(* Counting references changes neither the lists nor what is in use.       *)
LEMMA CountEvolves ==
  ASSUME TypeOK, NEW c \in Containers, NEW n \in Nodes, NEW x, NEW y \in Int,
         info' = [info EXCEPT ![c].lifetime_refcount = x],
         node' = [node EXCEPT ![n].refcount = y], dhandle' = dhandle
  PROVE  /\ Evolves(info, info', node, node', OwnedBy(dhandle), OwnedBy(dhandle'))
         /\ \A d \in Containers : info'[d].global_handler = info[d].global_handler
         /\ \A m \in Nodes : node'[m].state = node[m].state
<1>0. info \in [Containers -> SighandlerInfo] /\ node \in [Nodes -> Decider]
  BY DEF TypeOK
<1>1. \A d \in Containers : info'[d].global_handler = info[d].global_handler
  BY <1>0, CountOnly
<1>2. \A m \in Nodes : node'[m].state = node[m].state
  BY <1>0, NodeCount
<1> QED
  BY <1>1, <1>2, EvolvesSame

(* A raise calls its first decider.                                        *)
LEMMA OrderEnter ==
  ASSUME OrderInv, NodeInv', NEW a \in Actors, RaiseEnter(a)
  PROVE  OrderInv'
<1> DEFINE c == map[call[a].signo]
           list == info[c].global_handler
           n == Head(list)
           x == info[c].lifetime_refcount + 1
           y == node[n].refcount + 1
           O == OwnedBy(dhandle)
<1>0. /\ IType /\ TypeOK /\ CallShape /\ call[a] \in Call /\ Lists(info)
      /\ info \in [Containers -> SighandlerInfo] /\ node \in [Nodes -> Decider]
      /\ map \in [Signals -> Containers \cup {NULL}]
      /\ NodeCore(LiveSet, Linked, Deferred, node, O, call)
  BY CallType, NodeFacts DEF OrderInv, NodeInv, Lifetime, IType, TypeOK, Core
<1>1. /\ call[a].pc = "raising" /\ c # NULL /\ dhandle' = dhandle /\ list # <<>>
      /\ info' = [info EXCEPT ![c].lifetime_refcount = x]
      /\ node' = [node EXCEPT ![n].refcount = y]
      /\ \E o : Step(a, [call[a] EXCEPT !.pc = "decider", !.item = c, !.current = n,
                           !.sa = o, !.must = ToSet(list), !.seen = {n}])
  BY DEF RaiseEnter, At, handles
<1>2. c \in Containers
  <2>1. call[a].signo \in Signals
    BY <1>0, <1>1 DEF CallShape, ShapeOf, RaisePCs
  <2> QED
    BY <1>0, <1>1, <2>1
<1>3. list \in Seq(Nodes) /\ Distinct(list)
  BY <1>0, <1>2 DEF Lists
<1>4. /\ n \in ToSet(list) /\ ToSet(list) \subseteq Nodes
      /\ \A m \in ToSet(list) : m = n \/ Before(list, n, m)
      /\ \A m \in ToSet(list) : node[m].state = "live"
  <2>1. \A m \in Linked[c] : m \in Nodes /\ node[m].state = "live"
    BY <1>0, <1>2 DEF NodeCore, Placed
  <2>2. ToSet(list) = Linked[c]
    BY <1>2 DEF Linked
  <2> HIDE DEF list
  <2> QED
    BY <1>1, <1>3, <2>1, <2>2, FirstMember
<1>5. n \in Nodes /\ y \in Int
  <2>1. n \in Nodes
    BY <1>4
  <2> HIDE DEF n
  <2>2. node[n].refcount \in Int
    BY <1>0, <2>1, NodeType
  <2> QED
    BY <2>1, <2>2
<1> HIDE DEF x, y
<1>6. /\ Evolves(info, info', node, node', O, OwnedBy(dhandle'))
      /\ info'[c].global_handler = list
      /\ \A m \in Nodes : node'[m].state = node[m].state
  <2> HIDE DEF c, n
  <2> QED
    BY <1>0, <1>1, <1>2, <1>5, CountEvolves DEF list
<1> HIDE DEF c, n, list
<1>7. /\ call'[a].pc = "decider" /\ call'[a].item = c /\ call'[a].current = n
      /\ call'[a].must = ToSet(list) /\ call'[a].seen = {n}
      /\ \A b \in Actors : b # a => call'[b] = call[b]
  <2>1. PICK o : Step(a, [call[a] EXCEPT !.pc = "decider", !.item = c, !.current = n,
                            !.sa = o, !.must = ToSet(list), !.seen = {n}])
    BY <1>1
  <2> DEFINE k == [call[a] EXCEPT !.pc = "decider", !.item = c, !.current = n,
                     !.sa = o, !.must = ToSet(list), !.seen = {n}]
  <2>2. /\ k.pc = "decider" /\ k.item = c /\ k.current = n
        /\ k.must = ToSet(list) /\ k.seen = {n}
    BY <1>0 DEF Call
  <2>3. Step(a, k)
    BY <2>1
  <2> HIDE DEF k
  <2> QED
    BY <1>0, <2>2, <2>3 DEF Step, TypeOK
<1> HIDE DEF O
<1>8. WalkOf(call'[a], list, OwnedBy(dhandle'))
  BY <1>4, <1>7 DEF WalkOf
<1>9. OrderOf(call'[a], info', node', OwnedBy(dhandle'))
  BY <1>4, <1>6, <1>7, <1>8 DEF OrderOf
<1> QED
  BY <1>6, <1>7, <1>9, OrderStep DEF O

(* A walk does not care how the raise holds its decider.                   *)
LEMMA OrderAbandon ==
  ASSUME OrderInv, NodeInv', NEW a \in Actors,
         Abandon(a) \/ AbandonResume(a) \/ AbandonResumeLocked(a)
  PROVE  OrderInv'
<1> DEFINE c == call[a].item
           n == call[a].current
           O == OwnedBy(dhandle)
<1>0. /\ IType /\ TypeOK /\ call[a] \in Call /\ node \in [Nodes -> Decider]
      /\ Within(call[a], info) /\ Lists(info) /\ OrderOf(call[a], info, node, O)
      /\ call[a].must \subseteq Nodes /\ call[a].seen \subseteq Nodes
  BY CallType, NodeFacts DEF OrderInv, NodeInv, Lifetime, IType, TypeOK
<1>1. /\ call[a].pc \in InsidePCs /\ dhandle' = dhandle
      /\ \E p \in InsidePCs : Step(a, [call[a] EXCEPT !.pc = p])
  BY DEF Abandon, AbandonResume, AbandonResumeLocked, At, handles, InsidePCs
<1>2. c \in Containers /\ n \in Nodes
  BY <1>0, <1>1, Members DEF Within, Lists
<1>3. /\ Evolves(info, info', node, node', O, OwnedBy(dhandle'))
      /\ \A d \in Containers : info'[d].global_handler = info[d].global_handler
      /\ \A m \in Nodes : node'[m].state = node[m].state
  <2>1. CASE AbandonResume(a)
    <3>1. info' = info /\ node' = node
      BY <2>1 DEF AbandonResume, registry
    <3> QED
      BY <1>1, <3>1, EvolvesSame
  <2>2. CASE Abandon(a) \/ AbandonResumeLocked(a)
    <3>1. node[n].refcount - 1 \in Int /\ node[n].refcount + 1 \in Int
      BY <1>0, <1>2, NodeType
    <3>2. ASSUME NEW x, NEW y \in Int,
                 info' = [info EXCEPT ![c].lifetime_refcount = x],
                 node' = [node EXCEPT ![n].refcount = y]
          PROVE  /\ Evolves(info, info', node, node', O, OwnedBy(dhandle'))
                 /\ \A d \in Containers : info'[d].global_handler = info[d].global_handler
                 /\ \A m \in Nodes : node'[m].state = node[m].state
      <4> HIDE DEF c, n
      <4> QED
        BY <1>0, <1>1, <1>2, <3>2, CountEvolves DEF O
    <3> DEFINE down == info[c].lifetime_refcount - 1
               up == info[c].lifetime_refcount + 1
               less == node[n].refcount - 1
               more == node[n].refcount + 1
    <3>3. \/ /\ info' = [info EXCEPT ![c].lifetime_refcount = down]
             /\ node' = [node EXCEPT ![n].refcount = less]
          \/ /\ info' = [info EXCEPT ![c].lifetime_refcount = up]
             /\ node' = [node EXCEPT ![n].refcount = more]
      BY <2>2 DEF Abandon, AbandonResumeLocked
    <3> HIDE DEF c, n, O, down, up
    <3> QED
      BY <3>1, <3>2, <3>3
  <2> QED
    BY <2>1, <2>2
<1>4. /\ call'[a].pc \in InsidePCs /\ call'[a].item = c /\ call'[a].current = n
      /\ call'[a].must = call[a].must /\ call'[a].seen = call[a].seen
      /\ \A b \in Actors : b # a => call'[b] = call[b]
  <2>1. PICK p \in InsidePCs : Step(a, [call[a] EXCEPT !.pc = p])
    BY <1>1
  <2> DEFINE k == [call[a] EXCEPT !.pc = p]
  <2>2. /\ k.pc = p /\ k.item = c /\ k.current = n
        /\ k.must = call[a].must /\ k.seen = call[a].seen
    BY <1>0 DEF Call
  <2>3. Step(a, k)
    BY <2>1
  <2> HIDE DEF k
  <2> QED
    BY <1>0, <2>2, <2>3 DEF Step, TypeOK
<1>5. WalkOf(call'[a], info'[c].global_handler, O)
  BY <1>0, <1>1, <1>2, <1>3, <1>4 DEF OrderOf, WalkOf
<1>6. OrderOf(call'[a], info', node', OwnedBy(dhandle'))
  BY <1>0, <1>1, <1>3, <1>4, <1>5 DEF OrderOf, InsidePCs
<1> QED
  BY <1>3, <1>4, <1>6, OrderStep

(* A raise drops its pin: only a node without a handle is unlinked.        *)
LEMMA UnpinnedEvolves ==
  ASSUME NodeInv, NEW a \in Actors, call[a].pc = "decider"
  PROVE  /\ \A d \in Containers :
              ListEvolves(info[d].global_handler, UnpinnedInfo(a)[d].global_handler,
                          node, OwnedBy(dhandle))
         /\ \A m \in Nodes : UnpinnedNode(a)[m].state = node[m].state
<1> DEFINE c == call[a].item
           n == call[a].current
           O == OwnedBy(dhandle)
<1>0. Lists(info)
  BY NodeFacts
<1>1. /\ \A d \in Containers : d # c => UnpinnedInfo(a)[d] = info[d]
      /\ node[n].refcount = 1 =>
           UnpinnedInfo(a)[c].global_handler = LIST_REMOVE(info[c].global_handler, n)
      /\ node[n].refcount # 1 =>
           UnpinnedInfo(a)[c].global_handler = info[c].global_handler
  BY UnpinnedLists
<1>2. /\ n \in O => node[n].refcount > 1
      /\ UnpinnedNode(a)[n].state = node[n].state
      /\ \A m \in Nodes : m # n => UnpinnedNode(a)[m] = node[m]
  BY UnpinnedCore
<1>3. node[n].refcount = 1 => n \notin O
  BY <1>2
<1> HIDE DEF c, n, O
<1>4. ASSUME NEW d \in Containers
      PROVE  ListEvolves(info[d].global_handler, UnpinnedInfo(a)[d].global_handler, node, O)
  <2>1. ListEvolves(info[d].global_handler, info[d].global_handler, node, O)
    BY DEF ListEvolves
  <2>2. CASE d = c /\ node[n].refcount = 1
    BY <1>0, <1>1, <1>3, <2>2, UnlinkEvolves DEF Lists
  <2>3. CASE d # c \/ node[n].refcount # 1
    BY <1>1, <2>1, <2>3
  <2> QED
    BY <2>2, <2>3
<1> QED
  BY <1>2, <1>4 DEF O

(* The decider after the current one, and what lies behind it.             *)
LEMMA WalkNext ==
  ASSUME NodeInv, NEW a \in Actors, call[a].pc = "decider",
         WalkOf(call[a], info[call[a].item].global_handler, OwnedBy(dhandle))
  PROVE  /\ NextDecider(a) = NULL =>
              \A x \in call[a].must \ call[a].seen : x \notin OwnedBy(dhandle)
         /\ NextDecider(a) # NULL =>
              /\ NextDecider(a) \in ToSet(info[call[a].item].global_handler)
              /\ NextDecider(a) # call[a].current /\ NextDecider(a) \notin call[a].seen
              /\ \A x \in call[a].seen : x \in ToSet(info[call[a].item].global_handler) =>
                   Before(info[call[a].item].global_handler, x, NextDecider(a))
              /\ \A x \in call[a].must \ call[a].seen : x \in OwnedBy(dhandle) =>
                   \/ x = NextDecider(a)
                   \/ Before(info[call[a].item].global_handler, NextDecider(a), x)
<1> DEFINE list == info[call[a].item].global_handler
           n == call[a].current
           m == NextDecider(a)
           O == OwnedBy(dhandle)
<1>1. list \in Seq(Nodes) /\ Distinct(list) /\ n \in ToSet(list) /\ m = NextIn(list, n)
  BY NodeFacts DEF Within, Lists, InsidePCs, NextDecider
<1>2. WalkOf(call[a], list, O)
  OBVIOUS
<1> HIDE DEF list, n, m, O
<1>3. CASE m = NULL
  <2>1. \A y : ~Before(list, n, y)
    BY <1>1, <1>3, NextNode, NullAssumption
  <2> QED
    BY <1>2, <1>3, <2>1 DEF WalkOf, n, m, O
<1>4. CASE m # NULL
  <2>1. /\ m \in ToSet(list) /\ Before(list, n, m)
        /\ \A y : Before(list, n, y) <=> y = m \/ Before(list, m, y)
    BY <1>1, <1>4, NextNode, NullAssumption
  <2>2. m # n
    BY <1>1, <2>1, BeforeOrder
  <2>3. ASSUME NEW x \in call[a].seen, x \in ToSet(list) PROVE Before(list, x, m)
    <3>1. x = n \/ Before(list, x, n)
      BY <1>2, <2>3 DEF WalkOf, n
    <3> QED
      BY <1>1, <2>1, <3>1, BeforeChain
  <2>4. m \notin call[a].seen
    <3>1. ~Before(list, m, m)
      BY <1>1, BeforeOrder
    <3> QED
      BY <2>1, <2>3, <3>1
  <2>5. \A x \in call[a].must \ call[a].seen : x \in O => x = m \/ Before(list, m, x)
    BY <1>2, <2>1 DEF WalkOf, n
  <2> QED
    BY <1>4, <2>1, <2>2, <2>3, <2>4, <2>5 DEF list, n, m, O
<1> QED
  BY <1>3, <1>4

(* A raise goes on to the next decider.                                    *)
LEMMA OrderWalk ==
  ASSUME OrderInv, NodeInv', NEW a \in Actors, DeciderNext(a)
  PROVE  OrderInv'
<1> DEFINE c == call[a].item
           n == call[a].current
           m == NextDecider(a)
           O == OwnedBy(dhandle)
           list == info[c].global_handler
           next == UnpinnedInfo(a)[c].global_handler
           x == UnpinnedNode(a)[m].refcount + 1
<1>0. /\ IType /\ TypeOK /\ call[a] \in Call /\ NodeInv /\ Lists(info)
      /\ OrderOf(call[a], info, node, O)
      /\ Within(call[a], info)
      /\ call[a].must \subseteq Nodes /\ call[a].seen \subseteq Nodes
      /\ NodeCore(LiveSet, Linked, Deferred, node, O, call)
  BY CallType, NodeFacts DEF OrderInv, NodeInv, Lifetime, IType, TypeOK, Core
<1>1. /\ call[a].pc = "decider" /\ m # NULL /\ dhandle' = dhandle
      /\ info' = UnpinnedInfo(a)
      /\ node' = [UnpinnedNode(a) EXCEPT ![m].refcount = x]
      /\ Step(a, [call[a] EXCEPT !.current = m, !.seen = call[a].seen \cup {m}])
  BY DEF DeciderNext, At, handles
<1>2. c \in Containers /\ list \in Seq(Nodes) /\ Distinct(list) /\ n \in ToSet(list)
  BY <1>0, <1>1 DEF Within, Lists, InsidePCs
<1>3. WalkOf(call[a], list, O)
  BY <1>0, <1>1 DEF OrderOf, InsidePCs
<1>4. /\ m \in ToSet(list) /\ m # n /\ m \notin call[a].seen
      /\ \A y \in call[a].seen : y \in ToSet(list) => Before(list, y, m)
      /\ \A y \in call[a].must \ call[a].seen : y \in O => y = m \/ Before(list, m, y)
  BY <1>0, <1>1, <1>3, WalkNext
<1>5. /\ \A d \in Containers : ListEvolves(info[d].global_handler, info'[d].global_handler, node, O)
      /\ \A y \in Nodes : UnpinnedNode(a)[y].state = node[y].state
      /\ UnpinnedNode(a) \in [Nodes -> Decider]
  BY <1>0, <1>1, UnpinnedEvolves, UnpinnedCore
<1>6. m \in Nodes /\ node[m].state = "live"
  BY <1>0, <1>2, <1>4 DEF NodeCore, Placed, Linked
<1>7. x \in Int
  BY <1>5, <1>6, NodeType
<1>8. m \in ToSet(next)
  <2>1. IF node[n].refcount = 1
        THEN UnpinnedLinked(a)[c] = Linked[c] \ {n} ELSE UnpinnedLinked(a)[c] = Linked[c]
    BY <1>0, <1>1, UnpinnedLists
  <2>2. m \in UnpinnedLinked(a)[c]
    BY <1>2, <1>4, <2>1 DEF Linked
  <2> QED
    BY <1>2, <2>2 DEF UnpinnedLinked
<1> HIDE DEF m, x
<1>9. \A y \in Nodes : node'[y].state = node[y].state
  BY <1>1, <1>5, <1>6, <1>7, NodeCount
<1>10. Evolves(info, info', node, node', O, OwnedBy(dhandle'))
  BY <1>1, <1>5, <1>9 DEF Evolves
<1>11. /\ call'[a].pc = "decider" /\ call'[a].item = c /\ call'[a].current = m
       /\ call'[a].must = call[a].must /\ call'[a].seen = call[a].seen \cup {m}
       /\ \A b \in Actors : b # a => call'[b] = call[b]
  <2> DEFINE k == [call[a] EXCEPT !.current = m, !.seen = call[a].seen \cup {m}]
  <2>1. /\ k.pc = call[a].pc /\ k.item = c /\ k.current = m
        /\ k.must = call[a].must /\ k.seen = call[a].seen \cup {m}
    BY <1>0 DEF Call
  <2>2. Step(a, k)
    BY <1>1
  <2> HIDE DEF k
  <2> QED
    BY <1>0, <1>1, <2>1, <2>2 DEF Step, TypeOK
<1>12. ListEvolves(list, next, node, O)
  BY <1>1, <1>2, <1>5
<1>13. info'[c].global_handler = next
  BY <1>1
<1>14. \A y \in call[a].must \cup call[a].seen : y \in Nodes /\ node[y].state # "unused"
  BY <1>0 DEF OrderOf
<1> HIDE DEF c, n, O, list, next
<1>15. ASSUME NEW y \in call'[a].seen, y \in ToSet(next)
       PROVE  y = m \/ Before(next, y, m)
  <2>1. CASE y = m
    BY <2>1
  <2>2. CASE y # m
    <3>1. y \in call[a].seen
      BY <1>11, <1>15, <2>2
    <3>2. y \in ToSet(list)
      BY <1>12, <1>14, <1>15, <3>1 DEF ListEvolves
    <3> QED
      BY <1>4, <1>8, <1>12, <1>15, <3>1, <3>2 DEF ListEvolves
  <2> QED
    BY <2>1, <2>2
<1>16. ASSUME NEW y \in call'[a].must \ call'[a].seen, y \in O
       PROVE  Before(next, m, y)
  <2>1. y \in call[a].must \ call[a].seen /\ y # m
    BY <1>11, <1>16
  <2>2. Before(list, m, y)
    BY <1>4, <1>16, <2>1
  <2>3. y \in ToSet(list)
    BY <1>2, <2>2, BeforeOrder
  <2> QED
    BY <1>8, <1>12, <1>16, <2>2, <2>3 DEF ListEvolves
<1>17. WalkOf(call'[a], next, O)
  BY <1>11, <1>15, <1>16 DEF WalkOf
<1>18. OrderOf(call'[a], info', node', O)
  BY <1>6, <1>9, <1>11, <1>13, <1>14, <1>17 DEF OrderOf
<1> QED
  BY <1>1, <1>10, <1>11, <1>18, OrderStep DEF O

(* A raise leaves its last decider.                                        *)
LEMMA OrderLeave ==
  ASSUME OrderInv, NodeInv', NEW a \in Actors, DeciderExhausted(a) \/ DeciderClaims(a)
  PROVE  OrderInv'
<1> DEFINE c == call[a].item
           I == UnpinnedInfo(a)
           nd == UnpinnedNode(a)
           O == OwnedBy(dhandle)
           S == FreedByRelease(I, c)
<1>0. /\ IType /\ TypeOK /\ call[a] \in Call /\ NodeInv
      /\ OrderOf(call[a], info, node, O)
      /\ call[a].must \subseteq Nodes /\ call[a].seen \subseteq Nodes
  BY CallType, NodeFacts DEF OrderInv, NodeInv, Lifetime, IType, TypeOK
<1>1. /\ call[a].pc = "decider" /\ dhandle' = dhandle
      /\ info' = Release(I, c) /\ node' = FreeNodes(nd, S)
  BY DEF DeciderExhausted, DeciderClaims, At, handles, RaiseRelease
<1>2. I \in [Containers -> SighandlerInfo] /\ c \in Containers
  BY <1>0, <1>1, InsideType DEF InsidePCs
<1>3. /\ \A d \in Containers : ListEvolves(info[d].global_handler, I[d].global_handler, node, O)
      /\ \A m \in Nodes : nd[m].state = node[m].state
      /\ nd \in [Nodes -> Decider]
  BY <1>0, <1>1, UnpinnedEvolves, UnpinnedCore
<1> HIDE DEF c, I, nd, S
<1>4. \A d \in Containers : info'[d].state = "live" =>
        info'[d].global_handler = I[d].global_handler
  <2>1. /\ \A d \in Containers : d # c => info'[d] = I[d]
        /\ I[c].lifetime_refcount = 1 => info'[c].state = "freed"
    BY <1>1, <1>2, ReleaseCounts
  <2>2. I[c].lifetime_refcount # 1 => info'[c].global_handler = I[c].global_handler
    BY <1>1, <1>2, ReleaseLists
  <2> QED
    BY <2>1, <2>2
<1>5. \A m \in Nodes : node[m].state # "unused" => node'[m].state # "unused"
  BY <1>1, <1>3, FreedStates
<1>6. Evolves(info, info', node, node', O, OwnedBy(dhandle'))
  BY <1>1, <1>3, <1>4, <1>5 DEF Evolves
<1>7. CASE DeciderClaims(a)
  <2>1. Aside(a)
    BY <1>0, <1>7, ReturnAside DEF DeciderClaims
  <2> QED
    BY <1>6, <2>1, OrderAside
<1>8. CASE DeciderExhausted(a)
  <2>1. /\ call'[a].pc = "handoff"
        /\ call'[a].must = call[a].must /\ call'[a].seen = call[a].seen
        /\ \A b \in Actors : b # a => call'[b] = call[b]
    <3> DEFINE k == [call[a] EXCEPT !.pc = "handoff", !.item = NULL, !.current = NULL]
    <3>1. k.pc = "handoff" /\ k.must = call[a].must /\ k.seen = call[a].seen
      BY <1>0 DEF Call
    <3>2. Step(a, k)
      BY <1>8 DEF DeciderExhausted
    <3> HIDE DEF k
    <3> QED
      BY <1>0, <3>1, <3>2 DEF Step, TypeOK
  <2>2. \A x \in call[a].must \ call[a].seen : x \notin O
    <3>1. WalkOf(call[a], info[call[a].item].global_handler, O)
      BY <1>0, <1>1 DEF OrderOf, InsidePCs
    <3>2. NextDecider(a) = NULL
      BY <1>8 DEF DeciderExhausted
    <3> QED
      BY <1>0, <1>1, <3>1, <3>2, WalkNext
  <2>3. \A x \in call[a].must \cup call[a].seen : node'[x].state # "unused"
    BY <1>0, <1>5 DEF OrderOf
  <2>4. OrderOf(call'[a], info', node', OwnedBy(dhandle'))
    BY <1>1, <2>1, <2>2, <2>3 DEF OrderOf, InsidePCs
  <2> QED
    BY <1>6, <2>1, <2>4, OrderStep
<1> QED
  BY <1>7, <1>8

(* No raise is under way at the start.                                     *)
LEMMA OrderInit == Init => OrderInv
<1> SUFFICES ASSUME Init PROVE OrderInv
  OBVIOUS
<1>1. \A a \in Actors : call[a] = Idle
  BY DEF Init
<1>2. Idle.pc = "idle" /\ Idle.must = {} /\ Idle.seen = {}
  BY DEF Idle
<1>3. OrderOf(Idle, info, node, OwnedBy(dhandle))
  BY <1>2 DEF OrderOf, InsidePCs
<1> QED
  BY <1>1, <1>3, NodesInit DEF OrderInv

(* Every step of a careful client.                                         *)
LEMMA OrderNext ==
  ASSUME Careful
  PROVE  OrderInv /\ [Next]_vars => OrderInv'
<1> SUFFICES ASSUME OrderInv, [Next]_vars PROVE OrderInv'
  OBVIOUS
<1>1. NodeInv'
  BY NodesNext DEF OrderInv
<1>2. CASE UNCHANGED vars
  BY <1>1, <1>2 DEF OrderInv, vars
<1>3. ASSUME NEW a \in Actors, Install(a) PROVE OrderInv'
  BY <1>1, <1>3, OrderInstall, OrderUninstall DEF Install
<1>4. ASSUME NEW a \in Actors, Deciders(a) PROVE OrderInv'
  BY <1>1, <1>4, OrderTaken, OrderCreate, OrderDestroy, OrderOrphan DEF Deciders
<1>5. ASSUME NEW a \in Actors, Raise(a) PROVE OrderInv'
  BY <1>1, <1>5, OrderOutside, OrderEnter, OrderWalk, OrderLeave, OrderAbandon DEF Raise
<1> QED
  BY <1>1, <1>2, <1>3, <1>4, <1>5, OrderInvoke DEF Next

(* The invariant of the walks.                                             *)
LEMMA OrderInvariant ==
  ASSUME Careful
  PROVE  Spec => []OrderInv
<1>1. OrderInv /\ [Next]_vars => OrderInv'
  BY OrderNext
<1> QED
  BY <1>1, OrderInit, PTL DEF Spec

(* When stdc_raise() hands the signal on to the old handler it has called  *)
(* every decider that was registered when it began and still is, though    *)
(* others were created, destroyed and uninstalled while the lock was       *)
(* dropped around the calls.                                               *)
THEOREM RaisesComplete ==
  ASSUME Careful
  PROVE  Spec => []RaiseComplete
<1>1. OrderInv => RaiseComplete
  <2> SUFFICES ASSUME OrderInv, NEW a \in Actors, call[a].pc = "handoff",
                      NEW n \in call[a].must \ call[a].seen,
                      NEW h \in DeciderHandles, n \in ToSet(dhandle[h].slots)
               PROVE  FALSE
    BY DEF RaiseComplete
  <2>1. n \in Nodes
    BY NodeFacts DEF OrderInv
  <2>2. n \notin OwnedBy(dhandle)
    BY DEF OrderInv, OrderOf
  <2> QED
    BY <2>1, <2>2 DEF OwnedBy
<1> QED
  BY <1>1, OrderInvariant, PTL

(* A step of one call is not a step of another.                            *)
LEMMA OneActor ==
  ASSUME NEW a \in Actors, Install(a) \/ Deciders(a) \/ Raise(a) \/ Invoke(a)
  PROVE  \E k : Step(a, k)
<1>1. InstallDone(a) \/ Rollback(a) \/ UninstallDone(a) \/ SlotDone(a)
        \/ (\E p : CreateSlot(a, p)) \/ Return(a) => \E k : Step(a, k)
  BY DEF InstallDone, Rollback, UninstallDone, SlotDone, CreateSlot, Return
<1>2. ASSUME Install(a) PROVE \E k : Step(a, k)
  BY <1>1, <1>2 DEF Install, Siginstall, InstallFirst, InstallAgain, InstallFails,
                    InstallTssFails, Siguninstall, UninstallSighandler
<1>3. ASSUME Deciders(a) PROVE \E k : Step(a, k)
  BY <1>1, <1>3 DEF Deciders, SignalDeciderCreate, CreateUninstalled, CreateNode,
                    CreateFails, SignalDeciderDestroy, DestroyLocked,
                    DestroyUninstalled, OrphanLoad, OrphanStore
<1>4. ASSUME Raise(a) PROVE \E k : Step(a, k)
  BY <1>1, <1>4 DEF Raise, StdcRaise, RawSignalHandler, RaiseUninstalled, RaiseNoDecider,
                    RaiseEnter, DeciderNext, DeciderExhausted, DeciderClaims, Abandon,
                    LeaveAbandoned, AbandonResume, AbandonResumeLocked
<1>5. ASSUME Invoke(a) PROVE \E k : Step(a, k)
  BY <1>1, <1>5 DEF Invoke, InvokeOther, InvokeRawSignalHandler, InvokeDefault,
                    DefaultSet, DefaultKill, DefaultRestore
<1> QED
  BY <1>2, <1>3, <1>4, <1>5

(* A raise moves from one decider to another by DeciderNext alone.         *)
LEMMA MoveIsNext ==
  ASSUME TypeOK, Next, NEW a \in Actors, call[a].pc = "decider", call'[a].pc = "decider",
         call'[a].current # call[a].current
  PROVE  DeciderNext(a)
<1>1. PICK b \in Actors : Install(b) \/ Deciders(b) \/ Raise(b) \/ Invoke(b)
  BY DEF Next
<1>2. b = a
  <2>1. PICK k : Step(b, k)
    BY <1>1, OneActor
  <2> QED
    BY <2>1 DEF Step, TypeOK
<1>3. ~Install(a)
  BY DEF Install, Siginstall, InstallFirst, InstallAgain, InstallFails,
         InstallTssFails, Siguninstall, UninstallSighandler, At
<1>4. ~Deciders(a)
  BY DEF Deciders, SignalDeciderCreate, CreateUninstalled, CreateNode,
         CreateFails, SignalDeciderDestroy, DestroyLocked,
         DestroyUninstalled, OrphanLoad, OrphanStore, At
<1>5. ~Invoke(a)
  BY DEF Invoke, InvokeOther, InvokeRawSignalHandler, InvokeDefault,
         DefaultSet, DefaultKill, DefaultRestore, At
<1>6. DeciderNext(a) \/ DeciderExhausted(a) \/ DeciderClaims(a) \/ Abandon(a)
  BY <1>1, <1>2, <1>3, <1>4, <1>5 DEF Raise, StdcRaise, RawSignalHandler,
     RaiseUninstalled, RaiseNoDecider, RaiseEnter, LeaveAbandoned, AbandonResume,
     AbandonResumeLocked, At
<1>7. call[a] \in Call
  BY CallType
<1>8. ~(DeciderExhausted(a) \/ Abandon(a))
  <2> DEFINE j == [call[a] EXCEPT !.pc = "handoff", !.item = NULL, !.current = NULL]
             k == [call[a] EXCEPT !.pc = "abandoned"]
  <2>1. j.pc = "handoff" /\ k.pc = "abandoned"
    BY <1>7 DEF Call
  <2>2. DeciderExhausted(a) \/ Abandon(a) => Step(a, j) \/ Step(a, k)
    BY DEF DeciderExhausted, Abandon
  <2> HIDE DEF j, k
  <2> QED
    BY <2>1, <2>2 DEF Step, TypeOK
<1>9. ~DeciderClaims(a)
  BY IdleType DEF DeciderClaims, Return, Step, TypeOK
<1> QED
  BY <1>6, <1>8, <1>9

(* One stdc_raise() calls no decider twice, though the list is relinked    *)
(* between the calls and a destroyed decider moves to deferred_frees.      *)
THEOREM NeverCalledTwice ==
  ASSUME Careful
  PROVE  Spec => NoDeciderTwice
<1> DEFINE Fresh == \A a \in Actors : call[a].pc = "decider" /\ call'[a].pc = "decider"
                                      /\ call'[a].current # call[a].current
                      => call'[a].current \notin call[a].seen
<1>1. OrderInv /\ [Next]_vars => [Fresh]_vars
  <2> SUFFICES ASSUME OrderInv, Next, NEW a \in Actors, call[a].pc = "decider",
                      call'[a].pc = "decider", call'[a].current # call[a].current
               PROVE  call'[a].current \notin call[a].seen
    OBVIOUS
  <2>0. /\ TypeOK /\ NodeInv /\ call[a] \in Call
        /\ WalkOf(call[a], info[call[a].item].global_handler, OwnedBy(dhandle))
    BY CallType DEF OrderInv, NodeInv, Lifetime, IType, OrderOf, InsidePCs
  <2>1. DeciderNext(a)
    BY <2>0, MoveIsNext
  <2> DEFINE m == NextDecider(a)
             k == [call[a] EXCEPT !.current = m, !.seen = call[a].seen \cup {m}]
  <2>2. m # NULL /\ Step(a, k)
    BY <2>1 DEF DeciderNext
  <2>3. m \notin call[a].seen
    BY <2>0, <2>2, WalkNext
  <2> HIDE DEF m
  <2>4. k.current = m
    BY <2>0 DEF Call
  <2> HIDE DEF k
  <2>5. call'[a].current = m
    BY <2>0, <2>2, <2>4 DEF Step, TypeOK
  <2> QED
    BY <2>3, <2>5
<1> QED
  BY <1>1, OrderInvariant, PTL DEF Spec, NoDeciderTwice
=============================================================================
