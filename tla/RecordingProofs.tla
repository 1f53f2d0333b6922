--------------------------- MODULE RecordingProofs ---------------------------
(***************************************************************************)
(* What holds of a command pool at work (module MCRecording), for blocks   *)
(* of every size, pools of every length, and all programs, passes and      *)
(* images.                                                                 *)
(*                                                                         *)
(*  - The consecutive pool hands out no block twice, loses blocks in one   *)
(*    way only, and frees without splitting free runs.  HeldOnce is        *)
(*    inductive as it stands; its proof needs the entries of the list      *)
(*    after each of the ways the code relinks it.                          *)
(*  - The lists of a command buffer are written beyond their blocks by no  *)
(*    more than the code's own slips, and relocations name the words with  *)
(*    handle indices.  What is inductive is where lists end: the bin list  *)
(*    may end four bytes beyond its blocks after an indexed draw.          *)
(*  - Command buffers of a pool conserve its blocks, and the indices they  *)
(*    copy from each other name the handles they are meant to.  What is    *)
(*    inductive says where each word's handle is, and that secondary       *)
(*    buffers are translated with handles of their own job.                *)
(***************************************************************************)
EXTENDS MCRecording, FiniteSetTheorems, SequenceTheorems, WellFoundedInduction, NaturalsInduction, TLAPS

-----------------------------------------------------------------------------
(* Steps one after the other.  An induction theorem with an operator as    *)
(* its parameter cannot be used, so the induction is over a set.           *)
LEMMA Upward ==
  ASSUME NEW T, 0 \in T, \A n \in Nat : n \in T => n + 1 \in T
  PROVE  Nat \subseteq T
<1> SUFFICES ASSUME Nat \ T # {}  PROVE  FALSE
  OBVIOUS
<1>1. PICK x \in Nat \ T : \A y \in Nat \ T : ~ (<<y, x>> \in OpToRel(<, Nat))
  BY NatLessThanWellFounded, WFMin, Zenon
<1>2. \A y \in Nat \ T : ~ (y < x)
  BY <1>1 DEF OpToRel
<1>3. x - 1 \in Nat /\ x - 1 \notin Nat \ T
  BY <1>2
<1>4. x - 1 + 1 \in T
  BY <1>3
<1> QED
  BY <1>4

(* A function that is given for 0 and step by step exists.                 *)
Stepwise(f, S, a, G, m) ==
  f \in [0 .. m -> S] /\ f[0] = a /\ \A n \in 1 .. m : f[n] = G[<<f[n - 1], n>>]

LEMMA StepByStep ==
  ASSUME NEW S, NEW a \in S, NEW G \in [S \X Nat -> S], NEW m \in Nat
  PROVE  \E f : Stepwise(f, S, a, G, m)
<1> DEFINE Steps(k, f) == f[0] = a /\ \A n \in 1 .. k : f[n] = G[<<f[n - 1], n>>]
           T == {k \in Nat : \E f \in [0 .. k -> S] : Steps(k, f)}
<1>1. 0 \in T
  <2>1. [i \in 0 .. 0 |-> a] \in [0 .. 0 -> S] /\ Steps(0, [i \in 0 .. 0 |-> a])
    OBVIOUS
  <2> QED
    BY <2>1
<1>2. ASSUME NEW k \in Nat, k \in T  PROVE  k + 1 \in T
  <2>1. PICK f \in [0 .. k -> S] : Steps(k, f)
    BY <1>2
  <2>2. f[k] \in S /\ <<f[k], k + 1>> \in S \X Nat
    OBVIOUS
  <2>3. PICK v \in S : v = G[<<f[k], k + 1>>]
    BY <2>2
  <2>4. PICK g \in [0 .. k + 1 -> S] : g = [i \in 0 .. k + 1 |-> IF i = k + 1 THEN v ELSE f[i]]
    <3>1. \A i \in 0 .. k + 1 : (IF i = k + 1 THEN v ELSE f[i]) \in S
      OBVIOUS
    <3> QED
      BY <3>1
  <2>5. g[k + 1] = v /\ \A i \in 0 .. k : g[i] = f[i]
    BY <2>4
  <2>6. Steps(k + 1, g)
    <3>1. g[0] = a
      BY <2>1, <2>5
    <3>2. ASSUME NEW n \in 1 .. k + 1  PROVE  g[n] = G[<<g[n - 1], n>>]
      <4>1. CASE n = k + 1
        BY <2>3, <2>5, <4>1
      <4>2. CASE n # k + 1
        <5>1. n \in 1 .. k /\ n \in 0 .. k /\ n - 1 \in 0 .. k
          BY <4>2
        <5> QED
          BY <2>1, <2>5, <5>1
      <4> QED
        BY <4>1, <4>2
    <3> QED
      BY <3>1, <3>2
  <2> QED
    BY <2>6
<1>3. Nat \subseteq T
  <2> HIDE DEF T
  <2> QED
    BY <1>1, <1>2, Upward
<1>4. PICK f \in [0 .. m -> S] : Steps(m, f)
  BY <1>3
<1> QED
  BY <1>4 DEF Stepwise

LEMMA LastOfSteps ==
  ASSUME NEW S, NEW m \in Nat, NEW f, f[0] \in S,
         \A n \in 1 .. m : f[n - 1] \in S => f[n] \in S
  PROVE  f[m] \in S
<1> DEFINE T == {n \in Nat : n \in 0 .. m => f[n] \in S}
<1>1. 0 \in T
  OBVIOUS
<1>2. ASSUME NEW n \in Nat, n \in T  PROVE  n + 1 \in T
  <2>1. ASSUME n + 1 \in 0 .. m  PROVE  f[n + 1] \in S
    <3>1. PICK k \in 1 .. m : k = n + 1 /\ k - 1 = n
      BY <2>1
    <3>2. f[n] \in S
      BY <1>2, <2>1
    <3> QED
      BY <3>1, <3>2
  <2> QED
    BY <2>1
<1>3. m \in T
  <2> HIDE DEF T
  <2> QED
    BY <1>1, <1>2, Upward
<1> QED
  BY <1>3

LEMMA StepsReach ==
  ASSUME NEW R, NEW m \in Nat, NEW f, <<0, f[0]>> \in R,
         \A n \in 1 .. m : <<n - 1, f[n - 1]>> \in R => <<n, f[n]>> \in R
  PROVE  <<m, f[m]>> \in R
<1> DEFINE T == {n \in Nat : n \in 0 .. m => <<n, f[n]>> \in R}
<1>1. 0 \in T
  OBVIOUS
<1>2. ASSUME NEW n \in Nat, n \in T  PROVE  n + 1 \in T
  <2>1. ASSUME n + 1 \in 0 .. m  PROVE  <<n + 1, f[n + 1]>> \in R
    <3>1. PICK k \in 1 .. m : k = n + 1 /\ k - 1 = n
      BY <2>1
    <3>2. <<n, f[n]>> \in R
      BY <1>2, <2>1
    <3> QED
      BY <3>1, <3>2
  <2> QED
    BY <2>1
<1>3. m \in T
  <2> HIDE DEF T
  <2> QED
    BY <1>1, <1>2, Upward
<1> QED
  BY <1>3

-----------------------------------------------------------------------------
(* The blocks on a list, and a list without repetitions.                   *)
Listing(list) == {list[i] : i \in DOMAIN list}
ListOK(list) == list \in Seq(C!Blocks) /\ C!IsInjective(list)

(* A list with the entries rs behind place i.                              *)
put(list, i, rs) == SubSeq(list, 1, i) \o rs \o SubSeq(list, i + 1, Len(list))

-----------------------------------------------------------------------------
(* The list after n entries from place i on were taken out.                *)
LEMMA CutEntries ==
  ASSUME NEW S, NEW list \in Seq(S), NEW i \in 1 .. Len(list), NEW n \in Nat \ {0},
         i + n - 1 <= Len(list)
  PROVE  /\ C!without(list, i, n) \in Seq(S)
         /\ Len(C!without(list, i, n)) = Len(list) - n
         /\ \A k \in 1 .. Len(list) - n :
              C!without(list, i, n)[k] = IF k < i THEN list[k] ELSE list[k + n]
<1>1. PICK m \in Nat : m = Len(list)
  OBVIOUS
<1>2. \A k \in 1 .. m : list[k] \in S
  BY <1>1
<1>3. PICK a : a = SubSeq(list, 1, i - 1)
  OBVIOUS
<1>4. PICK b : b = SubSeq(list, i + n, m)
  OBVIOUS
<1>5. a \in Seq(S) /\ Len(a) = i - 1 /\ \A k \in 1 .. i - 1 : a[k] = list[k]
  <2>1. 1 \in Int /\ i - 1 \in Int /\ \A k \in 1 .. i - 1 : list[k] \in S
    BY <1>1, <1>2
  <2>2. /\ a \in Seq(S)
        /\ Len(a) = IF 1 <= i - 1 THEN (i - 1) - 1 + 1 ELSE 0
        /\ \A k \in 1 .. (i - 1) - 1 + 1 : a[k] = list[1 + k - 1]
    BY <1>3, <2>1, SubSeqProperties
  <2> QED
    BY <2>2
<1>6. b \in Seq(S) /\ Len(b) = m - (i + n) + 1 /\ \A k \in 1 .. m - (i + n) + 1 : b[k] = list[i + n + k - 1]
  <2>1. PICK l \in Nat : l = i + n
    OBVIOUS
  <2>2. b = SubSeq(list, l, m) /\ l \in Int /\ m \in Int /\ \A k \in l .. m : list[k] \in S
    BY <1>1, <1>2, <1>4, <2>1
  <2>3. /\ b \in Seq(S)
        /\ Len(b) = IF l <= m THEN m - l + 1 ELSE 0
        /\ \A k \in 1 .. m - l + 1 : b[k] = list[l + k - 1]
    BY <2>2, SubSeqProperties, SMTT(30)
  <2>4. l <= m \/ l = m + 1
    BY <1>1, <2>1
  <2> QED
    BY <2>1, <2>3, <2>4
<1>7. PICK c : c = a \o b
  OBVIOUS
<1>8. /\ c \in Seq(S) /\ Len(c) = Len(a) + Len(b)
      /\ \A k \in 1 .. Len(a) + Len(b) : c[k] = IF k <= Len(a) THEN a[k] ELSE b[k - Len(a)]
  BY <1>5, <1>6, <1>7, ConcatProperties
<1>9. Len(c) = m - n
  BY <1>1, <1>5, <1>6, <1>8
<1>10. \A k \in 1 .. m - n : c[k] = IF k < i THEN list[k] ELSE list[k + n]
  <2>1. TAKE k \in 1 .. m - n
  <2>2. CASE k < i
    BY <2>2, <1>5, <1>6, <1>8, <1>9
  <2>3. CASE ~ (k < i)
    <3>1. k - (i - 1) \in 1 .. m - (i + n) + 1 /\ i + n + (k - (i - 1)) - 1 = k + n
      BY <2>3, <1>1
    <3>2. c[k] = b[k - (i - 1)]
      BY <2>3, <1>5, <1>6, <1>8, <1>9
    <3> QED
      BY <2>3, <3>1, <3>2, <1>6
  <2> QED
    BY <2>2, <2>3
<1>11. c = C!without(list, i, n)
  BY <1>1, <1>3, <1>4, <1>7 DEF C!without
<1> QED
  BY <1>1, <1>8, <1>9, <1>10, <1>11

LEMMA PutEntries ==
  ASSUME NEW S, NEW list \in Seq(S), NEW rs \in Seq(S), NEW i \in 0 .. Len(list)
  PROVE  /\ put(list, i, rs) \in Seq(S)
         /\ Len(put(list, i, rs)) = Len(list) + Len(rs)
         /\ \A k \in 1 .. Len(list) + Len(rs) :
              put(list, i, rs)[k] =
                     IF k <= i THEN list[k]
                     ELSE IF k <= i + Len(rs) THEN rs[k - i] ELSE list[k - Len(rs)]
<1>1. PICK m \in Nat, n \in Nat : m = Len(list) /\ n = Len(rs)
  OBVIOUS
<1>2. \A k \in 1 .. m : list[k] \in S
  BY <1>1
<1>3. PICK a : a = SubSeq(list, 1, i)
  OBVIOUS
<1>4. PICK b : b = SubSeq(list, i + 1, m)
  OBVIOUS
<1>5. a \in Seq(S) /\ Len(a) = i /\ \A k \in 1 .. i : a[k] = list[k]
  <2>1. 1 \in Int /\ i \in Int /\ \A k \in 1 .. i : list[k] \in S
    BY <1>1, <1>2
  <2>2. /\ a \in Seq(S)
        /\ Len(a) = IF 1 <= i THEN i - 1 + 1 ELSE 0
        /\ \A k \in 1 .. i - 1 + 1 : a[k] = list[1 + k - 1]
    BY <1>3, <2>1, SubSeqProperties
  <2> QED
    BY <2>2
<1>6. b \in Seq(S) /\ Len(b) = m - i /\ \A k \in 1 .. m - i : b[k] = list[i + k]
  <2>1. i + 1 \in Int /\ m \in Int /\ \A k \in i + 1 .. m : list[k] \in S
    BY <1>1, <1>2
  <2>2. /\ b \in Seq(S)
        /\ Len(b) = IF i + 1 <= m THEN m - (i + 1) + 1 ELSE 0
        /\ \A k \in 1 .. m - (i + 1) + 1 : b[k] = list[i + 1 + k - 1]
    BY <1>4, <2>1, SubSeqProperties
  <2>3. i \in 0 .. m
    BY <1>1
  <2>4. Len(b) = m - i
    BY <2>2, <2>3
  <2>5. ASSUME NEW k \in 1 .. m - i PROVE b[k] = list[i + k]
    <3>1. k \in 1 .. m - (i + 1) + 1 /\ i + 1 + k - 1 = i + k
      BY <2>3
    <3> QED
      BY <2>2, <3>1
  <2> QED
    BY <2>2, <2>4, <2>5
<1>7. PICK c : c = a \o rs
  OBVIOUS
<1>8. /\ c \in Seq(S) /\ Len(c) = i + n
      /\ \A k \in 1 .. i + n : c[k] = IF k <= i THEN a[k] ELSE rs[k - i]
  BY <1>1, <1>5, <1>7, ConcatProperties
<1>9. PICK h : h = c \o b
  OBVIOUS
<1>10. /\ h \in Seq(S) /\ Len(h) = m + n
       /\ \A k \in 1 .. m + n : h[k] = IF k <= i + n THEN c[k] ELSE b[k - (i + n)]
  <2>1. /\ h \in Seq(S) /\ Len(h) = Len(c) + Len(b)
        /\ \A k \in 1 .. Len(c) + Len(b) : h[k] = IF k <= Len(c) THEN c[k] ELSE b[k - Len(c)]
    BY <1>6, <1>8, <1>9, ConcatProperties
  <2>2. Len(c) + Len(b) = m + n
    BY <1>1, <1>6, <1>8
  <2> QED
    BY <2>1, <2>2, <1>8
<1>11. put(list, i, rs) = h
  BY <1>1, <1>3, <1>4, <1>7, <1>9 DEF put
<1>12. ASSUME NEW k \in 1 .. m + n
       PROVE  h[k] = IF k <= i THEN list[k] ELSE IF k <= i + n THEN rs[k - i] ELSE list[k - n]
  <2>1. CASE k <= i
    BY <2>1, <1>1, <1>5, <1>8, <1>10
  <2>2. CASE ~ (k <= i) /\ k <= i + n
    BY <2>2, <1>1, <1>8, <1>10
  <2>3. CASE ~ (k <= i + n)
    <3>1. k - (i + n) \in 1 .. m - i /\ i + (k - (i + n)) = k - n /\ ~ (k <= i)
      BY <2>3, <1>1
    <3> QED
      BY <2>3, <3>1, <1>6, <1>10
  <2> QED
    BY <2>1, <2>2, <2>3
<1> QED
  BY <1>1, <1>10, <1>11, <1>12
-----------------------------------------------------------------------------
(* What is on the list after that.                                         *)
LEMMA CutListing ==
  ASSUME NEW list, ListOK(list), NEW i \in 1 .. Len(list), NEW n \in Nat \ {0},
         i + n - 1 <= Len(list)
  PROVE  /\ ListOK(C!without(list, i, n))
         /\ Listing(C!without(list, i, n)) = Listing(list) \ {list[k] : k \in i .. i + n - 1}
<1>1. list \in Seq(C!Blocks)
  BY DEF ListOK
<1>2. PICK m \in Nat : m = Len(list)
  BY <1>1
<1>3. PICK g : g = C!without(list, i, n)
  OBVIOUS
<1>4. /\ g \in Seq(C!Blocks) /\ Len(g) = m - n
      /\ \A k \in 1 .. m - n : g[k] = IF k < i THEN list[k] ELSE list[k + n]
  BY <1>1, <1>2, <1>3, CutEntries
<1>5. DOMAIN g = 1 .. m - n /\ DOMAIN list = 1 .. m
  BY <1>1, <1>2, <1>4, LenProperties
<1>6. \A j, k \in 1 .. m : list[j] = list[k] => j = k
  BY <1>5 DEF ListOK, C!IsInjective
<1>7. PICK at : at = [k \in 1 .. m - n |-> IF k < i THEN k ELSE k + n]
  OBVIOUS
<1>8. \A k \in 1 .. m - n : /\ at[k] \in 1 .. m /\ at[k] \notin i .. i + n - 1
                            /\ g[k] = list[at[k]]
  BY <1>2, <1>4, <1>7
<1>9. \A j, k \in 1 .. m - n : at[j] = at[k] => j = k
  BY <1>2, <1>7
<1>10. \A j \in 1 .. m : j \notin i .. i + n - 1 => \E k \in 1 .. m - n : at[k] = j
  <2>1. TAKE j \in 1 .. m
  <2>2. HAVE j \notin i .. i + n - 1
  <2>3. CASE j < i
    <3>1. j \in 1 .. m - n
      BY <2>3, <1>2
    <3> QED
      BY <2>3, <3>1, <1>7
  <2>4. CASE ~ (j < i)
    <3>1. j - n \in 1 .. m - n /\ ~ (j - n < i) /\ (j - n) + n = j
      BY <2>2, <2>4, <1>2
    <3> QED
      BY <3>1, <1>7
  <2> QED
    BY <2>3, <2>4
<1>11. C!IsInjective(g)
  BY <1>5, <1>6, <1>8, <1>9 DEF C!IsInjective
<1>12. ASSUME NEW x PROVE x \in Listing(g) <=> x \in Listing(list) \ {list[k] : k \in i .. i + n - 1}
  <2>1. ASSUME NEW k \in 1 .. m - n
        PROVE  g[k] \in Listing(list) \ {list[j] : j \in i .. i + n - 1}
    <3>1. \A j \in i .. i + n - 1 : j \in 1 .. m
      BY <1>2
    <3> QED
      BY <3>1, <1>5, <1>6, <1>8 DEF Listing
  <2>2. ASSUME NEW j \in 1 .. m, j \notin i .. i + n - 1 PROVE list[j] \in Listing(g)
    BY <2>2, <1>5, <1>8, <1>10 DEF Listing
  <2> QED
    BY <2>1, <2>2, <1>5 DEF Listing
<1>13. Listing(g) = Listing(list) \ {list[k] : k \in i .. i + n - 1}
  BY <1>12
<1> QED
  BY <1>3, <1>4, <1>11, <1>13 DEF ListOK

LEMMA PutListing ==
  ASSUME NEW list, ListOK(list), NEW rs, ListOK(rs), Listing(list) \cap Listing(rs) = {},
         NEW i \in 0 .. Len(list)
  PROVE  /\ ListOK(put(list, i, rs))
         /\ Listing(put(list, i, rs)) = Listing(list) \cup Listing(rs)
<1>1. list \in Seq(C!Blocks) /\ rs \in Seq(C!Blocks)
  BY DEF ListOK
<1>2. PICK m \in Nat, n \in Nat : m = Len(list) /\ n = Len(rs)
  BY <1>1
<1>3. PICK h : h = put(list, i, rs)
  OBVIOUS
<1>4. /\ h \in Seq(C!Blocks) /\ Len(h) = m + n
      /\ \A k \in 1 .. m + n : h[k] = IF k <= i THEN list[k]
                                      ELSE IF k <= i + n THEN rs[k - i] ELSE list[k - n]
  <2>1. /\ put(list, i, rs) \in Seq(C!Blocks)
        /\ Len(put(list, i, rs)) = Len(list) + Len(rs)
        /\ \A k \in 1 .. Len(list) + Len(rs) :
             put(list, i, rs)[k] =
                    IF k <= i THEN list[k]
                    ELSE IF k <= i + Len(rs) THEN rs[k - i] ELSE list[k - Len(rs)]
    BY <1>1, PutEntries, ZenonT(30)
  <2> QED
    BY <2>1, <1>2, <1>3
<1>5. DOMAIN h = 1 .. m + n /\ DOMAIN list = 1 .. m /\ DOMAIN rs = 1 .. n
  BY <1>1, <1>2, <1>4, LenProperties
<1>6. /\ \A j, k \in 1 .. m : list[j] = list[k] => j = k
      /\ \A j, k \in 1 .. n : rs[j] = rs[k] => j = k
      /\ \A j \in 1 .. m, k \in 1 .. n : list[j] # rs[k]
  <2>1. C!IsInjective(list) /\ C!IsInjective(rs)
    BY DEF ListOK
  <2>2. \A j \in 1 .. m, k \in 1 .. n : list[j] \in Listing(list) /\ rs[k] \in Listing(rs)
    BY <1>5 DEF Listing
  <2>3. \A j, k \in 1 .. m : list[j] = list[k] => j = k
    BY <2>1, <1>5 DEF C!IsInjective
  <2>4. \A j, k \in 1 .. n : rs[j] = rs[k] => j = k
    BY <2>1, <1>5 DEF C!IsInjective
  <2> QED
    BY <2>2, <2>3, <2>4
<1>7. \A k \in 1 .. m + n :
        \/ k <= i /\ k \in 1 .. m /\ h[k] = list[k]
        \/ ~ (k <= i) /\ k <= i + n /\ k - i \in 1 .. n /\ h[k] = rs[k - i]
        \/ ~ (k <= i + n) /\ ~ (k <= i) /\ k - n \in 1 .. m /\ h[k] = list[k - n]
  BY <1>2, <1>4
<1>8. ASSUME NEW j \in 1 .. m + n, NEW k \in 1 .. m + n, h[j] = h[k] PROVE j = k
  <2>1. CASE j <= i
    BY <2>1, <1>2, <1>6, <1>7, <1>8
  <2>2. CASE ~ (j <= i) /\ j <= i + n
    <3>1. j - i \in 1 .. n /\ h[j] = rs[j - i]
      BY <2>2, <1>7
    <3>2. ~ (k <= i) /\ k <= i + n /\ k - i \in 1 .. n /\ h[k] = rs[k - i]
      BY <3>1, <1>6, <1>7, <1>8
    <3>3. j - i = k - i
      BY <3>1, <3>2, <1>6, <1>8
    <3> QED
      BY <3>3
  <2>3. CASE ~ (j <= i + n)
    BY <2>3, <1>2, <1>6, <1>7, <1>8, SMTT(30)
  <2> QED
    BY <2>1, <2>2, <2>3
<1>9. Listing(h) \subseteq Listing(list) \cup Listing(rs)
  BY <1>5, <1>7 DEF Listing
<1>10. \A k \in 1 .. m : list[k] \in Listing(h)
  <2>1. TAKE k \in 1 .. m
  <2>2. CASE k <= i
    <3>1. k \in 1 .. m + n /\ h[k] = list[k]
      BY <2>2, <1>4
    <3> QED
      BY <3>1, <1>5 DEF Listing
  <2>3. CASE ~ (k <= i)
    <3>1. k + n \in 1 .. m + n /\ ~ (k + n <= i) /\ ~ (k + n <= i + n) /\ (k + n) - n = k
      BY <2>3
    <3>2. h[k + n] = list[k]
      BY <3>1, <1>4
    <3> QED
      BY <3>1, <3>2, <1>5 DEF Listing
  <2> QED
    BY <2>2, <2>3
<1>11. \A k \in 1 .. n : rs[k] \in Listing(h)
  <2>1. TAKE k \in 1 .. n
  <2>2. k + i \in 1 .. m + n /\ ~ (k + i <= i) /\ k + i <= i + n /\ (k + i) - i = k
    BY <1>2
  <2>3. h[k + i] = rs[k]
    BY <2>2, <1>4
  <2> QED
    BY <2>2, <2>3, <1>5 DEF Listing
<1>12. Listing(h) = Listing(list) \cup Listing(rs)
  BY <1>5, <1>9, <1>10, <1>11 DEF Listing
<1>13. C!IsInjective(h)
  BY <1>5, <1>8 DEF C!IsInjective
<1> QED
  BY <1>3, <1>4, <1>12, <1>13 DEF ListOK
-----------------------------------------------------------------------------
(* Runs.                                                                   *)

(* The runs rs are of blocks of the pool, and no two of them share one.    *)
RunsOK(rs) ==
  /\ rs \subseteq [first : C!Blocks, len : 1 .. MaxRun]
  /\ \A r \in rs : C!blocksOf(r) \subseteq C!Blocks
  /\ \A r, s \in rs : r # s => C!blocksOf(r) \cap C!blocksOf(s) = {}

Apart(list, rs) == \A r \in rs : C!blocksOf(r) \cap Listing(list) = {}

(* The free list and the held runs, as HeldOnce has them.                  *)
Kept(list, rs) == ListOK(list) /\ RunsOK(rs) /\ Apart(list, rs)

LEMMA RunFields ==
  ASSUME NEW x \in C!Blocks, NEW n \in 1 .. MaxRun
  PROVE  /\ C!Run(x, n) \in [first : C!Blocks, len : 1 .. MaxRun]
         /\ C!Run(x, n).first = x /\ C!Run(x, n).len = n
         /\ C!blocksOf(C!Run(x, n)) = x .. x + n - 1
BY DEF C!Run, C!blocksOf

LEMMA RunHasBlocks ==
  ASSUME NEW r \in [first : C!Blocks, len : 1 .. MaxRun]
  PROVE  /\ r.first \in C!Blocks /\ r.first \in Nat \ {0} /\ r.len \in Nat \ {0}
         /\ C!blocksOf(r) = r.first .. r.first + r.len - 1
         /\ r.first \in C!blocksOf(r)
         /\ r = C!Run(r.first, r.len)
<1>1. r.first \in C!Blocks /\ r.len \in 1 .. MaxRun
  OBVIOUS
<1>2. r.first \in Nat \ {0} /\ r.len \in Nat \ {0}
  BY <1>1, PartsAssumption DEF C!Blocks
<1> QED
  BY <1>1, <1>2 DEF C!blocksOf, C!Run

(* A run taken off the list.                                               *)
LEMMA TakenRun ==
  ASSUME NEW list, NEW rs, Kept(list, rs), NEW n \in 1 .. MaxRun, NEW i \in 1 .. Len(list),
         i + n - 1 <= Len(list), \A c \in 1 .. n - 1 : list[i + c] = list[i] + c
  PROVE  /\ list[i] \in C!Blocks
         /\ C!blocksOf(C!Run(list[i], n)) \subseteq Listing(list)
         /\ C!Run(list[i], n) \notin rs
         /\ Listing(C!without(list, i, n)) = Listing(list) \ C!blocksOf(C!Run(list[i], n))
         /\ Kept(C!without(list, i, n), rs \cup {C!Run(list[i], n)})
<1>1. ListOK(list) /\ list \in Seq(C!Blocks) /\ n \in Nat \ {0}
  BY PartsAssumption DEF Kept, ListOK
<1>2. PICK x \in C!Blocks : x = list[i]
  BY <1>1
<1>3. PICK r \in [first : C!Blocks, len : 1 .. MaxRun] : r = C!Run(x, n)
  BY <1>2, RunFields
<1>4. x \in Nat /\ C!blocksOf(r) = x .. x + n - 1
  <2>1. x \in Nat
    BY PartsAssumption DEF C!Blocks
  <2> QED
    BY <2>1, <1>3, RunFields
<1>5. DOMAIN list = 1 .. Len(list) /\ Len(list) \in Nat
  BY <1>1, LenProperties
<1>6. \A k \in i .. i + n - 1 : k \in 1 .. Len(list) /\ list[k] = x + (k - i)
  <2>1. TAKE k \in i .. i + n - 1
  <2>2. k \in 1 .. Len(list)
    BY <1>1, <1>5
  <2>3. CASE k = i
    BY <2>2, <2>3, <1>2, <1>4
  <2>4. CASE k # i
    <3>1. k - i \in 1 .. n - 1 /\ i + (k - i) = k
      BY <2>4, <1>1
    <3> QED
      BY <2>2, <3>1, <1>2
  <2> QED
    BY <2>3, <2>4
<1>7. {list[k] : k \in i .. i + n - 1} = C!blocksOf(r)
  <2>1. \A k \in i .. i + n - 1 : list[k] \in x .. x + n - 1
    BY <1>1, <1>4, <1>6
  <2>2. \A b \in x .. x + n - 1 : i + (b - x) \in i .. i + n - 1 /\ list[i + (b - x)] = b
    <3>1. TAKE b \in x .. x + n - 1
    <3>2. i + (b - x) \in i .. i + n - 1 /\ (i + (b - x)) - i = b - x /\ x + (b - x) = b
      BY <1>1, <1>4
    <3> QED
      BY <3>2, <1>6
  <2>3. \A b : b \in {list[k] : k \in i .. i + n - 1} <=> b \in x .. x + n - 1
    BY <2>1, <2>2
  <2> QED
    BY <2>3, <1>4
<1>8. C!blocksOf(r) \subseteq Listing(list) /\ x \in C!blocksOf(r)
  <2>1. \A k \in i .. i + n - 1 : list[k] \in Listing(list)
    BY <1>5, <1>6 DEF Listing
  <2>2. x \in C!blocksOf(r)
    BY <1>1, <1>4
  <2> QED
    BY <2>1, <2>2, <1>7
<1>9. Listing(list) \subseteq C!Blocks
  BY <1>1, <1>5 DEF Listing
<1>10. PICK g : g = C!without(list, i, n)
  OBVIOUS
<1>11. ListOK(g) /\ Listing(g) = Listing(list) \ C!blocksOf(r)
  BY <1>1, <1>7, <1>10, CutListing
<1>12. \A s \in rs : C!blocksOf(s) \cap C!blocksOf(r) = {}
  BY <1>8 DEF Kept, Apart
<1>13. r \notin rs
  BY <1>8, <1>12
<1>14. RunsOK(rs \cup {r})
  BY <1>8, <1>9, <1>12 DEF Kept, RunsOK
<1>15. Apart(g, rs \cup {r})
  BY <1>11 DEF Kept, Apart
<1> QED
  BY <1>2, <1>3, <1>8, <1>10, <1>11, <1>13, <1>14, <1>15 DEF Kept

(* A run as a list of blocks.                                              *)
LEMMA RunSeq ==
  ASSUME NEW r \in [first : C!Blocks, len : 1 .. MaxRun], C!blocksOf(r) \subseteq C!Blocks
  PROVE  /\ ListOK(C!runSeq(r)) /\ Len(C!runSeq(r)) = r.len
         /\ Listing(C!runSeq(r)) = C!blocksOf(r)
<1>1. PICK x \in Nat, n \in Nat : x = r.first /\ n = r.len
  BY RunHasBlocks
<1>2. C!blocksOf(r) = x .. x + n - 1
  BY <1>1 DEF C!blocksOf
<1>3. PICK s : s = C!runSeq(r)
  OBVIOUS
<1>4. s = [i \in 1 .. n |-> x + i - 1]
  BY <1>1, <1>3 DEF C!runSeq
<1>5. \A i \in 1 .. n : x + i - 1 \in C!Blocks
  BY <1>2
<1>6. s \in [1 .. n -> C!Blocks]
  BY <1>4, <1>5
<1>7. s \in Seq(C!Blocks) /\ Len(s) = n /\ DOMAIN s = 1 .. n
  BY <1>6
<1>8. \A i, j \in 1 .. n : s[i] = s[j] => i = j
  BY <1>4
<1>9. \A b : b \in Listing(s) <=> b \in x .. x + n - 1
  <2>1. \A b \in x .. x + n - 1 : b - x + 1 \in 1 .. n /\ s[b - x + 1] = b
    BY <1>4
  <2>2. \A i \in 1 .. n : s[i] \in x .. x + n - 1
    BY <1>4
  <2> QED
    BY <2>1, <2>2, <1>7 DEF Listing
<1> QED
  BY <1>1, <1>2, <1>3, <1>7, <1>8, <1>9 DEF ListOK, C!IsInjective

(* The place a freed run is put at.                                        *)
LEMMA PlaceOfRun ==
  ASSUME NEW list \in Seq(C!Blocks), NEW p
  PROVE  /\ C!inFrontOf(list, p) \in 0 .. Len(list)
         /\ C!inFrontOf(list, p) # 0 => list[C!inFrontOf(list, p)] + 1 = p
<1>1. DOMAIN list = 1 .. Len(list) /\ Len(list) \in Nat
  BY LenProperties
<1>2. CASE \E i \in DOMAIN list : list[i] + 1 = p
  BY <1>1, <1>2 DEF C!inFrontOf
<1>3. CASE ~ \E i \in DOMAIN list : list[i] + 1 = p
  BY <1>1, <1>3 DEF C!inFrontOf
<1> QED
  BY <1>2, <1>3

(* A run put back.                                                         *)
LEMMA GivenRun ==
  ASSUME NEW list, NEW rs, Kept(list, rs), NEW r \in rs
  PROVE  /\ C!withRun(list, r) = put(list, C!inFrontOf(list, r.first), C!runSeq(r))
         /\ Listing(C!withRun(list, r)) = Listing(list) \cup C!blocksOf(r)
         /\ Kept(C!withRun(list, r), rs \ {r})
<1>1. ListOK(list) /\ list \in Seq(C!Blocks)
  BY DEF Kept, ListOK
<1>2. r \in [first : C!Blocks, len : 1 .. MaxRun] /\ C!blocksOf(r) \subseteq C!Blocks
  BY DEF Kept, RunsOK
<1>3. PICK s : s = C!runSeq(r)
  OBVIOUS
<1>4. ListOK(s) /\ Listing(s) = C!blocksOf(r)
  BY <1>2, <1>3, RunSeq
<1>5. PICK i \in 0 .. Len(list) : i = C!inFrontOf(list, r.first)
  BY <1>1, PlaceOfRun
<1>6. PICK g : g = put(list, i, s)
  OBVIOUS
<1>7. g = C!withRun(list, r)
  BY <1>3, <1>5, <1>6 DEF put, C!withRun
<1>8. Listing(list) \cap Listing(s) = {}
  BY <1>4 DEF Kept, Apart
<1>9. ListOK(g) /\ Listing(g) = Listing(list) \cup Listing(s)
  BY <1>1, <1>4, <1>6, <1>8, PutListing
<1>10. RunsOK(rs \ {r})
  BY DEF Kept, RunsOK
<1>11. Apart(g, rs \ {r})
  BY <1>4, <1>9 DEF Kept, RunsOK, Apart
<1> QED
  BY <1>3, <1>4, <1>5, <1>6, <1>7, <1>9, <1>10, <1>11 DEF Kept
(* The rest of a list.                                                     *)
LEMMA RestOfList ==
  ASSUME NEW list, ListOK(list), NEW a \in 1 .. Len(list)
  PROVE  /\ ListOK(SubSeq(list, a, Len(list)))
         /\ Listing(SubSeq(list, a, Len(list))) \subseteq Listing(list)
<1>1. list \in Seq(C!Blocks)
  BY DEF ListOK
<1>2. PICK m \in Nat : m = Len(list)
  BY <1>1
<1>3. PICK g : g = SubSeq(list, a, m)
  OBVIOUS
<1>4. g \in Seq(C!Blocks) /\ Len(g) = m - a + 1 /\ \A k \in 1 .. m - a + 1 : g[k] = list[a + k - 1]
  <2>1. a \in Int /\ m \in Int /\ \A k \in a .. m : list[k] \in C!Blocks
    BY <1>1, <1>2
  <2>2. /\ g \in Seq(C!Blocks)
        /\ Len(g) = IF a <= m THEN m - a + 1 ELSE 0
        /\ \A k \in 1 .. m - a + 1 : g[k] = list[a + k - 1]
    BY <1>3, <2>1, SubSeqProperties
  <2> QED
    BY <2>2, <1>2
<1>5. DOMAIN g = 1 .. m - a + 1 /\ DOMAIN list = 1 .. m
  BY <1>1, <1>2, <1>4, LenProperties
<1>6. \A j, k \in 1 .. m : list[j] = list[k] => j = k
  BY <1>5 DEF ListOK, C!IsInjective
<1>7. \A k \in 1 .. m - a + 1 : a + k - 1 \in 1 .. m
  BY <1>2
<1>8. \A j, k \in 1 .. m - a + 1 : g[j] = g[k] => j = k
  <2>1. TAKE j, k \in 1 .. m - a + 1
  <2>2. HAVE g[j] = g[k]
  <2>3. a + j - 1 = a + k - 1
    BY <2>2, <1>4, <1>6, <1>7
  <2> QED
    BY <2>3, <1>2
<1>9. Listing(g) \subseteq Listing(list)
  BY <1>4, <1>5, <1>7 DEF Listing
<1> QED
  BY <1>2, <1>3, <1>4, <1>5, <1>8, <1>9 DEF ListOK, C!IsInjective

(* A run that takes in the block behind it.                                *)
LEMMA GrownRun ==
  ASSUME NEW list, NEW rs, Kept(list, rs), NEW r \in rs, NEW i \in 1 .. Len(list),
         list[i] = C!behind(r), r.len + 1 <= MaxRun
  PROVE  /\ RunsOK((rs \ {r}) \cup {C!Run(r.first, r.len + 1)})
         /\ C!Run(r.first, r.len + 1) \notin rs
         /\ C!blocksOf(C!Run(r.first, r.len + 1)) = C!blocksOf(r) \cup {list[i]}
         /\ list[i] \in Listing(list)
<1>1. r \in [first : C!Blocks, len : 1 .. MaxRun] /\ C!blocksOf(r) \subseteq C!Blocks
  BY DEF Kept, RunsOK
<1>2. PICK x \in C!Blocks, n \in Nat \ {0} : x = r.first /\ n = r.len
  BY <1>1, RunHasBlocks
<1>3. x \in Nat /\ x \in C!blocksOf(r)
  BY <1>1, <1>2, RunHasBlocks
<1>4. n + 1 \in 1 .. MaxRun
  BY <1>2, PartsAssumption
<1>5. PICK s \in [first : C!Blocks, len : 1 .. MaxRun] : s = C!Run(x, n + 1)
  BY <1>4, RunFields
<1>6. C!blocksOf(s) = x .. x + n /\ C!blocksOf(r) = x .. x + n - 1 /\ s.len = n + 1
  <2>1. C!blocksOf(s) = x .. x + (n + 1) - 1 /\ s.len = n + 1
    BY <1>4, <1>5, RunFields
  <2> QED
    BY <2>1, <1>1, <1>2, <1>3, RunHasBlocks
<1>7. list[i] = x + n
  BY <1>2 DEF C!behind
<1>8. C!blocksOf(s) = C!blocksOf(r) \cup {list[i]}
  BY <1>3, <1>6, <1>7
<1>9. list \in Seq(C!Blocks) /\ list[i] \in C!Blocks /\ list[i] \in Listing(list)
  <2>1. list \in Seq(C!Blocks)
    BY DEF Kept, ListOK
  <2> QED
    BY <2>1 DEF Listing
<1>10. \A q \in rs : q # r => C!blocksOf(q) \cap C!blocksOf(s) = {}
  BY <1>8, <1>9 DEF Kept, RunsOK, Apart
<1>11. s # r
  BY <1>2, <1>6
<1>12. s \notin rs
  BY <1>3, <1>8, <1>10, <1>11
<1>13. RunsOK((rs \ {r}) \cup {s})
  <2>1. PICK qs : qs = (rs \ {r}) \cup {s}
    OBVIOUS
  <2>2. qs \subseteq [first : C!Blocks, len : 1 .. MaxRun]
    BY <2>1 DEF Kept, RunsOK
  <2>3. \A q \in qs : C!blocksOf(q) \subseteq C!Blocks
    BY <2>1, <1>1, <1>8, <1>9 DEF Kept, RunsOK
  <2>4. \A p, q \in qs : p # q => C!blocksOf(p) \cap C!blocksOf(q) = {}
    BY <2>1, <1>10 DEF Kept, RunsOK
  <2> QED
    BY <2>1, <2>2, <2>3, <2>4 DEF RunsOK
<1> QED
  BY <1>2, <1>5, <1>8, <1>9, <1>12, <1>13

(* The list after that: cut in front of the block, or without its head.    *)
LEMMA ListWithout ==
  ASSUME NEW list, ListOK(list), NEW i \in 1 .. Len(list)
  PROVE  /\ i > 1 => /\ ListOK(SubSeq(C!without(list, i, 1), i - 1, Len(list) - 1))
                     /\ Listing(SubSeq(C!without(list, i, 1), i - 1, Len(list) - 1))
                          \subseteq Listing(list) \ {list[i]}
         /\ i = 1 /\ Len(list) > 1 => /\ ListOK(Tail(list))
                                      /\ Listing(Tail(list)) \subseteq Listing(list) \ {list[i]}
<1>1. list \in Seq(C!Blocks)
  BY DEF ListOK
<1>2. PICK m \in Nat \ {0} : m = Len(list)
  BY <1>1
<1>3. PICK w : w = C!without(list, i, 1)
  OBVIOUS
<1>4. ListOK(w) /\ Listing(w) = Listing(list) \ {list[k] : k \in i .. i + 1 - 1}
  BY <1>2, <1>3, CutListing
<1>5. Len(w) = m - 1
  <2>1. 1 \in Nat \ {0} /\ i + 1 - 1 <= Len(list)
    BY <1>2
  <2>2. Len(C!without(list, i, 1)) = Len(list) - 1
    BY <1>1, <2>1, CutEntries, ZenonT(30)
  <2> QED
    BY <2>2, <1>2, <1>3
<1>6. {list[k] : k \in i .. i + 1 - 1} = {list[i]}
  <2>1. i .. i + 1 - 1 = {i}
    BY <1>2
  <2> QED
    BY <2>1
<1>7. ASSUME i > 1
      PROVE  /\ ListOK(SubSeq(w, i - 1, m - 1))
             /\ Listing(SubSeq(w, i - 1, m - 1)) \subseteq Listing(list) \ {list[i]}
  <2>1. i - 1 \in 1 .. Len(w)
    BY <1>2, <1>5, <1>7
  <2> QED
    BY <2>1, <1>4, <1>5, <1>6, RestOfList
<1>8. ASSUME i = 1, m > 1
      PROVE  ListOK(Tail(list)) /\ Listing(Tail(list)) \subseteq Listing(list) \ {list[i]}
  <2>1. list # << >>
    BY <1>2, EmptySeq
  <2>2. PICK g : g = Tail(list)
    OBVIOUS
  <2>3. g \in Seq(C!Blocks) /\ Len(g) = m - 1 /\ \A k \in 1 .. m - 1 : g[k] = list[k + 1]
    BY <2>1, <2>2, <1>1, <1>2, HeadTailProperties
  <2>4. DOMAIN g = 1 .. m - 1 /\ DOMAIN list = 1 .. m
    BY <2>3, <1>1, <1>2, LenProperties
  <2>5. \A j, k \in 1 .. m : list[j] = list[k] => j = k
    BY <2>4 DEF ListOK, C!IsInjective
  <2>6. \A k \in 1 .. m - 1 : k + 1 \in 1 .. m /\ k + 1 # 1
    BY <1>2
  <2>7. \A j, k \in 1 .. m - 1 : g[j] = g[k] => j = k
    <3>1. TAKE j, k \in 1 .. m - 1
    <3>2. HAVE g[j] = g[k]
    <3>3. j + 1 = k + 1
      BY <3>2, <2>3, <2>5, <2>6
    <3> QED
      BY <3>3
  <2>8. \A k \in 1 .. m - 1 : g[k] \in Listing(list) /\ g[k] # list[i]
    BY <2>3, <2>4, <2>5, <2>6, <1>8 DEF Listing
  <2>9. Listing(g) \subseteq Listing(list) \ {list[i]}
    BY <2>4, <2>8 DEF Listing
  <2> QED
    BY <2>2, <2>3, <2>4, <2>7, <2>9 DEF ListOK, C!IsInjective
<1> QED
  BY <1>2, <1>3, <1>7, <1>8
-----------------------------------------------------------------------------
(* The walk for n neighbours that finds any finds a first.                 *)
LEMMA FirstFit ==
  ASSUME NEW n, freeList \in Seq(C!Blocks), C!fits(freeList, n)
  PROVE  C!firstFit(freeList, n) \in 1 .. Len(freeList) /\ C!fitsAt(freeList, C!firstFit(freeList, n), n)
<1>1. DOMAIN freeList = 1 .. Len(freeList) /\ Len(freeList) \in Nat
  BY LenProperties
<1>2. PICK T : T = {i \in DOMAIN freeList : C!fitsAt(freeList, i, n)}
  OBVIOUS
<1>3. T \subseteq Nat /\ T # {}
  BY <1>1, <1>2 DEF C!fits
<1>4. PICK i \in T : \A j \in T : ~ (<<j, i>> \in OpToRel(<, Nat))
  BY <1>3, NatLessThanWellFounded, WFMin, Zenon
<1>5. \A j \in T : ~ (j < i)
  BY <1>3, <1>4 DEF OpToRel
<1>6. \A j \in 1 .. i - 1 : ~ C!fitsAt(freeList, j, n)
  <2>1. ASSUME NEW j \in 1 .. i - 1 PROVE j \in DOMAIN freeList /\ j < i
    <3>1. i \in 1 .. Len(freeList)
      BY <1>1, <1>2, <1>4
    <3> QED
      BY <3>1, <1>1
  <2> QED
    BY <2>1, <1>2, <1>5
<1>7. i \in DOMAIN freeList /\ C!fitsAt(freeList, i, n)
  BY <1>2
<1> QED
  BY <1>1, <1>6, <1>7, Zenon DEF C!firstFit
-----------------------------------------------------------------------------
(* The blocks a list or a run has.                                         *)
Covered(list, rs) == Listing(list) \cup UNION {C!blocksOf(r) : r \in rs}

(* HeldOnce in the terms above.                                            *)
HeldParts ==
  /\ ListOK(freeList) /\ RunsOK(held)
  /\ ~ headHeld => Apart(freeList, held)
  /\ headHeld \in BOOLEAN /\ ret \in C!Blocks \cup {0}

LEMMA HeldIsKept == HeldOnce <=> HeldParts
<1>1. C!Listed = Listing(freeList)
  BY DEF C!Listed, Listing
<1>2. Apart(freeList, held) <=> C!Listed \cap C!HeldBlocks = {}
  BY <1>1 DEF Apart, C!HeldBlocks
<1>3. C!TypeOK /\ C!RunsDisjoint <=> /\ ListOK(freeList) /\ RunsOK(held)
                                    /\ headHeld \in BOOLEAN /\ ret \in C!Blocks \cup {0}
  BY DEF C!TypeOK, C!RunsDisjoint, ListOK, RunsOK
<1> QED
  BY <1>2, <1>3 DEF HeldOnce, C!HeldOnce, HeldParts

LEMMA LostIsTheRest == C!Lost = C!Blocks \ Covered(freeList, held)
BY DEF C!Lost, C!Listed, C!HeldBlocks, Covered, Listing

(* The pool starts with every block on the list.                           *)
LEMMA InitHeld == C!Init => HeldOnce
<1>1. SUFFICES ASSUME C!Init PROVE HeldOnce
  OBVIOUS
<1>2. /\ freeList = [i \in 1 .. NumBlocks |-> i] /\ held = {} /\ headHeld = FALSE /\ ret = 0
  BY <1>1 DEF C!Init, C!createConsecutivePoolAllocator
<1>3. freeList \in Seq(C!Blocks) /\ DOMAIN freeList = 1 .. NumBlocks
  <2>1. freeList \in [1 .. NumBlocks -> C!Blocks]
    BY <1>2 DEF C!Blocks
  <2> QED
    BY <2>1, PartsAssumption
<1>4. ListOK(freeList)
  BY <1>2, <1>3 DEF ListOK, C!IsInjective
<1>5. RunsOK(held) /\ Apart(freeList, held)
  BY <1>2 DEF RunsOK, Apart
<1> QED
  BY <1>2, <1>4, <1>5, HeldIsKept DEF HeldParts
-----------------------------------------------------------------------------
(* The held runs are finitely many: no two begin with the same block.      *)
LEMMA RunsFinite ==
  ASSUME NEW rs, RunsOK(rs)
  PROVE  IsFiniteSet(rs)
<1>1. PICK f : f = [r \in rs |-> r.first]
  OBVIOUS
<1>2. \A r \in rs : r.first \in C!Blocks /\ r.first \in C!blocksOf(r)
  BY RunHasBlocks DEF RunsOK
<1>3. \A r, s \in rs : f[r] = f[s] => r = s
  BY <1>1, <1>2 DEF RunsOK
<1>4. f \in [rs -> C!Blocks]
  BY <1>1, <1>2
<1>5. f \in Injection(rs, C!Blocks)
  BY <1>3, <1>4 DEF Injection, IsInjective
<1>6. IsFiniteSet(C!Blocks)
  BY PartsAssumption, FS_Interval DEF C!Blocks
<1> QED
  BY <1>5, <1>6, FS_Injection

(* Allocating: the run leaves the list and is held.                        *)
LEMMA AllocateStep ==
  ASSUME HeldOnce, ~ headHeld, NEW n \in 1 .. MaxRun, C!consecutivePoolAllocate(n)
  PROVE  /\ HeldOnce'
         /\ Covered(freeList', held') = Covered(freeList, held)
         /\ held \subseteq held'
<1>1. Kept(freeList, held) /\ headHeld \in BOOLEAN /\ ret \in C!Blocks \cup {0}
  BY HeldIsKept DEF Kept, HeldParts
<1>2. ASSUME ret' = 0, UNCHANGED <<freeList, held, headHeld>>
      PROVE  /\ HeldOnce'
             /\ Covered(freeList', held') = Covered(freeList, held)
             /\ held \subseteq held'
  <2>1. /\ ListOK(freeList') /\ RunsOK(held') /\ Apart(freeList', held')
        /\ headHeld' \in BOOLEAN /\ ret' \in C!Blocks \cup {0}
    BY <1>1, <1>2 DEF Kept
  <2>2. HeldOnce'
    <3>1. HeldParts'
      BY <2>1 DEF HeldParts
    <3> QED
      BY <3>1, HeldIsKept, PTL
  <2> QED
    BY <1>2, <2>2
<1>3. ASSUME C!fits(freeList, n), NEW i, i = C!firstFit(freeList, n), ret' = freeList[i],
             freeList' = C!without(freeList, i, n), held' = held \cup {C!Run(freeList[i], n)},
             headHeld' = headHeld
      PROVE  /\ HeldOnce'
             /\ Covered(freeList', held') = Covered(freeList, held)
             /\ held \subseteq held'
  <2>1. freeList \in Seq(C!Blocks)
    BY <1>1 DEF Kept, ListOK
  <2>2. i \in 1 .. Len(freeList) /\ C!fitsAt(freeList, i, n)
    BY <1>3, <2>1, FirstFit
  <2>3. i + n - 1 <= Len(freeList) /\ \A c \in 1 .. n - 1 : freeList[i + c] = freeList[i] + c
    BY <2>2 DEF C!fitsAt
  <2>4. /\ freeList[i] \in C!Blocks
        /\ C!blocksOf(C!Run(freeList[i], n)) \subseteq Listing(freeList)
        /\ Listing(freeList') = Listing(freeList) \ C!blocksOf(C!Run(freeList[i], n))
        /\ Kept(freeList', held')
    BY <1>1, <1>3, <2>2, <2>3, TakenRun
  <2>5. /\ ListOK(freeList') /\ RunsOK(held') /\ Apart(freeList', held')
        /\ headHeld' \in BOOLEAN /\ ret' \in C!Blocks \cup {0}
    BY <1>1, <1>3, <2>4 DEF Kept
  <2>6. HeldOnce'
    <3>1. HeldParts'
      BY <2>5 DEF HeldParts
    <3> QED
      BY <3>1, HeldIsKept, PTL
  <2>7. Covered(freeList', held') = Covered(freeList, held)
    BY <1>3, <2>4 DEF Covered
  <2> QED
    BY <1>3, <2>6, <2>7
<1> QED
  BY <1>2, <1>3 DEF C!consecutivePoolAllocate

(* Freeing: the run is back on the list.                                   *)
LEMMA FreeStep ==
  ASSUME HeldOnce, ~ headHeld, NEW r \in held, C!consecutivePoolFree(r)
  PROVE  /\ HeldOnce'
         /\ Covered(freeList', held') = Covered(freeList, held)
<1>1. Kept(freeList, held) /\ headHeld \in BOOLEAN /\ ret \in C!Blocks \cup {0}
  BY HeldIsKept DEF Kept, HeldParts
<1>2. /\ freeList' = C!withRun(freeList, r) /\ held' = held \ {r}
      /\ headHeld' = headHeld /\ ret' = ret
  BY DEF C!consecutivePoolFree
<1>3. Listing(freeList') = Listing(freeList) \cup C!blocksOf(r) /\ Kept(freeList', held')
  BY <1>1, <1>2, GivenRun
<1>4. /\ ListOK(freeList') /\ RunsOK(held') /\ Apart(freeList', held')
      /\ headHeld' \in BOOLEAN /\ ret' \in C!Blocks \cup {0}
  BY <1>1, <1>2, <1>3 DEF Kept
<1>5. HeldOnce'
  <2>1. HeldParts'
    BY <1>4 DEF HeldParts
  <2> QED
    BY <2>1, HeldIsKept, PTL
<1>6. Covered(freeList', held') = Covered(freeList, held)
  BY <1>2, <1>3 DEF Covered
<1> QED
  BY <1>5, <1>6

(* Moving: a longer run is taken, then the old one is given back.          *)
LEMMA MoveStep ==
  ASSUME HeldOnce, ~ headHeld, NEW r \in held, NEW n \in 1 .. MaxRun, C!moveRun(r, n)
  PROVE  /\ HeldOnce'
         /\ Covered(freeList', held') = Covered(freeList, held)
         /\ held' = held \/ \E x : x \notin held /\ held' = (held \ {r}) \cup {x}
<1>1. Kept(freeList, held) /\ headHeld \in BOOLEAN /\ ret \in C!Blocks \cup {0}
  BY HeldIsKept DEF Kept, HeldParts
<1>2. ASSUME ret' = 0, UNCHANGED <<freeList, held, headHeld>>
      PROVE  HeldOnce' /\ Covered(freeList', held') = Covered(freeList, held) /\ held' = held
  <2>1. HeldParts'
    BY <1>1, <1>2 DEF Kept, HeldParts
  <2>2. HeldOnce'
    BY <2>1, HeldIsKept, PTL
  <2> QED
    BY <1>2, <2>2
<1>3. ASSUME C!fits(freeList, n), NEW i, i = C!firstFit(freeList, n), ret' = freeList[i],
             freeList' = C!withRun(C!without(freeList, i, n), r),
             held' = (held \ {r}) \cup {C!Run(freeList[i], n)},
             headHeld' = headHeld
      PROVE  /\ HeldOnce'
             /\ Covered(freeList', held') = Covered(freeList, held)
             /\ C!Run(freeList[i], n) \notin held
  <2>1. freeList \in Seq(C!Blocks)
    BY <1>1 DEF Kept, ListOK
  <2>2. i \in 1 .. Len(freeList) /\ C!fitsAt(freeList, i, n)
    BY <1>3, <2>1, FirstFit
  <2>3. i + n - 1 <= Len(freeList) /\ \A c \in 1 .. n - 1 : freeList[i + c] = freeList[i] + c
    BY <2>2 DEF C!fitsAt
  <2>4. PICK w, new : w = C!without(freeList, i, n) /\ new = C!Run(freeList[i], n)
    OBVIOUS
  <2>5. /\ freeList[i] \in C!Blocks
        /\ C!blocksOf(new) \subseteq Listing(freeList)
        /\ new \notin held
        /\ Listing(w) = Listing(freeList) \ C!blocksOf(new)
        /\ Kept(w, held \cup {new})
    BY <1>1, <2>2, <2>3, <2>4, TakenRun
  <2>6. PICK hs : hs = held \cup {new}
    OBVIOUS
  <2>7. /\ Listing(C!withRun(w, r)) = Listing(w) \cup C!blocksOf(r)
        /\ Kept(C!withRun(w, r), hs \ {r})
    BY <2>5, <2>6, GivenRun
  <2>8. held' = hs \ {r} /\ freeList' = C!withRun(w, r)
    BY <1>3, <2>4, <2>5, <2>6
  <2>9. HeldParts'
    <3>1. Kept(freeList', held')
      BY <2>7, <2>8
    <3>2. headHeld' \in BOOLEAN /\ ret' \in C!Blocks \cup {0}
      BY <1>1, <1>3, <2>5
    <3> QED
      BY <3>1, <3>2 DEF Kept, HeldParts
  <2>10. HeldOnce'
    BY <2>9, HeldIsKept, PTL
  <2>11. Covered(freeList', held') = Covered(freeList, held)
    BY <2>5, <2>6, <2>7, <2>8 DEF Covered
  <2> QED
    BY <2>4, <2>5, <2>10, <2>11
<1> QED
  BY <1>2, <1>3 DEF C!moveRun

(* Growing in place: the block behind the run joins it; the list is cut in *)
(* front of that block, loses its head or, when it has no other block,     *)
(* stays and begins in the run.                                            *)
LEMMA GrowStep ==
  ASSUME HeldOnce, ~ headHeld, NEW r \in held, NEW i \in DOMAIN freeList,
         r.len + 1 <= MaxRun, C!growInPlace(r, i)
  PROVE  /\ HeldOnce'
         /\ C!Run(r.first, r.len + 1) \in held' \ held
         /\ held' = (held \ {r}) \cup {C!Run(r.first, r.len + 1)}
<1>1. Kept(freeList, held) /\ headHeld \in BOOLEAN /\ ret \in C!Blocks \cup {0}
  BY HeldIsKept DEF Kept, HeldParts
<1>2. ListOK(freeList) /\ freeList \in Seq(C!Blocks)
  BY <1>1 DEF Kept, ListOK
<1>3. PICK m \in Nat : m = Len(freeList)
  BY <1>2
<1>4. i \in 1 .. m
  BY <1>2, <1>3, LenProperties
<1>5. PICK s : s = C!Run(r.first, r.len + 1)
  OBVIOUS
<1>6. /\ freeList[i] = C!behind(r)
      /\ freeList' = IF i > 1 THEN SubSeq(C!without(freeList, i, 1), i - 1, Len(freeList) - 1)
                     ELSE IF Len(freeList) > 1 THEN Tail(freeList) ELSE freeList
      /\ headHeld' = (i = 1 /\ Len(freeList) = 1)
      /\ held' = (held \ {r}) \cup {s}
      /\ ret' = r.first
  BY <1>5 DEF C!growInPlace
<1>7. /\ RunsOK(held') /\ s \notin held
      /\ C!blocksOf(s) = C!blocksOf(r) \cup {freeList[i]} /\ freeList[i] \in Listing(freeList)
  <2>1. i \in 1 .. Len(freeList) /\ freeList[i] = C!behind(r)
    BY <1>3, <1>4, <1>6
  <2>2. /\ RunsOK((held \ {r}) \cup {C!Run(r.first, r.len + 1)})
        /\ C!Run(r.first, r.len + 1) \notin held
        /\ C!blocksOf(C!Run(r.first, r.len + 1)) = C!blocksOf(r) \cup {freeList[i]}
        /\ freeList[i] \in Listing(freeList)
    BY <1>1, <2>1, GrownRun, Zenon
  <2> QED
    BY <2>2, <1>5, <1>6, Zenon
<1>8. /\ i > 1 => /\ ListOK(SubSeq(C!without(freeList, i, 1), i - 1, Len(freeList) - 1))
                  /\ Listing(SubSeq(C!without(freeList, i, 1), i - 1, Len(freeList) - 1))
                       \subseteq Listing(freeList) \ {freeList[i]}
      /\ i = 1 /\ Len(freeList) > 1 => /\ ListOK(Tail(freeList))
                                       /\ Listing(Tail(freeList))
                                            \subseteq Listing(freeList) \ {freeList[i]}
  BY <1>2, <1>3, <1>4, ListWithout, Zenon
<1>9. ListOK(freeList')
  BY <1>2, <1>3, <1>4, <1>6, <1>8
<1>10. ASSUME ~ headHeld' PROVE Apart(freeList', held')
  <2>1. Listing(freeList') \subseteq Listing(freeList) \ {freeList[i]}
    <3>1. ~ (i = 1 /\ m = 1)
      BY <1>3, <1>6, <1>10, Zenon
    <3>2. CASE i > 1
      <4>1. freeList' = SubSeq(C!without(freeList, i, 1), i - 1, Len(freeList) - 1)
        BY <3>2, <1>6, Zenon
      <4> QED
        BY <4>1, <3>2, <1>8, Zenon
    <3>3. CASE ~ (i > 1)
      <4>1. i = 1 /\ Len(freeList) > 1
        BY <3>1, <3>3, <1>3, <1>4
      <4>2. freeList' = Tail(freeList)
        BY <4>1, <3>3, <1>6, Zenon
      <4> QED
        BY <4>1, <4>2, <1>8, Zenon
    <3> QED
      BY <3>2, <3>3
  <2> QED
    BY <2>1, <1>1, <1>6, <1>7 DEF Kept, Apart
<1>11. headHeld' \in BOOLEAN /\ ret' \in C!Blocks \cup {0}
  BY <1>1, <1>6 DEF Kept, RunsOK
<1>12. HeldOnce'
  <2>1. HeldParts'
    BY <1>7, <1>9, <1>10, <1>11 DEF HeldParts
  <2> QED
    BY <2>1, HeldIsKept, PTL
<1> QED
  BY <1>5, <1>6, <1>7, <1>12
-----------------------------------------------------------------------------
(* Neighbours on the list are neighbours still when a run is put back:     *)
(* where it goes, the block it begins with would have had to come next.    *)
HasNeighbours(list, n) ==
  \E i \in 1 .. Len(list) : /\ i + n - 1 <= Len(list)
                            /\ \A c \in 1 .. n - 1 : list[i + c] = list[i] + c

LEMMA NeighboursStay ==
  ASSUME NEW list, NEW rs, Kept(list, rs), NEW r \in rs, NEW n \in Nat \ {0},
         HasNeighbours(list, n)
  PROVE  HasNeighbours(C!withRun(list, r), n)
<1>1. ListOK(list) /\ list \in Seq(C!Blocks)
  BY DEF Kept, ListOK
<1>2. r \in [first : C!Blocks, len : 1 .. MaxRun] /\ C!blocksOf(r) \subseteq C!Blocks
  BY DEF Kept, RunsOK
<1>3. PICK m \in Nat, l \in Nat : m = Len(list) /\ l = r.len
  BY <1>1, <1>2, RunHasBlocks
<1>4. PICK s : s = C!runSeq(r)
  OBVIOUS
<1>5. s \in Seq(C!Blocks) /\ Len(s) = l
  BY <1>2, <1>3, <1>4, RunSeq DEF ListOK
<1>6. PICK p \in 0 .. m : /\ p = C!inFrontOf(list, r.first)
                          /\ p # 0 => list[p] + 1 = r.first
  BY <1>1, <1>3, PlaceOfRun
<1>7. PICK h : h = C!withRun(list, r)
  OBVIOUS
<1>8. h = put(list, p, s)
  <2>1. C!withRun(list, r) = put(list, C!inFrontOf(list, r.first), C!runSeq(r))
    BY GivenRun, Zenon
  <2> QED
    BY <2>1, <1>4, <1>6, <1>7, Zenon
<1>9. /\ Len(h) = m + l
      /\ \A k \in 1 .. m + l : h[k] = IF k <= p THEN list[k]
                                      ELSE IF k <= p + l THEN s[k - p] ELSE list[k - l]
  <2>1. p \in 0 .. Len(list)
    BY <1>3
  <2>2. /\ put(list, p, s) \in Seq(C!Blocks)
        /\ Len(put(list, p, s)) = Len(list) + Len(s)
        /\ \A k \in 1 .. Len(list) + Len(s) :
             put(list, p, s)[k] = IF k <= p THEN list[k]
                                  ELSE IF k <= p + Len(s) THEN s[k - p] ELSE list[k - Len(s)]
    BY <1>1, <1>5, <2>1, PutEntries, Zenon
  <2>3. Len(list) = m /\ Len(s) = l
    BY <1>3, <1>5
  <2> QED
    BY <2>2, <2>3, <1>8, Zenon
<1>10. PICK i \in 1 .. m : i + n - 1 <= m /\ \A c \in 1 .. n - 1 : list[i + c] = list[i] + c
  BY <1>3 DEF HasNeighbours
<1>11. CASE i + n - 1 <= p
  <2>1. \A c \in 0 .. n - 1 : i + c \in 1 .. m + l /\ h[i + c] = list[i + c]
    BY <1>3, <1>9, <1>10, <1>11
  <2>2. i + 0 = i /\ 0 \in 0 .. n - 1 /\ \A c \in 1 .. n - 1 : c \in 0 .. n - 1
    BY <1>10
  <2>3. h[i] = list[i]
    BY <2>1, <2>2
  <2>4. \A c \in 1 .. n - 1 : h[i + c] = h[i] + c
    BY <2>1, <2>2, <2>3, <1>10
  <2>5. i \in 1 .. Len(h) /\ i + n - 1 <= Len(h)
    BY <1>3, <1>9, <1>10
  <2> QED
    BY <2>4, <2>5, <1>7 DEF HasNeighbours
<1>12. CASE i > p
  <2>1. \A c \in 0 .. n - 1 : /\ i + l + c \in 1 .. m + l
                             /\ h[i + l + c] = list[i + c]
    <3>1. TAKE c \in 0 .. n - 1
    <3>2. /\ i + l + c \in 1 .. m + l /\ ~ (i + l + c <= p) /\ ~ (i + l + c <= p + l)
          /\ (i + l + c) - l = i + c
      <4>1. i + n - 1 <= m
        BY <1>10
      <4> QED
        BY <4>1, <1>12
    <3> QED
      BY <3>2, <1>9
  <2>2. i + 0 = i /\ i + l + 0 = i + l /\ 0 \in 0 .. n - 1 /\ \A c \in 1 .. n - 1 : c \in 0 .. n - 1
    BY <1>3, <1>10
  <2>3. h[i + l] = list[i]
    BY <2>1, <2>2
  <2>4. \A c \in 1 .. n - 1 : h[(i + l) + c] = h[i + l] + c
    BY <2>1, <2>2, <2>3, <1>10
  <2>5. i + l \in 1 .. Len(h) /\ (i + l) + n - 1 <= Len(h)
    BY <1>3, <1>9, <1>10
  <2> QED
    BY <2>4, <2>5, <1>7 DEF HasNeighbours
<1>13. CASE ~ (i + n - 1 <= p) /\ ~ (i > p)
  <2>1. /\ p + 1 \in 1 .. m
        /\ p # 0
        /\ p - i + 1 \in 1 .. n - 1
        /\ i + (p - i + 1) = p + 1
        /\ i + (p - i) = p
        /\ p # i => p - i \in 1 .. n - 1
    <3>1. i + n - 1 <= m /\ ~ (i + n - 1 <= p) /\ ~ (i > p)
      BY <1>10, <1>13
    <3> QED
      BY <3>1
  <2>2. list[i] \in Nat
    BY <1>1, <1>3, <1>10, PartsAssumption DEF C!Blocks
  <2>3. list[p + 1] = list[i] + (p - i + 1)
    BY <2>1, <1>10
  <2>4. list[p] = list[i] + (p - i)
    <3>1. CASE p = i
      <4>1. p - i = 0
        BY <3>1
      <4> QED
        BY <3>1, <4>1, <2>2
    <3>2. CASE p # i
      BY <3>2, <2>1, <1>10
    <3> QED
      BY <3>1, <3>2
  <2>5. list[p + 1] = r.first
    <3>1. PICK x \in Nat : x = list[i]
      BY <2>2
    <3>2. list[p] + 1 = x + (p - i + 1)
      BY <2>4, <3>1
    <3>3. list[p] + 1 = r.first
      BY <2>1, <1>6, Zenon
    <3> QED
      BY <2>3, <3>1, <3>2, <3>3
  <2>6. list[p + 1] \in Listing(list)
    BY <2>1, <1>1, <1>3, LenProperties DEF Listing
  <2>7. r.first \in C!blocksOf(r)
    BY <1>2, RunHasBlocks
  <2> QED
    BY <2>5, <2>6, <2>7 DEF Kept, Apart
<1> QED
  BY <1>10, <1>11, <1>12, <1>13

(* So whatever could be allocated before a run is freed can be after.      *)
LEMMA FreeKeepsFits ==
  ASSUME HeldOnce, ~ headHeld, NEW r \in held, C!consecutivePoolFree(r),
         NEW n \in 1 .. MaxRun, C!fits(freeList, n)
  PROVE  C!fits(freeList', n)
<1>1. Kept(freeList, held) /\ freeList \in Seq(C!Blocks) /\ freeList' = C!withRun(freeList, r)
  BY HeldIsKept DEF Kept, HeldParts, ListOK, C!consecutivePoolFree
<1>2. n \in Nat \ {0}
  BY PartsAssumption
<1>3. HasNeighbours(freeList, n)
  BY <1>1, LenProperties DEF C!fits, C!fitsAt, HasNeighbours
<1>4. HasNeighbours(freeList', n)
  BY <1>1, <1>2, <1>3, NeighboursStay
<1>5. DOMAIN freeList' = 1 .. Len(freeList')
  <2>1. freeList' \in Seq(C!Blocks)
    BY <1>1, GivenRun DEF Kept, ListOK
  <2> QED
    BY <2>1, LenProperties
<1> QED
  BY <1>4, <1>5 DEF C!fits, C!fitsAt, HasNeighbours
-----------------------------------------------------------------------------
(* What a step of the pool does to the blocks, and to what can be          *)
(* allocated.                                                              *)
Grows == \E r \in held : C!Run(r.first, r.len + 1) \in held' \ held
KeepsFits == \A n \in 1 .. MaxRun : C!fits(freeList, n) => C!fits(freeList', n)

LEMMA ReAllocateStep ==
  ASSUME HeldOnce, ~ headHeld, NEW r \in held, NEW n \in 2 .. MaxRun,
         C!consecutivePoolReAllocate(r, n)
  PROVE  /\ HeldOnce'
         /\ Covered(freeList', held') = Covered(freeList, held) \/ Grows
         /\ held' = held \/ \E x : x \notin held /\ held' = (held \ {r}) \cup {x}
<1>1. r \in [first : C!Blocks, len : 1 .. MaxRun]
  BY HeldIsKept DEF HeldParts, RunsOK
<1>2. n \in 1 .. MaxRun
  BY PartsAssumption
<1>3. ASSUME n > r.len, n - r.len < 2, NEW i \in DOMAIN freeList, C!growInPlace(r, i)
      PROVE  /\ HeldOnce' /\ Grows
             /\ \E x : x \notin held /\ held' = (held \ {r}) \cup {x}
  <2>1. r.len + 1 <= MaxRun
    BY <1>1, <1>2, <1>3, PartsAssumption
  <2>2. /\ HeldOnce'
        /\ C!Run(r.first, r.len + 1) \in held' \ held
        /\ held' = (held \ {r}) \cup {C!Run(r.first, r.len + 1)}
    BY <1>3, <2>1, GrowStep
  <2> QED
    BY <2>2 DEF Grows
<1>4. ASSUME C!moveRun(r, n)
      PROVE  /\ HeldOnce'
             /\ Covered(freeList', held') = Covered(freeList, held)
             /\ held' = held \/ \E x : x \notin held /\ held' = (held \ {r}) \cup {x}
  BY <1>2, <1>4, MoveStep, Zenon
<1> QED
  BY <1>3, <1>4 DEF C!consecutivePoolReAllocate

(* The pool's module counts as this one does.                              *)
LEMMA SameCardinality == \A S : C!Cardinality(S) = Cardinality(S)
BY Zenon DEF C!Cardinality, Cardinality

LEMMA PoolStep ==
  ASSUME HeldOnce, C!Next
  PROVE  /\ HeldOnce'
         /\ C!Lost' # C!Lost => Grows
         /\ Cardinality(held') < Cardinality(held) => KeepsFits
<1>1. C!Lost' = C!Blocks \ Covered(freeList', held') /\ C!Lost = C!Blocks \ Covered(freeList, held)
  BY DEF C!Lost, C!Listed, C!HeldBlocks, Covered, Listing
<1>2. IsFiniteSet(held) /\ Cardinality(held) \in Nat
  BY HeldIsKept, RunsFinite, FS_CardinalityType DEF HeldParts
<1>3. CASE C!Ruined
  <2>1. UNCHANGED <<freeList, held, headHeld, ret>>
    BY <1>3 DEF C!Ruined, C!vars
  <2>2. HeldParts'
    BY <2>1, HeldIsKept DEF HeldParts
  <2>3. HeldOnce'
    BY <2>2, HeldIsKept, PTL
  <2> QED
    BY <2>1, <2>3, <1>1, <1>2
<1>4. ASSUME ~ headHeld, NEW n \in 1 .. MaxRun, C!consecutivePoolAllocate(n)
      PROVE  /\ HeldOnce'
             /\ C!Lost' # C!Lost => Grows
             /\ Cardinality(held') < Cardinality(held) => KeepsFits
  <2>1. /\ HeldOnce'
        /\ Covered(freeList', held') = Covered(freeList, held)
        /\ held \subseteq held'
    BY <1>4, AllocateStep
  <2>2. IsFiniteSet(held')
    <3>1. HeldParts'
      BY <2>1, HeldIsKept, PTL
    <3> QED
      BY <3>1, RunsFinite DEF HeldParts
  <2>3. Cardinality(held) <= Cardinality(held') /\ Cardinality(held') \in Nat
    BY <2>1, <2>2, FS_Subset, FS_CardinalityType
  <2> QED
    BY <2>1, <2>3, <1>1, <1>2
<1>5. ASSUME ~ headHeld, NEW r \in held, C!consecutivePoolFree(r)
      PROVE  /\ HeldOnce'
             /\ C!Lost' # C!Lost => Grows
             /\ Cardinality(held') < Cardinality(held) => KeepsFits
  <2>1. HeldOnce' /\ Covered(freeList', held') = Covered(freeList, held)
    BY <1>5, FreeStep
  <2>2. KeepsFits
    BY <1>5, FreeKeepsFits DEF KeepsFits
  <2> QED
    BY <2>1, <2>2, <1>1
<1>6. ASSUME ~ headHeld, NEW r \in held, NEW n \in 2 .. MaxRun, C!consecutivePoolReAllocate(r, n)
      PROVE  /\ HeldOnce'
             /\ C!Lost' # C!Lost => Grows
             /\ Cardinality(held') < Cardinality(held) => KeepsFits
  <2>1. /\ HeldOnce'
        /\ Covered(freeList', held') = Covered(freeList, held) \/ Grows
        /\ held' = held \/ \E x : x \notin held /\ held' = (held \ {r}) \cup {x}
    BY <1>6, ReAllocateStep
  <2>2. ~ (Cardinality(held') < Cardinality(held))
    <3>1. CASE held' = held
      BY <3>1, <1>2
    <3>2. ASSUME NEW x, x \notin held, held' = (held \ {r}) \cup {x}
          PROVE  Cardinality(held') = Cardinality(held)
      <4>1. PICK rest : rest = held \ {r}
        OBVIOUS
      <4>2. IsFiniteSet(rest) /\ Cardinality(rest) = Cardinality(held) - 1
        BY <4>1, <1>2, FS_RemoveElement
      <4>3. Cardinality(rest \cup {x}) = Cardinality(rest) + 1
        BY <4>1, <4>2, <3>2, FS_AddElement
      <4> QED
        BY <4>1, <4>2, <4>3, <3>2, <1>2
    <3> QED
      BY <2>1, <3>1, <3>2, <1>2
  <2> QED
    BY <2>1, <2>2, <1>1
<1> QED
  BY <1>3, <1>4, <1>5, <1>6 DEF C!Next

(* A step of the command pool moves the blocks or leaves them alone.       *)
LEMMA PartsStep ==
  ASSUME HeldOnce, [PartsNext]_<<vars, blockVars, bufferVars, part>>
  PROVE  /\ HeldOnce'
         /\ [C!Lost' # C!Lost => Grows]_C!vars
         /\ [Cardinality(held') < Cardinality(held) => KeepsFits]_C!vars
<1>1. CASE C!Next
  BY <1>1, PoolStep
<1>2. CASE UNCHANGED blockVars
  <2>1. UNCHANGED <<freeList, held, headHeld, ret>>
    BY <1>2 DEF blockVars
  <2>2. HeldParts'
    BY <2>1, HeldIsKept DEF HeldParts
  <2>3. HeldOnce'
    BY <2>2, HeldIsKept, PTL
  <2> QED
    BY <2>1, <2>3 DEF C!vars
<1> QED
  BY <1>1, <1>2 DEF PartsNext

-----------------------------------------------------------------------------
(* No block is handed out twice, however runs are allocated, freed, grown  *)
(* and moved, until a list grows into the last free block                  *)
(* (ConsecutivePoolAllocator.c:47-258).                                    *)
THEOREM BlocksAreHeldOnce == PartsSpec => []HeldOnce
<1>1. PartsInit => HeldOnce
  BY InitHeld DEF PartsInit
<1>2. HeldOnce /\ [PartsNext]_<<vars, blockVars, bufferVars, part>> => HeldOnce'
  BY PartsStep
<1> QED
  BY <1>1, <1>2, PTL DEF PartsSpec

(* Only growing in place loses blocks, in a pool of any size               *)
(* (ConsecutivePoolAllocator.c:224).                                       *)
THEOREM OnlyGrowingLoses == PartsSpec => LostOnlyByGrowing
<1>1. HeldOnce /\ [PartsNext]_<<vars, blockVars, bufferVars, part>>
        => [C!Lost' # C!Lost => Grows]_C!vars
  BY PartsStep
<1>2. PartsSpec => [][C!Lost' # C!Lost => Grows]_C!vars
  BY <1>1, BlocksAreHeldOnce, PTL DEF PartsSpec
<1> QED
  BY <1>2 DEF LostOnlyByGrowing, C!LostOnlyByGrowing, Grows

(* Freeing splits no free run: every request that could be met before can  *)
(* be met after (ConsecutivePoolAllocator.c:126-202).                      *)
THEOREM FreeingIsHarmless == PartsSpec => FreeingKeepsFits
<1>1. HeldOnce /\ [PartsNext]_<<vars, blockVars, bufferVars, part>>
        => [C!Cardinality(held') < C!Cardinality(held) => KeepsFits]_C!vars
  BY PartsStep, SameCardinality
<1>2. PartsSpec => [][C!Cardinality(held') < C!Cardinality(held) => KeepsFits]_C!vars
  BY <1>1, BlocksAreHeldOnce, PTL DEF PartsSpec
<1> QED
  BY <1>2 DEF FreeingKeepsFits, C!FreeingKeepsFits, KeepsFits

-----------------------------------------------------------------------------
(* The lists of a command buffer, and the bytes of their blocks.           *)
ListsRec ==
  [used : [Lists -> Nat], blocks : [Lists -> Nat], over : [Lists -> Nat],
   words : SUBSET (Lists \X Nat), relocs : SUBSET (Lists \X Nat)]
size(c, l) == c.blocks[l] * BlockSize

(* Lists that end at most "slack" bytes beyond their blocks, which only    *)
(* the bin list may, and were at most written "most" bytes beyond them.    *)
InBlocks(c, slack, most) ==
  \A l \in Lists :
    /\ c.used[l] <= size(c, l) + (IF l = "bin" THEN slack ELSE 0)
    /\ c.over[l] <= (IF l = "bin" THEN most ELSE 0)

(* Lists in which more was written or room made, and no index noted.       *)
Same(c, d) == d.words = c.words /\ d.relocs = c.relocs
Longer(c, d) == \A l \in Lists : c.used[l] <= d.used[l] /\ size(c, l) <= size(d, l)

LEMMA SizeIsNat ==
  ASSUME NEW c \in ListsRec, NEW l \in Lists
  PROVE  size(c, l) \in Nat /\ c.blocks[l] \in Nat /\ c.used[l] \in Nat /\ c.over[l] \in Nat
<1>1. c.blocks[l] \in Nat /\ c.used[l] \in Nat /\ c.over[l] \in Nat
  BY DEF ListsRec
<1>2. \A b \in Nat : b * BlockSize \in Nat
  BY BlockSizeAssumption
<1> QED
  BY <1>1, <1>2 DEF size

(* Making room leaves all but the number of blocks as it is.               *)
LEMMA FitMakesRoom ==
  ASSUME NEW c \in ListsRec, NEW l \in Lists, NEW n \in Nat
  PROVE  LET d == Fit(c, l, n) IN
         /\ d \in ListsRec
         /\ d.used = c.used /\ d.over = c.over /\ Same(c, d)
         /\ \A k \in Lists : size(c, k) <= size(d, k)
         /\ c.used[l] + n <= size(d, l)
<1> DEFINE d == Fit(c, l, n)
           u == c.used[l] + n
           b == u \div BlockSize + 1
<1>1. \A k \in Lists : size(c, k) \in Nat /\ c.blocks[k] \in Nat /\ c.used[k] \in Nat
  BY SizeIsNat
<1>2. u \in Nat /\ c.used[l] \in Nat
  BY <1>1
<1>3. CASE HasEnoughSpace(c, l, n)
  <2>1. d = c /\ u <= size(c, l)
    BY <1>3 DEF Fit, HasEnoughSpace, size
  <2> QED
    BY <1>1, <2>1 DEF Same
<1>4. CASE ~ HasEnoughSpace(c, l, n)
  <2>1. ~ (u <= size(c, l))
    BY <1>4 DEF HasEnoughSpace, size
  <2>2. b \in Nat /\ u <= b * BlockSize /\ b * BlockSize \in Nat
    <3>1. PICK x \in Nat : x = u
      BY <1>2
    <3>2. /\ x \div BlockSize + 1 \in Nat
          /\ x <= (x \div BlockSize + 1) * BlockSize
          /\ (x \div BlockSize + 1) * BlockSize \in Nat
      BY BlockSizeAssumption
    <3> QED
      BY <3>1, <3>2
  <2> HIDE DEF b, u
  <2>3. d = [c EXCEPT !.blocks[l] = b]
    BY <1>4 DEF Fit, b, u
  <2>4. c = [used |-> c.used, blocks |-> c.blocks, over |-> c.over, words |-> c.words, relocs |-> c.relocs]
    BY DEF ListsRec
  <2>5. d = [used |-> c.used, blocks |-> [c.blocks EXCEPT ![l] = b], over |-> c.over,
             words |-> c.words, relocs |-> c.relocs]
    BY <2>3, <2>4
  <2> HIDE DEF d
  <2>6. d \in ListsRec
    <3>1. [c.blocks EXCEPT ![l] = b] \in [Lists -> Nat]
      BY <2>2 DEF ListsRec
    <3> QED
      BY <2>5, <3>1 DEF ListsRec
  <2>7. /\ d.blocks[l] = b /\ \A k \in Lists : k # l => d.blocks[k] = c.blocks[k]
    BY <2>5 DEF ListsRec
  <2>8. size(d, l) = b * BlockSize /\ \A k \in Lists : k # l => size(d, k) = size(c, k)
    BY <2>7 DEF size
  <2>9. u <= size(d, l) /\ \A k \in Lists : size(c, k) <= size(d, k)
    BY <1>1, <1>2, <2>1, <2>2, <2>8
  <2> QED
    BY <2>5, <2>6, <2>9 DEF Same, u, d
<1> QED
  BY <1>3, <1>4

(* A write adds to one list.                                               *)
Written(c, d, l, n, reach) ==
  /\ d \in ListsRec
  /\ Same(c, d) /\ d.blocks = c.blocks
  /\ d.used[l] = c.used[l] + n
  /\ d.over[l] = IF c.used[l] + reach - size(c, l) > c.over[l]
                 THEN c.used[l] + reach - size(c, l) ELSE c.over[l]
  /\ \A k \in Lists : k # l => d.used[k] = c.used[k] /\ d.over[k] = c.over[k]

LEMMA WriteAdds ==
  ASSUME NEW c \in ListsRec, NEW l \in Lists, NEW n \in Nat, NEW reach \in Nat
  PROVE  Written(c, Write(c, l, n, reach), l, n, reach)
<1> DEFINE d == Write(c, l, n, reach)
           past == c.used[l] + reach - size(c, l)
           o == IF past > c.over[l] THEN past ELSE c.over[l]
<1>1. \A k \in Lists : size(c, k) \in Nat /\ c.over[k] \in Nat /\ c.used[k] \in Nat
  BY SizeIsNat
<1>2. past \in Int /\ o \in Nat
  BY <1>1
<1>3. c = [used |-> c.used, blocks |-> c.blocks, over |-> c.over, words |-> c.words, relocs |-> c.relocs]
  BY DEF ListsRec
<1>4. d = [c EXCEPT !.used[l] = @ + n, !.over[l] = IF past > @ THEN past ELSE @]
  BY DEF Write, size
<1> HIDE DEF past, d
<1>5. d = [used |-> [c.used EXCEPT ![l] = c.used[l] + n], blocks |-> c.blocks,
           over |-> [c.over EXCEPT ![l] = o], words |-> c.words, relocs |-> c.relocs]
  BY <1>3, <1>4
<1>6. /\ [c.used EXCEPT ![l] = c.used[l] + n] \in [Lists -> Nat]
      /\ [c.over EXCEPT ![l] = o] \in [Lists -> Nat]
  BY <1>1, <1>2 DEF ListsRec
<1>7. d \in ListsRec
  BY <1>5, <1>6 DEF ListsRec
<1>8. d.used[l] = c.used[l] + n /\ d.over[l] = o
  BY <1>5 DEF ListsRec
<1>9. \A k \in Lists : k # l => d.used[k] = c.used[k] /\ d.over[k] = c.over[k]
  BY <1>5 DEF ListsRec
<1>10. Same(c, d) /\ d.blocks = c.blocks
  BY <1>5 DEF Same
<1> QED
  BY <1>7, <1>8, <1>9, <1>10 DEF d, past, Written

(* d comes after c: in its blocks, and nothing less in it.                 *)
After(c, d, slack, most) ==
  d \in ListsRec /\ InBlocks(d, slack, most) /\ Same(c, d) /\ Longer(c, d)

LEMMA AfterItself ==
  ASSUME NEW c \in ListsRec, NEW slack, NEW most, InBlocks(c, slack, most)
  PROVE  After(c, c, slack, most)
<1>1. Longer(c, c)
  BY SizeIsNat DEF Longer
<1> QED
  BY <1>1 DEF After, Same

LEMMA AfterAfter ==
  ASSUME NEW c \in ListsRec, NEW d \in ListsRec, NEW e, NEW slack, NEW most,
         Same(c, d), Longer(c, d), After(d, e, slack, most)
  PROVE  After(c, e, slack, most)
<1>1. ASSUME NEW l \in Lists  PROVE  c.used[l] <= e.used[l] /\ size(c, l) <= size(e, l)
  <2>1. /\ c.used[l] \in Nat /\ d.used[l] \in Nat /\ e.used[l] \in Nat
        /\ size(c, l) \in Nat /\ size(d, l) \in Nat /\ size(e, l) \in Nat
    BY SizeIsNat DEF After
  <2>2. /\ c.used[l] <= d.used[l] /\ size(c, l) <= size(d, l)
        /\ d.used[l] <= e.used[l] /\ size(d, l) <= size(e, l)
    BY DEF After, Longer
  <2> QED
    BY <2>1, <2>2
<1> QED
  BY <1>1 DEF After, Same, Longer

(* A write into room there is.                                             *)
LEMMA PutKeeps ==
  ASSUME NEW c \in ListsRec, NEW l \in Lists, NEW n \in Nat, NEW slack \in Nat, NEW most \in Nat,
         InBlocks(c, slack, most), c.used[l] + n <= size(c, l)
  PROVE  /\ After(c, Put(c, l, n), slack, most)
         /\ Put(c, l, n).used[l] = c.used[l] + n
         /\ \A k \in Lists : k # l => Put(c, l, n).used[k] = c.used[k]
         /\ \A k \in Lists : size(Put(c, l, n), k) = size(c, k)
<1>1. PICK d : d = Write(c, l, n, n)
  OBVIOUS
<1>2. /\ d \in ListsRec /\ Same(c, d) /\ d.blocks = c.blocks
      /\ d.used[l] = c.used[l] + n
      /\ d.over[l] = IF c.used[l] + n - size(c, l) > c.over[l]
                     THEN c.used[l] + n - size(c, l) ELSE c.over[l]
      /\ \A k \in Lists : k # l => d.used[k] = c.used[k] /\ d.over[k] = c.over[k]
  <2>1. Written(c, d, l, n, n)
    BY <1>1, WriteAdds
  <2> QED
    BY <2>1 DEF Written
<1>3. \A k \in Lists : size(c, k) \in Nat /\ c.used[k] \in Nat /\ c.over[k] \in Nat
  BY SizeIsNat
<1>4. \A k \in Lists : size(d, k) = size(c, k)
  BY <1>2 DEF size
<1>5. d.over[l] = c.over[l]
  BY <1>2, <1>3
<1>6. InBlocks(d, slack, most)
  <2>1. ASSUME NEW k \in Lists
        PROVE  /\ d.used[k] <= size(d, k) + (IF k = "bin" THEN slack ELSE 0)
               /\ d.over[k] <= (IF k = "bin" THEN most ELSE 0)
    <3>1. /\ c.used[k] <= size(c, k) + (IF k = "bin" THEN slack ELSE 0)
          /\ c.over[k] <= (IF k = "bin" THEN most ELSE 0)
      BY DEF InBlocks
    <3>2. CASE k = l
      BY <1>2, <1>3, <1>4, <1>5, <3>1, <3>2
    <3>3. CASE k # l
      BY <1>2, <1>4, <3>1, <3>3
    <3> QED
      BY <3>2, <3>3
  <2> QED
    BY <2>1 DEF InBlocks
<1>7. Longer(c, d)
  BY <1>2, <1>3, <1>4 DEF Longer
<1> QED
  BY <1>1, <1>2, <1>4, <1>6, <1>7 DEF Put, After

LEMMA FitKeeps ==
  ASSUME NEW c \in ListsRec, NEW l \in Lists, NEW n \in Nat, NEW slack \in Nat, NEW most \in Nat,
         InBlocks(c, slack, most)
  PROVE  /\ After(c, Fit(c, l, n), slack, most)
         /\ Fit(c, l, n).used = c.used
         /\ c.used[l] + n <= size(Fit(c, l, n), l)
<1>1. PICK d : d = Fit(c, l, n)
  OBVIOUS
<1>2. /\ d \in ListsRec /\ d.used = c.used /\ d.over = c.over /\ Same(c, d)
      /\ \A k \in Lists : size(c, k) <= size(d, k)
      /\ c.used[l] + n <= size(d, l)
  BY <1>1, FitMakesRoom
<1>3. \A k \in Lists : size(c, k) \in Nat /\ c.used[k] \in Nat /\ size(d, k) \in Nat
  BY <1>2, SizeIsNat
<1>4. InBlocks(d, slack, most)
  <2>1. ASSUME NEW k \in Lists
        PROVE  /\ d.used[k] <= size(d, k) + (IF k = "bin" THEN slack ELSE 0)
               /\ d.over[k] <= (IF k = "bin" THEN most ELSE 0)
    <3>1. /\ c.used[k] <= size(c, k) + (IF k = "bin" THEN slack ELSE 0)
          /\ c.over[k] <= (IF k = "bin" THEN most ELSE 0)
      BY DEF InBlocks
    <3> QED
      BY <1>2, <1>3, <3>1
  <2> QED
    BY <2>1 DEF InBlocks
<1>5. Longer(c, d)
  BY <1>2, <1>3 DEF Longer
<1> QED
  BY <1>1, <1>2, <1>4, <1>5 DEF After

LEMMA EmitKeeps ==
  ASSUME NEW c \in ListsRec, NEW l \in Lists, NEW n \in Nat, NEW slack \in Nat, NEW most \in Nat,
         InBlocks(c, slack, most)
  PROVE  /\ After(c, Emit(c, l, n), slack, most)
         /\ Emit(c, l, n).used[l] = c.used[l] + n
         /\ \A k \in Lists : k # l => Emit(c, l, n).used[k] = c.used[k]
<1>1. PICK d : d = Fit(c, l, n)
  OBVIOUS
<1>2. After(c, d, slack, most) /\ d.used = c.used /\ d.used[l] + n <= size(d, l)
  BY <1>1, FitKeeps
<1>3. d \in ListsRec /\ InBlocks(d, slack, most) /\ Same(c, d) /\ Longer(c, d)
  BY <1>2 DEF After
<1>4. PICK e : e = Put(d, l, n)
  OBVIOUS
<1>5. /\ After(d, e, slack, most) /\ e.used[l] = d.used[l] + n
      /\ \A k \in Lists : k # l => e.used[k] = d.used[k]
  BY <1>2, <1>3, <1>4, PutKeeps
<1>6. After(c, e, slack, most)
  BY <1>3, <1>5, AfterAfter
<1>7. Emit(c, l, n) = e
  BY <1>1, <1>4 DEF Emit
<1> QED
  BY <1>2, <1>5, <1>6, <1>7

-----------------------------------------------------------------------------
(* Steps one after the other.                                              *)
LEMMA DoneKeeps ==
  ASSUME NEW c \in ListsRec, NEW slack \in Nat, NEW most \in Nat, InBlocks(c, slack, most),
         NEW steps \in Seq(Lists \X Nat)
  PROVE  After(c, Done(c, steps), slack, most)
<1>1. PICK m \in Nat : m = Len(steps)
  OBVIOUS
<1> DEFINE S == {d \in ListsRec : After(c, d, slack, most)}
           next(d, n) == Emit(d, steps[n][1], steps[n][2])
           Fits(f) == f = [n \in 0 .. m |-> IF n = 0 THEN c ELSE next(f[n - 1], n)]
<1>2. c \in S
  BY AfterItself
<1>3. ASSUME NEW d \in S, NEW n \in 1 .. m  PROVE  next(d, n) \in S
  <2>1. /\ steps[n][1] \in Lists /\ steps[n][2] \in Nat
        /\ d \in ListsRec /\ InBlocks(d, slack, most) /\ Same(c, d) /\ Longer(c, d)
    BY <1>1 DEF After
  <2>2. After(d, next(d, n), slack, most)
    BY <2>1, EmitKeeps
  <2>3. After(c, next(d, n), slack, most)
    BY <2>1, <2>2, AfterAfter
  <2> QED
    BY <2>2, <2>3 DEF After
<1> HIDE DEF S, next
<1>4. \E f : Fits(f)
  <2> DEFINE G == [x \in S \X Nat |-> IF x[2] \in 1 .. m THEN next(x[1], x[2]) ELSE x[1]]
  <2>1. G \in [S \X Nat -> S]
    BY <1>3
  <2>2. PICK f : Stepwise(f, S, c, G, m)
    <3> HIDE DEF G
    <3> QED
      BY <1>2, <2>1, StepByStep, Zenon
  <2>3. ASSUME NEW n \in 0 .. m
        PROVE  f[n] = IF n = 0 THEN c ELSE next(f[n - 1], n)
    <3>1. CASE n = 0
      BY <2>2, <3>1 DEF Stepwise
    <3>2. CASE n # 0
      <4>1. n \in 1 .. m /\ n - 1 \in 0 .. m
        BY <3>2
      <4>2. <<f[n - 1], n>> \in S \X Nat
        BY <2>2, <4>1 DEF Stepwise
      <4>3. G[<<f[n - 1], n>>] = next(f[n - 1], n)
        BY <4>1, <4>2
      <4> QED
        BY <2>2, <3>2, <4>1, <4>3 DEF Stepwise
    <3> QED
      BY <3>1, <3>2
  <2> HIDE DEF G
  <2>4. Fits(f)
    BY <2>2, <2>3 DEF Stepwise
  <2> QED
    BY <2>4
<1>5. PICK f : f = CHOOSE g : Fits(g)
  OBVIOUS
<1>6. Fits(f)
  BY <1>4, <1>5
<1>7. Done(c, steps) = f[m]
  BY <1>1, <1>5 DEF Done, Each, next
<1>8. f[0] \in S
  BY <1>2, <1>6
<1>9. ASSUME NEW n \in 1 .. m, f[n - 1] \in S  PROVE  f[n] \in S
  <2>1. f[n] = next(f[n - 1], n)
    BY <1>6
  <2> QED
    BY <1>3, <1>9, <2>1
<1>10. f[m] \in S
  <2> HIDE DEF Fits
  <2> QED
    BY <1>8, <1>9, LastOfSteps
<1> QED
  BY <1>7, <1>10 DEF S

-----------------------------------------------------------------------------
(* The words with indices are told where they are, lie inside their lists  *)
(* and do not overlap.                                                     *)
WordsApart(w, v) == w[1] = v[1] => w[2] + 4 <= v[2] \/ v[2] + 4 <= w[2]

IndexesOK(c) ==
  /\ c.relocs = IF level = "SECONDARY" THEN c.words ELSE {}
  /\ \A w \in c.words : w[2] + 4 <= c.used[w[1]] /\ \A v \in c.words : w # v => WordsApart(w, v)

(* A step that keeps what holds of the lists.                              *)
Step(c, d, slack, most) ==
  d \in ListsRec /\ InBlocks(d, slack, most) /\ Longer(c, d) /\ (IndexesOK(c) => IndexesOK(d))

LEMMA IndexesKept ==
  ASSUME NEW c \in ListsRec, NEW d \in ListsRec, Same(c, d), Longer(c, d), IndexesOK(c)
  PROVE  IndexesOK(d)
<1>1. ASSUME NEW w \in c.words  PROVE  w[2] + 4 <= d.used[w[1]]
  <2>1. w[1] \in Lists /\ w[2] \in Nat
    BY DEF ListsRec
  <2>2. c.used[w[1]] \in Nat /\ d.used[w[1]] \in Nat
    BY <2>1, SizeIsNat
  <2>3. w[2] + 4 <= c.used[w[1]] /\ c.used[w[1]] <= d.used[w[1]]
    BY <2>1 DEF IndexesOK, Longer
  <2> QED
    BY <2>1, <2>2, <2>3
<1> QED
  BY <1>1 DEF IndexesOK, Same

LEMMA AfterIsStep ==
  ASSUME NEW c \in ListsRec, NEW d, NEW slack, NEW most, After(c, d, slack, most)
  PROVE  Step(c, d, slack, most)
BY IndexesKept DEF After, Step

LEMMA StepStep ==
  ASSUME NEW c \in ListsRec, NEW d, NEW e, NEW slack, NEW most, NEW slack2, NEW most2,
         Step(c, d, slack, most), Step(d, e, slack2, most2)
  PROVE  Step(c, e, slack2, most2)
<1>1. ASSUME NEW l \in Lists  PROVE  c.used[l] <= e.used[l] /\ size(c, l) <= size(e, l)
  <2>1. /\ c.used[l] \in Nat /\ d.used[l] \in Nat /\ e.used[l] \in Nat
        /\ size(c, l) \in Nat /\ size(d, l) \in Nat /\ size(e, l) \in Nat
    BY SizeIsNat DEF Step
  <2>2. /\ c.used[l] <= d.used[l] /\ size(c, l) <= size(d, l)
        /\ d.used[l] <= e.used[l] /\ size(d, l) <= size(e, l)
    BY DEF Step, Longer
  <2> QED
    BY <2>1, <2>2
<1> QED
  BY <1>1 DEF Step, Longer

(* Indices at new places of a list, in the words a step adds to it.        *)
LEMMA IndexesAdded ==
  ASSUME NEW c \in ListsRec, NEW d \in ListsRec, Longer(c, d), IndexesOK(c),
         NEW l \in Lists, NEW A \in SUBSET Nat,
         d.words = c.words \cup {<<l, at>> : at \in A},
         d.relocs = c.relocs \cup (IF level = "SECONDARY" THEN {<<l, at>> : at \in A} ELSE {}),
         \A at \in A : c.used[l] <= at /\ at + 4 <= d.used[l],
         \A at, bt \in A : at # bt => at + 4 <= bt \/ bt + 4 <= at
  PROVE  IndexesOK(d)
<1>1. d.relocs = IF level = "SECONDARY" THEN d.words ELSE {}
  BY DEF IndexesOK
<1>2. ASSUME NEW w \in c.words
      PROVE  /\ w[1] \in Lists /\ w[2] \in Nat /\ w[2] + 4 <= c.used[w[1]]
             /\ w[2] + 4 <= d.used[w[1]]
             /\ c.used[w[1]] \in Nat
  <2>1. w[1] \in Lists /\ w[2] \in Nat
    BY DEF ListsRec
  <2>2. c.used[w[1]] \in Nat /\ d.used[w[1]] \in Nat
    BY <2>1, SizeIsNat
  <2>3. w[2] + 4 <= c.used[w[1]] /\ c.used[w[1]] <= d.used[w[1]]
    BY <2>1 DEF IndexesOK, Longer
  <2> QED
    BY <2>1, <2>2, <2>3
<1>3. ASSUME NEW w \in d.words  PROVE  w[2] + 4 <= d.used[w[1]]
  BY <1>2
<1>4. ASSUME NEW w \in c.words, NEW at \in A
      PROVE  WordsApart(w, <<l, at>>) /\ WordsApart(<<l, at>>, w)
  <2>1. ASSUME w[1] = l  PROVE  w[2] + 4 <= at
    <3>1. c.used[l] <= at /\ at \in Nat
      OBVIOUS
    <3> QED
      BY <1>2, <2>1, <3>1
  <2> QED
    BY <2>1 DEF WordsApart
<1>5. ASSUME NEW w \in d.words, NEW v \in d.words, w # v  PROVE  WordsApart(w, v)
  <2>1. CASE w \in c.words /\ v \in c.words
    BY <1>5, <2>1 DEF IndexesOK
  <2>2. CASE w \in c.words /\ v \notin c.words
    BY <1>4, <2>2
  <2>3. CASE w \notin c.words /\ v \in c.words
    BY <1>4, <2>3
  <2>4. CASE w \notin c.words /\ v \notin c.words
    BY <1>5, <2>4 DEF WordsApart
  <2> QED
    BY <2>1, <2>2, <2>3, <2>4
<1> QED
  BY <1>1, <1>3, <1>5 DEF IndexesOK

(* Noting indices at the places A makes one relocation list longer.        *)
Adds(c, d, l, r, A) ==
  /\ d \in ListsRec /\ Longer(c, d)
  /\ \A k \in Lists : k # r => d.used[k] = c.used[k]
  /\ d.words = c.words \cup {<<l, at>> : at \in A}
  /\ d.relocs = c.relocs \cup (IF level = "SECONDARY" THEN {<<l, at>> : at \in A} ELSE {})

LEMMA NotedKeeps ==
  ASSUME NEW c \in ListsRec, NEW slack \in Nat, NEW most \in Nat, InBlocks(c, slack, most),
         NEW l \in Lists, NEW r \in Lists, NEW ats \in Seq(Nat)
  PROVE  /\ Adds(c, Noted(c, l, r, ats), l, r, ToSet(ats))
         /\ InBlocks(Noted(c, l, r, ats), slack, most)
<1> DEFINE new == {<<l, at>> : at \in ToSet(ats)}
<1>1. new \in SUBSET (Lists \X Nat)
  BY DEF ToSet
<1>2. PICK b : b = [c EXCEPT !.words = @ \cup new]
  OBVIOUS
<1>3. 4 * Len(ats) \in Nat
  OBVIOUS
<1>4. c = [used |-> c.used, blocks |-> c.blocks, over |-> c.over, words |-> c.words, relocs |-> c.relocs]
  BY DEF ListsRec
<1> HIDE DEF new
<1>5. b = [used |-> c.used, blocks |-> c.blocks, over |-> c.over, words |-> c.words \cup new,
           relocs |-> c.relocs]
  BY <1>2, <1>4
<1>6. /\ b \in ListsRec /\ InBlocks(b, slack, most) /\ Longer(c, b)
      /\ b.used = c.used /\ b.words = c.words \cup new /\ b.relocs = c.relocs
  <2>1. b \in ListsRec
    BY <1>1, <1>5 DEF ListsRec
  <2>2. InBlocks(b, slack, most)
    BY <1>5 DEF InBlocks, size
  <2>3. Longer(c, b)
    BY <1>5, <2>1, SizeIsNat DEF Longer, size
  <2> QED
    BY <1>5, <2>1, <2>2, <2>3
<1>7. CASE level # "SECONDARY"
  <2>1. Noted(c, l, r, ats) = b
    BY <1>2, <1>7 DEF Noted, new
  <2> QED
    BY <1>6, <1>7, <2>1 DEF new, Adds
<1>8. CASE level = "SECONDARY"
  <2>1. PICK e : e = Emit(b, r, 4 * Len(ats))
    OBVIOUS
  <2>2. PICK d : d = [e EXCEPT !.relocs = @ \cup new]
    OBVIOUS
  <2>3. Noted(c, l, r, ats) = d
    BY <1>2, <1>8, <2>1, <2>2 DEF Noted, new
  <2>4. After(b, e, slack, most) /\ \A k \in Lists : k # r => e.used[k] = b.used[k]
    <3>1. PICK n \in Nat : n = 4 * Len(ats)
      BY <1>3
    <3> QED
      BY <1>6, <2>1, <3>1, EmitKeeps
  <2>5. /\ e \in ListsRec /\ InBlocks(e, slack, most) /\ e.words = b.words /\ e.relocs = b.relocs
        /\ Longer(b, e)
    BY <2>4 DEF After, Same
  <2>6. e = [used |-> e.used, blocks |-> e.blocks, over |-> e.over, words |-> e.words, relocs |-> e.relocs]
    BY <2>5 DEF ListsRec
  <2>7. d = [used |-> e.used, blocks |-> e.blocks, over |-> e.over, words |-> e.words,
             relocs |-> e.relocs \cup new]
    BY <2>2, <2>6
  <2>8. d \in ListsRec
    BY <1>1, <2>5, <2>7 DEF ListsRec
  <2>9. InBlocks(d, slack, most)
    BY <2>5, <2>7 DEF InBlocks, size
  <2>10. Longer(c, d)
    BY <1>5, <2>5, <2>7 DEF Longer, size
  <2>11. d.words = c.words \cup new /\ d.relocs = c.relocs \cup new /\ d.used = e.used
    BY <1>6, <2>5, <2>7
  <2> QED
    BY <1>6, <1>8, <2>3, <2>4, <2>8, <2>9, <2>10, <2>11 DEF new, Adds
<1> QED
  BY <1>7, <1>8

-----------------------------------------------------------------------------
(* The parts of a recorded command.                                        *)
LEMMA ListNames == {"bin", "handles", "shaderRec", "uniforms"} \subseteq Lists
BY DEF Lists

LEMMA WithSlack ==
  ASSUME NEW c \in ListsRec, NEW slack \in Nat, NEW slack2 \in Nat, slack <= slack2,
         NEW most \in Nat, NEW most2 \in Nat, most <= most2, InBlocks(c, slack, most)
  PROVE  InBlocks(c, slack2, most2)
<1>1. ASSUME NEW l \in Lists
      PROVE  /\ c.used[l] <= size(c, l) + (IF l = "bin" THEN slack2 ELSE 0)
             /\ c.over[l] <= (IF l = "bin" THEN most2 ELSE 0)
  <2>1. size(c, l) \in Nat /\ c.used[l] \in Nat /\ c.over[l] \in Nat
    BY SizeIsNat
  <2>2. /\ c.used[l] <= size(c, l) + (IF l = "bin" THEN slack ELSE 0)
        /\ c.over[l] <= (IF l = "bin" THEN most ELSE 0)
    BY DEF InBlocks
  <2> QED
    BY <2>1, <2>2
<1> QED
  BY <1>1 DEF InBlocks

(* A handle index is at most four bytes.                                   *)
LEMMA IndexKeeps ==
  ASSUME NEW c \in ListsRec, NEW slack \in Nat, NEW most \in Nat, InBlocks(c, slack, most),
         NEW hs, NEW bo, c.used["handles"] + 4 <= size(c, "handles")
  PROVE  LET d == GetHandleIndex(c, hs, bo) IN
         /\ After(c, d, slack, most)
         /\ d.used["handles"] <= c.used["handles"] + 4
         /\ \A k \in Lists : k # "handles" => d.used[k] = c.used[k]
         /\ size(d, "handles") = size(c, "handles")
<1>1. "handles" \in Lists
  BY ListNames
<1>2. c.used["handles"] \in Nat
  BY <1>1, SizeIsNat
<1>3. CASE bo \in hs
  <2>1. GetHandleIndex(c, hs, bo) = c
    BY <1>3 DEF GetHandleIndex
  <2> QED
    BY <1>2, <2>1, AfterItself
<1>4. CASE bo \notin hs
  <2>1. PICK d : d = Put(c, "handles", 4)
    OBVIOUS
  <2>2. /\ After(c, d, slack, most) /\ d.used["handles"] = c.used["handles"] + 4
        /\ \A k \in Lists : k # "handles" => d.used[k] = c.used[k]
        /\ \A k \in Lists : size(d, k) = size(c, k)
    BY <1>1, <2>1, PutKeeps
  <2>3. GetHandleIndex(c, hs, bo) = d
    BY <1>4, <2>1 DEF GetHandleIndex
  <2> QED
    BY <1>1, <1>2, <2>2, <2>3
<1> QED
  BY <1>3, <1>4

LEMMA HandleKeeps ==
  ASSUME NEW c \in ListsRec, NEW slack \in Nat, NEW most \in Nat, InBlocks(c, slack, most),
         NEW hs, NEW bo
  PROVE  /\ After(c, Handle(c, hs, bo), slack, most)
         /\ \A k \in Lists : k # "handles" => Handle(c, hs, bo).used[k] = c.used[k]
<1>1. PICK d : d = Fit(c, "handles", 4)
  OBVIOUS
<1>2. /\ After(c, d, slack, most) /\ d.used = c.used
      /\ d.used["handles"] + 4 <= size(d, "handles")
  BY <1>1, ListNames, FitKeeps
<1>3. d \in ListsRec /\ InBlocks(d, slack, most) /\ Same(c, d) /\ Longer(c, d)
  BY <1>2 DEF After
<1>4. PICK e : e = GetHandleIndex(d, hs, bo)
  OBVIOUS
<1>5. After(d, e, slack, most) /\ \A k \in Lists : k # "handles" => e.used[k] = d.used[k]
  BY <1>2, <1>3, <1>4, IndexKeeps
<1>6. After(c, e, slack, most)
  BY <1>3, <1>5, AfterAfter
<1> QED
  BY <1>1, <1>2, <1>4, <1>5, <1>6 DEF Handle

(* The configuration bits end four bytes on, in the blocks, and are        *)
(* written a byte further.                                                 *)
LEMMA ConfigurationKeeps ==
  ASSUME NEW c \in ListsRec, NEW slack \in Nat, NEW most \in Nat \ {0}, InBlocks(c, slack, most)
  PROVE  After(c, ConfigurationBits(c), 0, most)
<1>1. PICK d : d = Fit(c, "bin", 4)
  OBVIOUS
<1>2. "bin" \in Lists /\ most \in Nat
  BY ListNames
<1>3. After(c, d, slack, most) /\ d.used = c.used /\ d.used["bin"] + 4 <= size(d, "bin")
  BY <1>1, <1>2, FitKeeps
<1>4. d \in ListsRec /\ InBlocks(d, slack, most) /\ Same(c, d) /\ Longer(c, d)
  BY <1>3 DEF After
<1>5. PICK e : e = Write(d, "bin", 4, 5)
  OBVIOUS
<1> DEFINE past(n) == d.used["bin"] + n - size(d, "bin")
<1>6. /\ e \in ListsRec /\ Same(d, e) /\ e.blocks = d.blocks
      /\ e.used["bin"] = d.used["bin"] + 4
      /\ e.over["bin"] = IF past(5) > d.over["bin"] THEN past(5) ELSE d.over["bin"]
      /\ \A k \in Lists : k # "bin" => e.used[k] = d.used[k] /\ e.over[k] = d.over[k]
  <2>1. 4 \in Nat /\ 5 \in Nat
    OBVIOUS
  <2>2. Written(d, e, "bin", 4, 5)
    BY <1>2, <1>4, <1>5, <2>1, WriteAdds, Zenon
  <2> QED
    BY <2>2 DEF Written
<1>7. e.over["bin"] = past(5) \/ e.over["bin"] = d.over["bin"]
  BY <1>6
<1>8. \A k \in Lists : size(e, k) = size(d, k)
  BY <1>6 DEF size
<1>9. \A k \in Lists : d.used[k] \in Nat /\ d.over[k] \in Nat /\ size(d, k) \in Nat
  BY <1>4, SizeIsNat
<1>10. InBlocks(e, 0, most)
  <2>1. ASSUME NEW k \in Lists
        PROVE  /\ e.used[k] <= size(e, k) + (IF k = "bin" THEN 0 ELSE 0)
               /\ e.over[k] <= (IF k = "bin" THEN most ELSE 0)
    <3>1. /\ d.used[k] <= size(d, k) + (IF k = "bin" THEN slack ELSE 0)
          /\ d.over[k] <= (IF k = "bin" THEN most ELSE 0)
      BY <1>4 DEF InBlocks
    <3>2. CASE k = "bin"
      <4>1. d.used["bin"] + 5 - size(d, "bin") <= most
        BY <1>2, <1>3, <1>9
      <4> QED
        BY <1>3, <1>6, <1>7, <1>8, <1>9, <3>1, <3>2, <4>1
    <3>3. CASE k # "bin"
      BY <1>6, <1>8, <3>1, <3>3
    <3> QED
      BY <3>2, <3>3
  <2> QED
    BY <2>1 DEF InBlocks
<1>11. Longer(d, e)
  BY <1>2, <1>6, <1>8, <1>9 DEF Longer
<1>12. After(d, e, 0, most)
  BY <1>6, <1>10, <1>11 DEF After
<1>13. After(c, e, 0, most)
  BY <1>4, <1>12, AfterAfter
<1> QED
  BY <1>1, <1>5, <1>13 DEF ConfigurationBits

LEMMA StateKeeps ==
  ASSUME NEW c \in ListsRec, NEW slack \in Nat, NEW most \in Nat \ {0}, InBlocks(c, slack, most)
  PROVE  After(c, StatePackets(c), 0, most)
<1>1. PICK d : d = Done(c, <<LineWidth, ClipWindow, ClipperXYScaling, ViewportOffset>>)
  OBVIOUS
<1>2. PICK b : b = ConfigurationBits(d)
  OBVIOUS
<1>3. PICK e : e = Done(b, <<DepthOffset, ClipperZScaleOffset, PointSize, FlatShadeFlags, ShaderState>>)
  OBVIOUS
<1>4. /\ <<LineWidth, ClipWindow, ClipperXYScaling, ViewportOffset>> \in Seq(Lists \X Nat)
      /\ <<DepthOffset, ClipperZScaleOffset, PointSize, FlatShadeFlags, ShaderState>> \in Seq(Lists \X Nat)
  BY DEF LineWidth, ClipWindow, ClipperXYScaling, ViewportOffset, DepthOffset,
         ClipperZScaleOffset, PointSize, FlatShadeFlags, ShaderState, Lists
<1>5. After(c, d, slack, most)
  BY <1>1, <1>4, DoneKeeps
<1>6. d \in ListsRec /\ InBlocks(d, slack, most) /\ Same(c, d) /\ Longer(c, d)
  BY <1>5 DEF After
<1>7. After(d, b, 0, most)
  BY <1>2, <1>6, ConfigurationKeeps
<1>8. b \in ListsRec /\ InBlocks(b, 0, most) /\ Same(d, b) /\ Longer(d, b)
  BY <1>7 DEF After
<1>9. After(b, e, 0, most)
  BY <1>3, <1>4, <1>8, DoneKeeps
<1>10. After(c, e, 0, most)
  BY <1>6, <1>8, <1>9, AfterAfter
<1> QED
  BY <1>1, <1>2, <1>3, <1>10 DEF StatePackets

(* Handles of several objects, with room made for each.                    *)
LEMMA HandlesKeep ==
  ASSUME NEW c \in ListsRec, NEW slack \in Nat, NEW most \in Nat, InBlocks(c, slack, most),
         NEW hs, NEW bos, Len(bos) \in Nat
  PROVE  After(c, Handles(c, hs, bos), slack, most)
<1>1. PICK m \in Nat : m = Len(bos)
  OBVIOUS
<1> DEFINE S == {d \in ListsRec : After(c, d, slack, most)}
           next(d, n) == IF bos[n] = None THEN d ELSE Handle(d, before(hs, bos, n), bos[n])
           Fits(f) == f = [n \in 0 .. m |-> IF n = 0 THEN c ELSE next(f[n - 1], n)]
<1>2. c \in S
  BY AfterItself
<1>3. ASSUME NEW d \in S, NEW n \in 1 .. m  PROVE  next(d, n) \in S
  <2>1. d \in ListsRec /\ InBlocks(d, slack, most) /\ Same(c, d) /\ Longer(c, d)
    BY DEF After
  <2>2. PICK e : e = Handle(d, before(hs, bos, n), bos[n])
    OBVIOUS
  <2>3. After(d, e, slack, most)
    BY <2>1, <2>2, HandleKeeps
  <2>4. After(c, e, slack, most) /\ e \in ListsRec
    BY <2>1, <2>3, AfterAfter DEF After
  <2> QED
    BY <2>2, <2>4
<1> HIDE DEF S, next
<1>4. \E f : Fits(f)
  <2> DEFINE G == [x \in S \X Nat |-> IF x[2] \in 1 .. m THEN next(x[1], x[2]) ELSE x[1]]
  <2>1. G \in [S \X Nat -> S]
    BY <1>3
  <2>2. PICK f : Stepwise(f, S, c, G, m)
    <3> HIDE DEF G
    <3> QED
      BY <1>2, <2>1, StepByStep, Zenon
  <2>3. ASSUME NEW n \in 0 .. m
        PROVE  f[n] = IF n = 0 THEN c ELSE next(f[n - 1], n)
    <3>1. CASE n = 0
      BY <2>2, <3>1 DEF Stepwise
    <3>2. CASE n # 0
      <4>1. n \in 1 .. m /\ n - 1 \in 0 .. m
        BY <3>2
      <4>2. <<f[n - 1], n>> \in S \X Nat
        BY <2>2, <4>1 DEF Stepwise
      <4>3. G[<<f[n - 1], n>>] = next(f[n - 1], n)
        BY <4>1, <4>2
      <4> QED
        BY <2>2, <3>2, <4>1, <4>3 DEF Stepwise
    <3> QED
      BY <3>1, <3>2
  <2> HIDE DEF G
  <2>4. Fits(f)
    BY <2>2, <2>3 DEF Stepwise
  <2> QED
    BY <2>4
<1>5. PICK f : f = CHOOSE g : Fits(g)
  OBVIOUS
<1>6. Fits(f)
  BY <1>4, <1>5
<1>7. Handles(c, hs, bos) = f[m]
  BY <1>1, <1>5 DEF Handles, Each, next
<1>8. f[0] \in S
  BY <1>2, <1>6
<1>9. ASSUME NEW n \in 1 .. m, f[n - 1] \in S  PROVE  f[n] \in S
  <2>1. f[n] = next(f[n - 1], n)
    BY <1>6
  <2> QED
    BY <1>3, <1>9, <2>1
<1>10. f[m] \in S
  <2> HIDE DEF Fits
  <2> QED
    BY <1>8, <1>9, LastOfSteps
<1> QED
  BY <1>7, <1>10 DEF S

LEMMA IndexType ==
  ASSUME NEW c \in ListsRec, NEW hs, NEW bo
  PROVE  GetHandleIndex(c, hs, bo) \in ListsRec
<1>1. 4 \in Nat /\ "handles" \in Lists
  BY ListNames
<1>2. Written(c, Write(c, "handles", 4, 4), "handles", 4, 4)
  BY <1>1, WriteAdds, Zenon
<1> QED
  BY <1>2 DEF GetHandleIndex, Put, Written

(* Handles of several objects, with room made for all of them before.      *)
Named(c, hs, bos) ==
  Each(LAMBDA d, k : GetHandleIndex(d, before(hs, bos, k), bos[k]), c, Len(bos))

LEMMA NamedKeep ==
  ASSUME NEW c \in ListsRec, NEW slack \in Nat, NEW most \in Nat, InBlocks(c, slack, most),
         NEW hs, NEW bos, Len(bos) \in Nat,
         c.used["handles"] + 4 * Len(bos) <= size(c, "handles")
  PROVE  /\ After(c, Named(c, hs, bos), slack, most)
         /\ \A k \in Lists : k # "handles" => Named(c, hs, bos).used[k] = c.used[k]
<1>1. PICK m \in Nat : m = Len(bos)
  OBVIOUS
<1> DEFINE S == ListsRec
           next(d, n) == GetHandleIndex(d, before(hs, bos, n), bos[n])
           Fits(f) == f = [n \in 0 .. m |-> IF n = 0 THEN c ELSE next(f[n - 1], n)]
           R == {x \in (0 .. m) \X ListsRec :
                   /\ After(c, x[2], slack, most)
                   /\ x[2].used["handles"] + 4 * (m - x[1]) <= size(x[2], "handles")
                   /\ \A k \in Lists : k # "handles" => x[2].used[k] = c.used[k]}
<1>2. c \in S /\ <<0, c>> \in R
  <2>1. c.used["handles"] + 4 * (m - 0) <= size(c, "handles")
    BY <1>1
  <2>2. 0 \in 0 .. m
    OBVIOUS
  <2> QED
    BY <2>1, <2>2, AfterItself
<1>3. ASSUME NEW d \in S, NEW n \in 1 .. m  PROVE  next(d, n) \in S
  BY IndexType
<1>11. ASSUME NEW d \in ListsRec, NEW n \in 1 .. m, <<n - 1, d>> \in R
       PROVE  <<n, next(d, n)>> \in R
  <2>1. /\ After(c, d, slack, most)
        /\ d.used["handles"] + 4 * (m - (n - 1)) <= size(d, "handles")
        /\ \A k \in Lists : k # "handles" => d.used[k] = c.used[k]
    BY <1>11
  <2>2. d \in ListsRec /\ InBlocks(d, slack, most) /\ Same(c, d) /\ Longer(c, d)
    BY <2>1 DEF After
  <2>3. d.used["handles"] \in Nat /\ size(d, "handles") \in Nat
    BY ListNames, SizeIsNat
  <2>4. d.used["handles"] + 4 <= size(d, "handles")
    BY <2>1, <2>3
  <2>5. PICK e : e = GetHandleIndex(d, before(hs, bos, n), bos[n])
    OBVIOUS
  <2>6. e \in ListsRec
    BY <2>5, IndexType
  <2>7. /\ After(d, e, slack, most) /\ e.used["handles"] <= d.used["handles"] + 4
        /\ \A k \in Lists : k # "handles" => e.used[k] = d.used[k]
        /\ size(e, "handles") = size(d, "handles")
    BY <2>2, <2>4, <2>5, IndexKeeps
  <2>8. After(c, e, slack, most)
    BY <2>2, <2>7, AfterAfter
  <2>9. e.used["handles"] \in Nat
    BY <2>6, ListNames, SizeIsNat
  <2>10. e.used["handles"] + 4 * (m - n) <= size(e, "handles")
    BY <2>1, <2>3, <2>7, <2>9
  <2>11. <<n, e>> \in R
    BY <2>1, <2>6, <2>7, <2>8, <2>10
  <2> QED
    BY <2>5, <2>11
<1> HIDE DEF S, next
<1>4. \E f : Fits(f)
  <2> DEFINE G == [x \in S \X Nat |-> IF x[2] \in 1 .. m THEN next(x[1], x[2]) ELSE x[1]]
  <2>1. G \in [S \X Nat -> S]
    BY <1>3
  <2>2. PICK f : Stepwise(f, S, c, G, m)
    <3> HIDE DEF G
    <3> QED
      BY <1>2, <2>1, StepByStep, Zenon
  <2>3. ASSUME NEW n \in 0 .. m
        PROVE  f[n] = IF n = 0 THEN c ELSE next(f[n - 1], n)
    <3>1. CASE n = 0
      BY <2>2, <3>1 DEF Stepwise
    <3>2. CASE n # 0
      <4>1. n \in 1 .. m /\ n - 1 \in 0 .. m
        BY <3>2
      <4>2. <<f[n - 1], n>> \in S \X Nat
        BY <2>2, <4>1 DEF Stepwise
      <4>3. G[<<f[n - 1], n>>] = next(f[n - 1], n)
        BY <4>1, <4>2
      <4> QED
        BY <2>2, <3>2, <4>1, <4>3 DEF Stepwise
    <3> QED
      BY <3>1, <3>2
  <2> HIDE DEF G
  <2>4. Fits(f)
    BY <2>2, <2>3 DEF Stepwise
  <2> QED
    BY <2>4
<1>5. PICK f : f = CHOOSE g : Fits(g)
  OBVIOUS
<1>6. Fits(f)
  BY <1>4, <1>5
<1>7. Named(c, hs, bos) = f[m]
  BY <1>1, <1>5 DEF Named, Each, next
<1>8. <<0, f[0]>> \in R
  BY <1>2, <1>6
<1>9. ASSUME NEW n \in 1 .. m, <<n - 1, f[n - 1]>> \in R  PROVE  <<n, f[n]>> \in R
  <2>1. f[n] = next(f[n - 1], n)
    BY <1>6
  <2>2. f[n - 1] \in ListsRec
    BY <1>9
  <2> HIDE DEF R
  <2> QED
    BY <1>9, <1>11, <2>1, <2>2
<1>10. <<m, f[m]>> \in R
  <2> HIDE DEF Fits, R
  <2> QED
    BY <1>8, <1>9, StepsReach
<1> QED
  BY <1>7, <1>10

(* The index of a descriptor, in the uniforms.                             *)
LEMMA DescriptorKeeps ==
  ASSUME NEW c \in ListsRec, NEW slack \in Nat, NEW most \in Nat, InBlocks(c, slack, most),
         NEW hs, NEW bo
  PROVE  Step(c, DescriptorIndex(c, hs, bo), slack, most)
<1>1. "uniforms" \in Lists /\ "uniformReloc" \in Lists /\ "uniforms" # "handles"
  BY DEF Lists
<1>2. PICK h : h = Handle(c, hs, bo)
  OBVIOUS
<1>3. After(c, h, slack, most)
  BY <1>2, HandleKeeps
<1>4. h \in ListsRec /\ InBlocks(h, slack, most)
  BY <1>3 DEF After
<1>5. PICK d : d = Emit(h, "uniforms", 4)
  OBVIOUS
<1>6. After(h, d, slack, most) /\ d.used["uniforms"] = h.used["uniforms"] + 4
  BY <1>1, <1>4, <1>5, EmitKeeps
<1>7. d \in ListsRec /\ InBlocks(d, slack, most) /\ Same(h, d) /\ Longer(h, d)
  BY <1>6 DEF After
<1>8. PICK at \in Nat : at = h.used["uniforms"] /\ at = d.used["uniforms"] - 4
  BY <1>1, <1>4, <1>6, SizeIsNat
<1>9. PICK e : e = Noted(d, "uniforms", "uniformReloc", <<at>>)
  OBVIOUS
<1>10. <<at>> \in Seq(Nat) /\ ToSet(<<at>>) = {at}
  BY DEF ToSet
<1> DEFINE new == {<<"uniforms", x>> : x \in {at}}
<1>11. /\ e \in ListsRec /\ InBlocks(e, slack, most) /\ Longer(d, e)
       /\ \A k \in Lists : k # "uniformReloc" => e.used[k] = d.used[k]
       /\ e.words = d.words \cup new
       /\ e.relocs = d.relocs \cup (IF level = "SECONDARY" THEN new ELSE {})
  <2>1. Adds(d, e, "uniforms", "uniformReloc", ToSet(<<at>>)) /\ InBlocks(e, slack, most)
    BY <1>1, <1>7, <1>9, <1>10, NotedKeeps, Zenon
  <2>2. Adds(d, e, "uniforms", "uniformReloc", {at})
    BY <1>10, <2>1
  <2> QED
    BY <2>1, <2>2 DEF Adds
<1>12. Longer(h, e)
  <2>2. ASSUME NEW l \in Lists  PROVE  h.used[l] <= e.used[l] /\ size(h, l) <= size(e, l)
    <3>1. /\ h.used[l] \in Nat /\ d.used[l] \in Nat /\ e.used[l] \in Nat
          /\ size(h, l) \in Nat /\ size(d, l) \in Nat /\ size(e, l) \in Nat
      BY <1>4, <1>7, <1>11, SizeIsNat
    <3> QED
      BY <1>7, <1>11, <3>1 DEF Longer
  <2> QED
    BY <2>2 DEF Longer
<1>13. IndexesOK(h) => IndexesOK(e)
  <2> SUFFICES ASSUME IndexesOK(h)  PROVE  IndexesOK(e)
    OBVIOUS
  <2>1. e.words = h.words \cup new /\ e.relocs = h.relocs \cup (IF level = "SECONDARY" THEN new ELSE {})
    BY <1>7, <1>11 DEF Same
  <2>2. e.used["uniforms"] = at + 4 /\ at + 4 <= at + 4
    <3>1. "uniforms" # "uniformReloc"
      OBVIOUS
    <3> QED
      BY <1>1, <1>6, <1>8, <1>11, <3>1
  <2>3. \A x \in {at} : h.used["uniforms"] <= x /\ x + 4 <= e.used["uniforms"]
    BY <1>8, <2>2
  <2>4. {at} \in SUBSET Nat /\ \A x, y \in {at} : x # y => x + 4 <= y \/ y + 4 <= x
    OBVIOUS
  <2> HIDE DEF new
  <2> QED
    BY <1>1, <1>4, <1>11, <1>12, <2>1, <2>3, <2>4, IndexesAdded DEF new
<1>14. Step(h, e, slack, most)
  BY <1>11, <1>12, <1>13 DEF Step
<1>15. Step(c, h, slack, most)
  BY <1>3, AfterIsStep
<1>16. Step(c, e, slack, most)
  BY <1>14, <1>15, StepStep
<1>17. DescriptorIndex(c, hs, bo) = e
  BY <1>2, <1>5, <1>8, <1>9 DEF DescriptorIndex
<1> QED
  BY <1>16, <1>17

LEMMA DescriptorsKeep ==
  ASSUME NEW c \in ListsRec, NEW slack \in Nat, NEW most \in Nat, InBlocks(c, slack, most),
         NEW hs, NEW bos, Len(bos) \in Nat
  PROVE  Step(c, DescriptorIndices(c, hs, bos), slack, most)
<1>1. PICK m \in Nat : m = Len(bos)
  OBVIOUS
<1> DEFINE S == {d \in ListsRec : Step(c, d, slack, most)}
           next(d, n) == DescriptorIndex(d, before(hs, bos, n), bos[n])
           Fits(f) == f = [n \in 0 .. m |-> IF n = 0 THEN c ELSE next(f[n - 1], n)]
<1>2. c \in S
  BY AfterItself, AfterIsStep
<1>3. ASSUME NEW d \in S, NEW n \in 1 .. m  PROVE  next(d, n) \in S
  <2>1. d \in ListsRec /\ InBlocks(d, slack, most) /\ Step(c, d, slack, most)
    BY DEF Step
  <2>2. PICK e : e = DescriptorIndex(d, before(hs, bos, n), bos[n])
    OBVIOUS
  <2>3. Step(d, e, slack, most)
    BY <2>1, <2>2, DescriptorKeeps
  <2>4. Step(c, e, slack, most) /\ e \in ListsRec
    BY <2>1, <2>3, StepStep DEF Step
  <2> QED
    BY <2>2, <2>4
<1> HIDE DEF S, next
<1>4. \E f : Fits(f)
  <2> DEFINE G == [x \in S \X Nat |-> IF x[2] \in 1 .. m THEN next(x[1], x[2]) ELSE x[1]]
  <2>1. G \in [S \X Nat -> S]
    BY <1>3
  <2>2. PICK f : Stepwise(f, S, c, G, m)
    <3> HIDE DEF G
    <3> QED
      BY <1>2, <2>1, StepByStep, Zenon
  <2>3. ASSUME NEW n \in 0 .. m
        PROVE  f[n] = IF n = 0 THEN c ELSE next(f[n - 1], n)
    <3>1. CASE n = 0
      BY <2>2, <3>1 DEF Stepwise
    <3>2. CASE n # 0
      <4>1. n \in 1 .. m /\ n - 1 \in 0 .. m
        BY <3>2
      <4>2. <<f[n - 1], n>> \in S \X Nat
        BY <2>2, <4>1 DEF Stepwise
      <4>3. G[<<f[n - 1], n>>] = next(f[n - 1], n)
        BY <4>1, <4>2
      <4> QED
        BY <2>2, <3>2, <4>1, <4>3 DEF Stepwise
    <3> QED
      BY <3>1, <3>2
  <2> HIDE DEF G
  <2>4. Fits(f)
    BY <2>2, <2>3 DEF Stepwise
  <2> QED
    BY <2>4
<1>5. PICK f : f = CHOOSE g : Fits(g)
  OBVIOUS
<1>6. Fits(f)
  BY <1>4, <1>5
<1>7. DescriptorIndices(c, hs, bos) = f[m]
  BY <1>1, <1>5 DEF DescriptorIndices, Each, next
<1>8. f[0] \in S
  BY <1>2, <1>6
<1>9. ASSUME NEW n \in 1 .. m, f[n - 1] \in S  PROVE  f[n] \in S
  <2>1. f[n] = next(f[n - 1], n)
    BY <1>6
  <2> QED
    BY <1>3, <1>9, <2>1
<1>10. f[m] \in S
  <2> HIDE DEF Fits
  <2> QED
    BY <1>8, <1>9, LastOfSteps
<1> QED
  BY <1>7, <1>10 DEF S

LEMMA LongerLonger ==
  ASSUME NEW c \in ListsRec, NEW d \in ListsRec, NEW e \in ListsRec, Longer(c, d), Longer(d, e)
  PROVE  Longer(c, e)
<1>1. ASSUME NEW l \in Lists  PROVE  c.used[l] <= e.used[l] /\ size(c, l) <= size(e, l)
  <2>1. /\ c.used[l] \in Nat /\ d.used[l] \in Nat /\ e.used[l] \in Nat
        /\ size(c, l) \in Nat /\ size(d, l) \in Nat /\ size(e, l) \in Nat
    BY SizeIsNat
  <2>2. /\ c.used[l] <= d.used[l] /\ size(c, l) <= size(d, l)
        /\ d.used[l] <= e.used[l] /\ size(d, l) <= size(e, l)
    BY DEF Longer
  <2> QED
    BY <2>1, <2>2
<1> QED
  BY <1>1 DEF Longer

(* Three words of programs and one for each attribute.                     *)
LEMMA RecordWords ==
  ASSUME NEW at \in Nat, NEW n \in Nat, NEW A,
         A = {at, at + 4, at + 8} \cup {at + 12 + 4 * (k - 1) : k \in 1 .. n}
  PROVE  /\ A \in SUBSET Nat
         /\ \A x \in A : at <= x /\ x + 4 <= at + 12 + 4 * n
         /\ \A x, y \in A : x # y => x + 4 <= y \/ y + 4 <= x
<1>1. ASSUME NEW x \in A  PROVE  \E k \in 0 .. n + 2 : x = at + 4 * k
  <2>1. CASE x \in {at, at + 4, at + 8}
    <3>1. 0 \in 0 .. n + 2 /\ 1 \in 0 .. n + 2 /\ 2 \in 0 .. n + 2
      OBVIOUS
    <3>2. x = at + 4 * 0 \/ x = at + 4 * 1 \/ x = at + 4 * 2
      BY <2>1
    <3> QED
      BY <3>1, <3>2
  <2>2. CASE x \notin {at, at + 4, at + 8}
    <3>1. PICK k \in 1 .. n : x = at + 12 + 4 * (k - 1)
      BY <2>2
    <3>2. k + 2 \in 0 .. n + 2 /\ x = at + 4 * (k + 2)
      BY <3>1
    <3> QED
      BY <3>2
  <2> QED
    BY <2>1, <2>2
<1>2. ASSUME NEW x \in A  PROVE  x \in Nat /\ at <= x /\ x + 4 <= at + 12 + 4 * n
  BY <1>1
<1>3. ASSUME NEW x \in A, NEW y \in A, x # y  PROVE  x + 4 <= y \/ y + 4 <= x
  <2>1. PICK j \in 0 .. n + 2 : x = at + 4 * j
    BY <1>1
  <2>2. PICK k \in 0 .. n + 2 : y = at + 4 * k
    BY <1>1
  <2> QED
    BY <1>3, <2>1, <2>2
<1> QED
  BY <1>2, <1>3

(* The shader record stays in the room made for it.                        *)
LEMMA RecordKeeps ==
  ASSUME NEW c \in ListsRec, NEW slack \in Nat, NEW most \in Nat, InBlocks(c, slack, most),
         NEW hs, NEW s \in Shaders
  PROVE  Step(c, ShaderRecord(c, hs, s), slack, most)
<1>1. /\ {"shaderRec", "shaderRecReloc", "handles"} \subseteq Lists
      /\ "shaderRec" # "shaderRecReloc" /\ "shaderRec" # "handles"
  BY DEF Lists
<1>2. PICK n \in Nat : n = Len(s.attributes) /\ n <= 8
  BY ShadersAssumption
<1>3. PICK bos : bos = s.programs \o s.attributes /\ Len(bos) = 3 + n
  <2>1. s.programs \in Seq(ToSet(s.programs)) /\ s.attributes \in Seq(ToSet(s.attributes))
    BY ShadersAssumption, Zenon
  <2>2. Len(s.programs) = 3
    BY ShadersAssumption
  <2>3. PICK S : S = ToSet(s.programs) \cup ToSet(s.attributes)
    OBVIOUS
  <2>4. s.programs \in Seq(S) /\ s.attributes \in Seq(S)
    BY <2>1, <2>3
  <2>5. PICK p \in Seq(S), a \in Seq(S) : p = s.programs /\ a = s.attributes
    BY <2>4
  <2>6. Len(p \o a) = Len(p) + Len(a)
    OBVIOUS
  <2>7. Len(s.programs \o s.attributes) = 3 + n
    BY <1>2, <2>2, <2>5, <2>6
  <2> QED
    BY <2>7
<1>4. PICK at \in Nat : at = c.used["shaderRec"]
  BY <1>1, SizeIsNat
<1>5. PICK f : f = Fit(c, "shaderRec", 408)
  OBVIOUS
<1>6. After(c, f, slack, most) /\ f.used = c.used /\ at + 408 <= size(f, "shaderRec")
  <2>1. PICK l \in Lists, n1 \in Nat : l = "shaderRec" /\ n1 = 408
    BY <1>1
  <2>2. f = Fit(c, l, n1)
    BY <1>5, <2>1
  <2>3. /\ After(c, Fit(c, l, n1), slack, most) /\ Fit(c, l, n1).used = c.used
        /\ c.used[l] + n1 <= size(Fit(c, l, n1), l)
    BY FitKeeps
  <2> QED
    BY <1>4, <2>1, <2>2, <2>3
<1>7. f \in ListsRec /\ InBlocks(f, slack, most) /\ Same(c, f) /\ Longer(c, f)
  BY <1>6 DEF After
<1>8. PICK ps : ps = <<at, at + 4, at + 8>>
  OBVIOUS
<1>9. PICK as : as = [k \in 1 .. n |-> at + 12 + 4 * (k - 1)]
  OBVIOUS
<1>10. /\ ps \in Seq(Nat) /\ ToSet(ps) = {at, at + 4, at + 8}
       /\ as \in Seq(Nat) /\ ToSet(as) = {at + 12 + 4 * (k - 1) : k \in 1 .. n}
  <2>1. ps \in Seq(Nat) /\ Len(ps) = 3
    BY <1>8
  <2>2. ToSet(ps) = {at, at + 4, at + 8}
    BY <1>8 DEF ToSet
  <2>3. \A k \in 1 .. n : at + 12 + 4 * (k - 1) \in Nat
    OBVIOUS
  <2>4. as \in Seq(Nat)
    BY <1>9, <2>3
  <2>5. ToSet(as) = {at + 12 + 4 * (k - 1) : k \in 1 .. n}
    BY <1>9 DEF ToSet
  <2> QED
    BY <2>1, <2>2, <2>4, <2>5
<1>11. PICK p : p = Noted(f, "shaderRec", "shaderRecReloc", ps)
  OBVIOUS
<1>12. Adds(f, p, "shaderRec", "shaderRecReloc", ToSet(ps)) /\ InBlocks(p, slack, most)
  BY <1>1, <1>7, <1>10, <1>11, NotedKeeps
<1>13. PICK q : q = Noted(p, "shaderRec", "shaderRecReloc", as)
  OBVIOUS
<1>14. p \in ListsRec /\ Longer(f, p) /\ p.used["shaderRec"] = at
  BY <1>1, <1>4, <1>6, <1>12 DEF Adds
<1>15. Adds(p, q, "shaderRec", "shaderRecReloc", ToSet(as)) /\ InBlocks(q, slack, most)
  BY <1>1, <1>10, <1>12, <1>13, <1>14, NotedKeeps
<1>16. q \in ListsRec /\ Longer(p, q) /\ q.used["shaderRec"] = at
  BY <1>1, <1>14, <1>15 DEF Adds
<1>17. Longer(f, q) /\ Longer(c, q)
  BY <1>7, <1>14, <1>16, LongerLonger
<1>18. size(f, "shaderRec") \in Nat /\ size(q, "shaderRec") \in Nat /\ at + 408 <= size(q, "shaderRec")
  <2>1. size(f, "shaderRec") \in Nat /\ size(q, "shaderRec") \in Nat
    BY <1>1, <1>7, <1>16, SizeIsNat
  <2> QED
    BY <1>1, <1>6, <1>17, <2>1 DEF Longer
<1>19. PICK i \in Nat : i = (3 + n) * 4
  OBVIOUS
<1>20. PICK t : t = Put(q, "shaderRec", i)
  OBVIOUS
<1>21. After(q, t, slack, most) /\ t.used["shaderRec"] = at + i /\ size(t, "shaderRec") = size(q, "shaderRec")
  <2>1. q.used["shaderRec"] + i <= size(q, "shaderRec")
    BY <1>2, <1>16, <1>18, <1>19
  <2> QED
    BY <1>1, <1>15, <1>16, <1>20, <2>1, PutKeeps
<1>22. t \in ListsRec /\ InBlocks(t, slack, most) /\ Same(q, t) /\ Longer(q, t)
  BY <1>21 DEF After
<1>23. PICK g : g = Fit(t, "handles", 44)
  OBVIOUS
<1>24. After(t, g, slack, most) /\ g.used = t.used /\ t.used["handles"] + 44 <= size(g, "handles")
  BY <1>1, <1>22, <1>23, FitKeeps
<1>25. g \in ListsRec /\ InBlocks(g, slack, most) /\ Same(t, g) /\ Longer(t, g)
  BY <1>24 DEF After
<1>26. PICK m : m = Named(g, hs, bos)
  OBVIOUS
<1>27. After(g, m, slack, most) /\ m.used["shaderRec"] = at + i
  <2>1. g.used["handles"] + 4 * Len(bos) <= size(g, "handles")
    <3>1. g.used["handles"] \in Nat /\ size(g, "handles") \in Nat
      BY <1>1, <1>25, SizeIsNat
    <3> QED
      BY <1>2, <1>3, <1>24, <3>1
  <2>2. Len(bos) \in Nat
    BY <1>3
  <2>3. /\ After(g, m, slack, most)
        /\ \A k \in Lists : k # "handles" => m.used[k] = g.used[k]
    BY <1>25, <1>26, <2>1, <2>2, NamedKeep
  <2> QED
    BY <1>1, <1>21, <1>24, <2>3
<1>28. m \in ListsRec /\ InBlocks(m, slack, most) /\ Same(g, m) /\ Longer(g, m)
  BY <1>27 DEF After
<1>29. PICK j \in Nat : j = 36 + 8 * n
  OBVIOUS
<1>30. PICK e : e = Put(m, "shaderRec", j)
  OBVIOUS
<1>31. After(m, e, slack, most) /\ e.used["shaderRec"] = at + i + j
  <2>1. /\ size(t, "shaderRec") <= size(g, "shaderRec") /\ size(g, "shaderRec") <= size(m, "shaderRec")
        /\ size(t, "shaderRec") \in Nat /\ size(g, "shaderRec") \in Nat /\ size(m, "shaderRec") \in Nat
    BY <1>1, <1>22, <1>25, <1>28, SizeIsNat DEF Longer
  <2>2. m.used["shaderRec"] + j <= size(m, "shaderRec")
    BY <1>2, <1>18, <1>19, <1>21, <1>27, <1>29, <2>1
  <2> QED
    BY <1>1, <1>27, <1>28, <1>30, <2>2, PutKeeps
<1>32. e \in ListsRec /\ InBlocks(e, slack, most) /\ Same(m, e) /\ Longer(m, e)
  BY <1>31 DEF After
<1>33. Longer(c, e)
  BY <1>16, <1>17, <1>22, <1>25, <1>28, <1>32, LongerLonger
<1>34. PICK A : A = {at, at + 4, at + 8} \cup {at + 12 + 4 * (k - 1) : k \in 1 .. n}
  OBVIOUS
<1> DEFINE new == {<<"shaderRec", x>> : x \in A}
<1>35. e.words = c.words \cup new
  BY <1>7, <1>10, <1>12, <1>15, <1>22, <1>25, <1>28, <1>32, <1>34 DEF Adds, Same
<1>36. e.relocs = c.relocs \cup (IF level = "SECONDARY" THEN new ELSE {})
  BY <1>7, <1>10, <1>12, <1>15, <1>22, <1>25, <1>28, <1>32, <1>34 DEF Adds, Same
<1>37. /\ A \in SUBSET Nat
       /\ \A x \in A : at <= x /\ x + 4 <= at + 12 + 4 * n
       /\ \A x, y \in A : x # y => x + 4 <= y \/ y + 4 <= x
  BY <1>34, RecordWords
<1>38. \A x \in A : c.used["shaderRec"] <= x /\ x + 4 <= e.used["shaderRec"]
  <2>1. e.used["shaderRec"] = at + (3 + n) * 4 + (36 + 8 * n)
    BY <1>19, <1>29, <1>31
  <2> QED
    BY <1>4, <1>37, <2>1
<1>39. IndexesOK(c) => IndexesOK(e)
  <2> HIDE DEF new
  <2> QED
    BY <1>1, <1>32, <1>33, <1>35, <1>36, <1>37, <1>38, IndexesAdded DEF new
<1>40. ShaderRecord(c, hs, s) = e
  <2>1. /\ f = Fit(c, "shaderRec", 12 * 4 + 104 + 8 * 32)
        /\ g = Fit(t, "handles", (3 + 8) * 4)
    BY <1>5, <1>23
  <2>2. m = Each(LAMBDA d, k : GetHandleIndex(d, before(hs, bos, k), bos[k]), g, Len(bos))
    BY <1>26 DEF Named
  <2>3. ShaderRecord(c, hs, s) =
        Put(Each(LAMBDA d, k : GetHandleIndex(d, before(hs, bos, k), bos[k]),
                 Fit(Put(Noted(Noted(Fit(c, "shaderRec", 12 * 4 + 104 + 8 * 32), "shaderRec",
                                     "shaderRecReloc", ps), "shaderRec", "shaderRecReloc", as),
                         "shaderRec", i), "handles", (3 + 8) * 4), Len(bos)), "shaderRec", j)
    BY <1>2, <1>3, <1>4, <1>8, <1>9, <1>19, <1>29 DEF ShaderRecord
  <2> QED
    BY <1>11, <1>13, <1>20, <1>30, <2>1, <2>2, <2>3
<1> QED
  BY <1>32, <1>33, <1>39, <1>40 DEF Step

LEMMA UniformsKeep ==
  ASSUME NEW c \in ListsRec, NEW slack \in Nat, NEW most \in Nat, InBlocks(c, slack, most),
         NEW s \in Shaders
  PROVE  After(c, Uniforms(c, s), slack, most)
<1> DEFINE sampled == [i \in DOMAIN s.samples |->
                         <<"uniforms", ParameterBytes(s.samples[i], s.noAutoLod)>>]
           pushed  == [i \in 1 .. s.constants |-> <<"uniforms", 4>>]
<1>1. sampled \in Seq(Lists \X Nat)
  <2>1. PICK k \in Nat : k = Len(s.samples) /\ DOMAIN s.samples = 1 .. k
    BY ShadersAssumption
  <2>2. ASSUME NEW i \in 1 .. k
        PROVE  <<"uniforms", ParameterBytes(s.samples[i], s.noAutoLod)>> \in Lists \X Nat
    <3>1. s.samples[i] \in {"1D", "2D", "CUBE"}
      BY <2>1, ShadersAssumption
    <3>2. ParameterBytes(s.samples[i], s.noAutoLod) \in Nat
      BY <3>1 DEF ParameterBytes
    <3> QED
      BY <3>2 DEF Lists
  <2> QED
    BY <2>1, <2>2
<1>2. pushed \in Seq(Lists \X Nat)
  <2>1. s.constants \in Nat
    BY ShadersAssumption
  <2> QED
    BY <2>1 DEF Lists
<1>3. sampled \o pushed \in Seq(Lists \X Nat)
  <2> HIDE DEF sampled, pushed
  <2> QED
    BY <1>1, <1>2
<1>4. PICK steps \in Seq(Lists \X Nat) : steps = sampled \o pushed
  <2> HIDE DEF sampled, pushed
  <2> QED
    BY <1>3
<1>5. Uniforms(c, s) = Done(c, steps)
  BY <1>4 DEF Uniforms
<1> QED
  BY <1>5, DoneKeeps

(* What each draw does.                                                    *)
LEMMA CommonKeeps ==
  ASSUME NEW c \in ListsRec, NEW slack \in Nat, NEW most \in Nat \ {0}, InBlocks(c, slack, most),
         NEW s \in Shaders
  PROVE  Step(c, drawCommon(c, s), 0, most)
<1>1. 0 \in Nat /\ most \in Nat
  OBVIOUS
<1>2. PICK b : b = StatePackets(c)
  OBVIOUS
<1>3. After(c, b, 0, most)
  BY <1>2, StateKeeps
<1>4. Step(c, b, 0, most) /\ b \in ListsRec /\ InBlocks(b, 0, most)
  BY <1>3, AfterIsStep DEF After
<1>5. PICK r : r = ShaderRecord(b, known, s)
  OBVIOUS
<1>6. Step(b, r, 0, most)
  BY <1>1, <1>4, <1>5, RecordKeeps
<1>7. r \in ListsRec /\ InBlocks(r, 0, most)
  BY <1>6 DEF Step
<1>8. PICK hs : hs = known \cup ToSet(s.programs) \cup ToSet(s.attributes)
  OBVIOUS
<1>9. PICK bos : bos = s.descriptors /\ Len(bos) \in Nat
  BY ShadersAssumption
<1>10. PICK d : d = DescriptorIndices(r, hs, bos)
  OBVIOUS
<1>11. Step(r, d, 0, most)
  BY <1>1, <1>7, <1>9, <1>10, DescriptorsKeep
<1>12. d \in ListsRec /\ InBlocks(d, 0, most)
  BY <1>11 DEF Step
<1>13. PICK e : e = Uniforms(d, s)
  OBVIOUS
<1>14. After(d, e, 0, most)
  BY <1>1, <1>12, <1>13, UniformsKeep
<1>15. Step(d, e, 0, most)
  BY <1>12, <1>14, AfterIsStep
<1>16. Step(c, e, 0, most)
  BY <1>4, <1>6, <1>7, <1>11, <1>12, <1>15, StepStep
<1>17. drawCommon(c, s) = e
  BY <1>2, <1>5, <1>8, <1>9, <1>10, <1>13 DEF drawCommon
<1> QED
  BY <1>16, <1>17

(* A write beyond the room there is.                                       *)
LEMMA OverKeeps ==
  ASSUME NEW c \in ListsRec, NEW n \in Nat, NEW slack \in Nat, NEW most \in Nat,
         NEW slack2 \in Nat, slack2 <= most, InBlocks(c, slack, most),
         c.used["bin"] + n <= size(c, "bin") + slack2
  PROVE  /\ After(c, Put(c, "bin", n), slack2, most)
         /\ Put(c, "bin", n).used["bin"] = c.used["bin"] + n
<1>1. PICK d : d = Write(c, "bin", n, n)
  OBVIOUS
<1>2. /\ d \in ListsRec /\ Same(c, d) /\ d.blocks = c.blocks
      /\ d.used["bin"] = c.used["bin"] + n
      /\ d.over["bin"] = IF c.used["bin"] + n - size(c, "bin") > c.over["bin"]
                         THEN c.used["bin"] + n - size(c, "bin") ELSE c.over["bin"]
      /\ \A k \in Lists : k # "bin" => d.used[k] = c.used[k] /\ d.over[k] = c.over[k]
  <2>1. Written(c, d, "bin", n, n)
    BY <1>1, ListNames, WriteAdds
  <2> QED
    BY <2>1 DEF Written
<1>3. \A k \in Lists : size(c, k) \in Nat /\ c.used[k] \in Nat /\ c.over[k] \in Nat
  BY SizeIsNat
<1>4. \A k \in Lists : size(d, k) = size(c, k)
  BY <1>2 DEF size
<1>5. InBlocks(d, slack2, most)
  <2>1. ASSUME NEW k \in Lists
        PROVE  /\ d.used[k] <= size(d, k) + (IF k = "bin" THEN slack2 ELSE 0)
               /\ d.over[k] <= (IF k = "bin" THEN most ELSE 0)
    <3>1. /\ c.used[k] <= size(c, k) + (IF k = "bin" THEN slack ELSE 0)
          /\ c.over[k] <= (IF k = "bin" THEN most ELSE 0)
      BY DEF InBlocks
    <3>2. CASE k = "bin"
      BY <1>2, <1>3, <1>4, <3>1, <3>2
    <3>3. CASE k # "bin"
      BY <1>2, <1>4, <3>1, <3>3
    <3> QED
      BY <3>2, <3>3
  <2> QED
    BY <2>1 DEF InBlocks
<1>6. Longer(c, d)
  BY <1>2, <1>3, <1>4 DEF Longer
<1> QED
  BY <1>1, <1>2, <1>5, <1>6 DEF Put, After

(* An indexed draw.                                                        *)
LEMMA IndexedKeeps ==
  ASSUME NEW c \in ListsRec, InBlocks(c, 4, 9), NEW s \in Shaders, NEW hs, NEW buffer,
         NEW gem, gem = Put(Handle(drawCommon(c, s), hs, buffer), "bin", 9),
         NEW noted, noted = Noted(gem, "bin", "gemReloc", <<gem.used["bin"] - 8>>)
  PROVE  Step(c, Put(Fit(noted, "bin", 10), "bin", 14), 4, 9)
<1>1. {0, 4, 9, 10, 14} \subseteq Nat /\ 9 \in Nat \ {0} /\ {"bin", "gemReloc"} \subseteq Lists
  BY DEF Lists
<1>2. PICK d : d = drawCommon(c, s)
  OBVIOUS
<1>3. Step(c, d, 0, 9)
  BY <1>1, <1>2, CommonKeeps, Zenon
<1>4. d \in ListsRec /\ InBlocks(d, 0, 9)
  BY <1>3 DEF Step
<1>5. PICK h : h = Handle(d, hs, buffer)
  OBVIOUS
<1>6. After(d, h, 0, 9)
  BY <1>4, <1>5, HandleKeeps
<1>7. Step(d, h, 0, 9) /\ h \in ListsRec /\ InBlocks(h, 0, 9)
  BY <1>4, <1>6, AfterIsStep DEF After
<1>8. h.used["bin"] \in Nat /\ size(h, "bin") \in Nat /\ h.used["bin"] <= size(h, "bin")
  <2>1. h.used["bin"] \in Nat /\ size(h, "bin") \in Nat
    BY <1>1, <1>7, SizeIsNat
  <2>2. h.used["bin"] <= size(h, "bin") + 0
    BY <1>1, <1>7 DEF InBlocks
  <2> QED
    BY <2>1, <2>2
<1>9. gem = Put(h, "bin", 9)
  BY <1>2, <1>5
<1>10. After(h, gem, 9, 9) /\ gem.used["bin"] = h.used["bin"] + 9
  <2>1. h.used["bin"] + 9 <= size(h, "bin") + 9 /\ 9 <= 9
    BY <1>8
  <2> QED
    BY <1>1, <1>7, <1>9, <2>1, OverKeeps
<1>11. gem \in ListsRec /\ InBlocks(gem, 9, 9) /\ Same(h, gem) /\ Longer(h, gem)
  BY <1>10 DEF After
<1>12. PICK at \in Nat : at = h.used["bin"] + 1 /\ at = gem.used["bin"] - 8
  BY <1>8, <1>10
<1>13. <<at>> \in Seq(Nat) /\ ToSet(<<at>>) = {at}
  BY DEF ToSet
<1>14. Adds(gem, noted, "bin", "gemReloc", {at}) /\ InBlocks(noted, 9, 9)
  <2>1. noted = Noted(gem, "bin", "gemReloc", <<at>>)
    BY <1>12
  <2>2. 9 \in Nat /\ "bin" \in Lists /\ "gemReloc" \in Lists
    BY <1>1
  <2>3. /\ Adds(gem, noted, "bin", "gemReloc", ToSet(<<at>>))
        /\ InBlocks(noted, 9, 9)
    BY <1>11, <1>13, <2>1, <2>2, NotedKeeps, Zenon
  <2> QED
    BY <1>13, <2>3
<1>15. /\ noted \in ListsRec /\ Longer(gem, noted) /\ noted.used["bin"] = h.used["bin"] + 9
       /\ noted.words = h.words \cup {<<"bin", x>> : x \in {at}}
       /\ noted.relocs = h.relocs \cup (IF level = "SECONDARY" THEN {<<"bin", x>> : x \in {at}} ELSE {})
  <2>1. "bin" # "gemReloc"
    OBVIOUS
  <2> QED
    BY <1>1, <1>10, <1>11, <1>14, <2>1 DEF Adds, Same
<1>16. Longer(h, noted)
  BY <1>7, <1>11, <1>15, LongerLonger
<1>17. IndexesOK(h) => IndexesOK(noted)
  <2>1. \A x \in {at} : h.used["bin"] <= x /\ x + 4 <= noted.used["bin"]
    BY <1>8, <1>12, <1>15
  <2>2. {at} \in SUBSET Nat /\ \A x, y \in {at} : x # y => x + 4 <= y \/ y + 4 <= x
    OBVIOUS
  <2>3. "bin" \in Lists
    BY <1>1
  <2>4. PICK A : A = {at}
    OBVIOUS
  <2> QED
    BY <1>7, <1>15, <1>16, <2>1, <2>2, <2>3, <2>4, IndexesAdded
<1>18. Step(h, noted, 9, 9)
  BY <1>14, <1>15, <1>16, <1>17 DEF Step
<1>19. PICK f : f = Fit(noted, "bin", 10)
  OBVIOUS
<1>20. After(noted, f, 9, 9) /\ f.used = noted.used /\ noted.used["bin"] + 10 <= size(f, "bin")
  BY <1>1, <1>14, <1>15, <1>19, FitKeeps
<1>21. f \in ListsRec /\ InBlocks(f, 9, 9) /\ Step(noted, f, 9, 9)
  BY <1>15, <1>20, AfterIsStep DEF After
<1>22. PICK e : e = Put(f, "bin", 14)
  OBVIOUS
<1>23. After(f, e, 4, 9)
  <2>1. f.used["bin"] \in Nat /\ size(f, "bin") \in Nat
    BY <1>1, <1>21, SizeIsNat
  <2>2. f.used["bin"] + 14 <= size(f, "bin") + 4 /\ 4 <= 9
    BY <1>20, <2>1
  <2> QED
    BY <1>1, <1>21, <1>22, <2>2, OverKeeps
<1>24. Step(f, e, 4, 9)
  BY <1>21, <1>23, AfterIsStep
<1>25. Step(c, h, 0, 9)
  BY <1>3, <1>4, <1>7, StepStep
<1>26. Step(c, noted, 9, 9)
  BY <1>7, <1>18, <1>25, StepStep
<1>27. Step(c, f, 9, 9)
  BY <1>15, <1>21, <1>26, StepStep
<1>28. Step(c, e, 4, 9)
  BY <1>21, <1>24, <1>27, StepStep
<1> QED
  BY <1>19, <1>22, <1>28

-----------------------------------------------------------------------------
(* While no indexed draw is recorded the bin list ends in its blocks and   *)
(* is written a byte beyond them; afterwards it may end four bytes beyond  *)
(* them, because of a packet longer than the room made for it.             *)
ListsInv ==
  /\ level \in {"PRIMARY", "SECONDARY"} /\ indexed \in BOOLEAN
  /\ cl \in ListsRec
  /\ InBlocks(cl, IF indexed THEN 4 ELSE 0, IF indexed THEN 9 ELSE 1)
  /\ IndexesOK(cl)

(* A step of the lists that stays within what the draws before allow.      *)
LEMMA StepInv ==
  ASSUME ListsInv, level' = level, indexed' = indexed,
         NEW slack, NEW most,
         slack = (IF indexed THEN 4 ELSE 0), most = (IF indexed THEN 9 ELSE 1),
         Step(cl, cl', slack, most)
  PROVE  ListsInv'
<1>1. cl' \in ListsRec /\ InBlocks(cl', slack, most) /\ IndexesOK(cl')
  BY DEF ListsInv, Step
<1>2. InBlocks(cl, IF indexed THEN 4 ELSE 0, IF indexed THEN 9 ELSE 1)'
  BY <1>1 DEF InBlocks, size
<1>3. IndexesOK(cl)'
  BY <1>1 DEF IndexesOK, WordsApart
<1>4. (cl \in ListsRec)'
  BY <1>1 DEF ListsRec
<1> QED
  BY <1>2, <1>3, <1>4 DEF ListsInv

LEMMA DoneStep ==
  ASSUME NEW c \in ListsRec, NEW slack \in Nat, NEW most \in Nat, InBlocks(c, slack, most),
         NEW steps \in Seq(Lists \X Nat)
  PROVE  Step(c, Done(c, steps), slack, most)
BY DoneKeeps, AfterIsStep

LEMMA BinningKeeps ==
  ASSUME NEW c \in ListsRec, NEW slack \in Nat, NEW most \in Nat, InBlocks(c, slack, most),
         NEW targets, Len(targets) \in Nat
  PROVE  Step(c, Binning(NewMarker(c), targets), slack, most)
<1>1. "bin" \in Lists /\ MarkerSize \in Nat
  BY ListNames DEF MarkerSize
<1>2. PICK d : d = NewMarker(c)
  OBVIOUS
<1>3. After(c, d, slack, most)
  BY <1>1, <1>2, EmitKeeps DEF NewMarker
<1>4. d \in ListsRec /\ InBlocks(d, slack, most) /\ Step(c, d, slack, most)
  BY <1>3, AfterIsStep DEF After
<1>5. PICK h : h = Handles(d, {}, targets)
  OBVIOUS
<1>6. After(d, h, slack, most)
  BY <1>4, <1>5, HandlesKeep
<1>7. h \in ListsRec /\ InBlocks(h, slack, most) /\ Step(d, h, slack, most)
  BY <1>4, <1>6, AfterIsStep DEF After
<1>8. PICK e : e = Done(h, <<TileBinningModeConfiguration, StartTileBinning>>)
  OBVIOUS
<1>9. <<TileBinningModeConfiguration, StartTileBinning>> \in Seq(Lists \X Nat)
  BY DEF TileBinningModeConfiguration, StartTileBinning, Lists
<1>10. Step(h, e, slack, most)
  BY <1>7, <1>8, <1>9, DoneStep
<1>11. Step(c, e, slack, most)
  BY <1>4, <1>7, <1>10, StepStep
<1> QED
  BY <1>2, <1>5, <1>8, <1>11 DEF Binning

LEMMA ListsStep == ListsInv /\ [Next]_vars => ListsInv'
<1> SUFFICES ASSUME ListsInv, [Next]_vars  PROVE  ListsInv'
  OBVIOUS
<1>1. PICK slack \in Nat : slack = IF indexed THEN 4 ELSE 0
  OBVIOUS
<1>2. PICK most \in Nat \ {0} : most = IF indexed THEN 9 ELSE 1
  OBVIOUS
<1>3. cl \in ListsRec /\ InBlocks(cl, slack, most) /\ most \in Nat
  BY <1>1, <1>2 DEF ListsInv
<1>4. /\ <<IncrementSemaphore, Flush>> \in Seq(Lists \X Nat)
      /\ <<VertexArrayPrimitives>> \in Seq(Lists \X Nat)
  BY DEF IncrementSemaphore, Flush, VertexArrayPrimitives, Lists
<1>5. CASE vkBeginCommandBuffer
  <2>1. "bin" \in Lists /\ MarkerSize \in Nat
    BY ListNames DEF MarkerSize
  <2>2. After(cl, cl', slack, most)
    BY <1>3, <1>5, <2>1, EmitKeeps DEF vkBeginCommandBuffer, NewMarker
  <2>3. Step(cl, cl', slack, most)
    BY <1>3, <2>2, AfterIsStep
  <2> QED
    BY <1>1, <1>2, <1>5, <2>3, StepInv DEF vkBeginCommandBuffer
<1>6. CASE vkCmdEndRenderPass
  <2>1. Step(cl, cl', slack, most)
    BY <1>3, <1>4, <1>6, DoneStep DEF vkCmdEndRenderPass
  <2> QED
    BY <1>1, <1>2, <1>6, <2>1, StepInv DEF vkCmdEndRenderPass
<1>7. ASSUME NEW s \in Shaders, vkCmdDraw(s)  PROVE  ListsInv'
  <2>1. PICK d : d = drawCommon(cl, s)
    OBVIOUS
  <2>2. Step(cl, d, 0, most)
    BY <1>2, <1>3, <2>1, CommonKeeps
  <2>3. d \in ListsRec /\ InBlocks(d, 0, most)
    BY <2>2 DEF Step
  <2>4. InBlocks(d, slack, most)
    <3>1. 0 \in Nat /\ 0 <= slack /\ most <= most
      BY <1>1, <1>2
    <3> QED
      BY <1>3, <2>3, <3>1, WithSlack
  <2>5. Step(d, cl', slack, most)
    <3>1. cl' = Done(d, <<VertexArrayPrimitives>>)
      BY <1>7, <2>1 DEF vkCmdDraw
    <3> QED
      BY <1>3, <1>4, <2>3, <2>4, <3>1, DoneStep
  <2>6. Step(cl, cl', slack, most)
    BY <1>3, <2>2, <2>5, StepStep
  <2> QED
    BY <1>1, <1>2, <1>7, <2>6, StepInv DEF vkCmdDraw
<1>8. ASSUME NEW s \in Shaders, NEW b \in IndexBuffers, vkCmdDrawIndexed(s, b)  PROVE  ListsInv'
  <2>1. InBlocks(cl, 4, 9)
    <3>1. slack <= 4 /\ most <= 9 /\ 4 \in Nat /\ 9 \in Nat
      BY <1>1, <1>2
    <3> QED
      BY <1>3, <3>1, WithSlack
  <2>2. PICK hs : hs = known \cup handlesOf(s)
    OBVIOUS
  <2>3. PICK gem : gem = Put(Handle(drawCommon(cl, s), hs, b), "bin", 9)
    OBVIOUS
  <2>4. PICK noted : noted = Noted(gem, "bin", "gemReloc", <<gem.used["bin"] - 8>>)
    OBVIOUS
  <2>5. /\ cl' = Put(Fit(noted, "bin", 10), "bin", 14)
        /\ indexed' = TRUE /\ level' = level
    BY <1>8, <2>2, <2>3, <2>4 DEF vkCmdDrawIndexed
  <2>6. Step(cl, cl', 4, 9)
    BY <1>3, <2>1, <2>3, <2>4, <2>5, IndexedKeeps
  <2>7. cl' \in ListsRec /\ InBlocks(cl', 4, 9) /\ IndexesOK(cl')
    BY <2>6 DEF Step, ListsInv
  <2>8. InBlocks(cl, IF indexed THEN 4 ELSE 0, IF indexed THEN 9 ELSE 1)'
    BY <2>5, <2>7 DEF InBlocks, size
  <2>9. IndexesOK(cl)'
    BY <2>5, <2>7 DEF IndexesOK, WordsApart
  <2>10. (cl \in ListsRec)'
    BY <2>7 DEF ListsRec
  <2> QED
    BY <2>5, <2>8, <2>9, <2>10 DEF ListsInv
<1>9. ASSUME NEW p \in Passes, vkCmdBeginRenderPass(p)  PROVE  ListsInv'
  <2>1. PICK targets : targets = ImagesOf(p)
    OBVIOUS
  <2>2. Len(targets) \in Nat
    BY <2>1 DEF ImagesOf
  <2>3. Step(cl, cl', slack, most)
    BY <1>3, <1>9, <2>1, <2>2, BinningKeeps DEF vkCmdBeginRenderPass
  <2> QED
    BY <1>1, <1>2, <1>9, <2>3, StepInv DEF vkCmdBeginRenderPass
<1>10. ASSUME NEW i \in Images, vkCmdClearImage(i)  PROVE  ListsInv'
  <2>1. PICK d : d = Binning(NewMarker(cl), <<i>>)
    OBVIOUS
  <2>2. Step(cl, d, slack, most)
    <3>1. PICK targets : targets = <<i>>
      OBVIOUS
    <3>2. Len(targets) \in Nat
      BY <3>1
    <3> QED
      BY <1>3, <2>1, <3>1, <3>2, BinningKeeps
  <2>3. d \in ListsRec /\ InBlocks(d, slack, most)
    BY <2>2 DEF Step
  <2>4. Step(d, cl', slack, most)
    BY <1>3, <1>4, <1>10, <2>1, <2>3, DoneStep DEF vkCmdClearImage
  <2>5. Step(cl, cl', slack, most)
    BY <1>3, <2>2, <2>4, StepStep
  <2> QED
    BY <1>1, <1>2, <1>10, <2>5, StepInv DEF vkCmdClearImage
<1>11. CASE UNCHANGED vars
  BY <1>11 DEF vars, ListsInv, ListsRec, InBlocks, size, IndexesOK, WordsApart
<1> QED
  BY <1>5, <1>6, <1>7, <1>8, <1>9, <1>10, <1>11
  DEF Next, vkCmdClearColorImage, vkCmdClearDepthStencilImage

LEMMA ListsStart == Init => ListsInv
<1> SUFFICES ASSUME Init  PROVE  ListsInv
  OBVIOUS
<1>1. cl \in ListsRec
  BY DEF Init, Empty, ListsRec
<1>2. \A l \in Lists : cl.used[l] = 0 /\ cl.blocks[l] = 1 /\ cl.over[l] = 0
  BY DEF Init, Empty
<1>3. InBlocks(cl, 0, 1)
  BY <1>2, BlockSizeAssumption DEF InBlocks, size
<1>4. IndexesOK(cl)
  BY DEF Init, Empty, IndexesOK
<1> QED
  BY <1>1, <1>3, <1>4 DEF Init, ListsInv

LEMMA ListsInvariant == PartsSpec => []ListsInv
<1>1. PartsInit => ListsInv
  BY ListsStart DEF PartsInit
<1>2. ListsInv /\ [PartsNext]_<<vars, blockVars, bufferVars, part>> => ListsInv'
  <2> SUFFICES ASSUME ListsInv, [PartsNext]_<<vars, blockVars, bufferVars, part>>  PROVE  ListsInv'
    OBVIOUS
  <2>1. [Next]_vars
    BY DEF PartsNext
  <2> QED
    BY <2>1, ListsStep
<1> QED
  BY <1>1, <1>2, PTL DEF PartsSpec

(* Wherever blocks end, and whatever programs with up to eight attributes  *)
(* are drawn with, only the bin list is written beyond its blocks: a byte  *)
(* by the configuration bits, and nine by indexed draws                    *)
(* (ControlListUtil.c:311, draw.c:670, 680).                               *)
THEOREM ListsStayInBlocks == PartsSpec => []WritesStayInBlocks
<1>1. ListsInv => WritesStayInBlocks
  <2> SUFFICES ASSUME ListsInv, NEW l \in Lists
               PROVE  cl.over[l] <= (IF l # "bin" THEN 0 ELSE IF indexed THEN 9 ELSE 1)
    BY DEF WritesStayInBlocks
  <2>1. cl.over[l] <= (IF l = "bin" THEN (IF indexed THEN 9 ELSE 1) ELSE 0)
    BY DEF ListsInv, InBlocks
  <2> QED
    BY <2>1
<1> QED
  BY <1>1, ListsInvariant, PTL

(* The relocation lists of a secondary buffer name exactly the words with  *)
(* handle indices, which lie apart and inside their lists, for any number  *)
(* of draws and any sizes of blocks (draw.c:238-256, 395-450, 672-677).    *)
THEOREM RelocationsNameTheIndexes == PartsSpec => []RelocationsNameIndexWords
<1>1. ListsInv => RelocationsNameIndexWords
  BY DEF ListsInv, IndexesOK, WordsApart, RelocationsNameIndexWords
<1> QED
  BY <1>1, ListsInvariant, PTL

-----------------------------------------------------------------------------
(* Buffers are recorded while they are live, and have a pass meanwhile.     *)
Nested == recording \subseteq live /\ bufferInPass \subseteq recording

(* The blocks of lists of buffers that hold f[b] blocks.                   *)
BlocksOf(f) == UNION {{b} \X (1 .. f[b]) : b \in P!Buffers}

HeldOK ==
  /\ live \subseteq P!Buffers
  /\ listsHeld \in [P!Buffers -> Nat] /\ room \in Nat
  /\ room + Cardinality(BlocksOf(listsHeld)) = ListBlocks
  /\ \A b \in P!Buffers : IF b \in live THEN listsHeld[b] >= 7 ELSE listsHeld[b] = 0

LEMMA PoolCardinality == \A S : P!Cardinality(S) = Cardinality(S)
BY Zenon DEF P!Cardinality, Cardinality

LEMMA BlocksOfOne ==
  ASSUME NEW b, NEW n \in Nat
  PROVE  IsFiniteSet({b} \X (1 .. n)) /\ Cardinality({b} \X (1 .. n)) = n
<1>1. IsFiniteSet({b}) /\ Cardinality({b}) = 1
  BY FS_Singleton
<1>2. IsFiniteSet(1 .. n) /\ Cardinality(1 .. n) = n
  BY FS_Interval
<1>3. /\ IsFiniteSet({b} \X (1 .. n))
      /\ Cardinality({b} \X (1 .. n)) = Cardinality({b}) * Cardinality(1 .. n)
  BY <1>1, <1>2, FS_Product
<1> QED
  BY <1>1, <1>2, <1>3

LEMMA BlocksOfFinite ==
  ASSUME NEW f \in [P!Buffers -> Nat]
  PROVE  IsFiniteSet(BlocksOf(f)) /\ Cardinality(BlocksOf(f)) \in Nat
<1>1. IsFiniteSet(P!Buffers)
  BY PartsAssumption DEF P!Buffers
<1> DEFINE one(b) == {b} \X (1 .. f[b])
           All == {one(b) : b \in P!Buffers}
<1>2. IsFiniteSet(All)
  <2> DEFINE F == [b \in P!Buffers |-> one(b)]
  <2>1. F \in Surjection(P!Buffers, All)
    BY DEF Surjection
  <2> QED
    BY <1>1, <2>1, FS_Surjection
<1>3. \A T \in All : IsFiniteSet(T)
  <2>1. ASSUME NEW b \in P!Buffers  PROVE  IsFiniteSet(one(b))
    <3>1. f[b] \in Nat
      OBVIOUS
    <3> QED
      BY <3>1, BlocksOfOne
  <2> QED
    BY <2>1
<1>4. IsFiniteSet(UNION All)
  <2> HIDE DEF All
  <2> QED
    BY <1>2, <1>3, FS_UNION
<1> QED
  BY <1>4, FS_CardinalityType DEF BlocksOf

(* One buffer holds another number of blocks.                              *)
LEMMA BlocksChange ==
  ASSUME NEW f \in [P!Buffers -> Nat], NEW b \in P!Buffers, NEW n \in Nat
  PROVE  Cardinality(BlocksOf([f EXCEPT ![b] = n])) = Cardinality(BlocksOf(f)) - f[b] + n
<1> DEFINE g == [f EXCEPT ![b] = n]
           old == {b} \X (1 .. f[b])
           new == {b} \X (1 .. n)
           rest == BlocksOf(f) \ old
<1>1. g \in [P!Buffers -> Nat] /\ g[b] = n /\ \A c \in P!Buffers : c # b => g[c] = f[c]
  OBVIOUS
<1>2. f[b] \in Nat
  OBVIOUS
<1>3. IsFiniteSet(old) /\ Cardinality(old) = f[b] /\ IsFiniteSet(new) /\ Cardinality(new) = n
  BY <1>2, BlocksOfOne
<1>4. IsFiniteSet(BlocksOf(f)) /\ Cardinality(BlocksOf(f)) \in Nat
  BY BlocksOfFinite
<1>5. BlocksOf(f) \cap old = old
  BY DEF BlocksOf
<1>6. IsFiniteSet(rest) /\ Cardinality(rest) = Cardinality(BlocksOf(f)) - f[b]
  <2> HIDE DEF old
  <2>1. /\ IsFiniteSet(BlocksOf(f) \ old)
        /\ Cardinality(BlocksOf(f) \ old) = Cardinality(BlocksOf(f)) - Cardinality(BlocksOf(f) \cap old)
    BY <1>4, FS_Difference
  <2> QED
    BY <1>3, <1>5, <2>1
<1>7. BlocksOf(g) = rest \cup new
  <2> HIDE DEF g
  <2>1. \A x : x \in BlocksOf(g) <=> \E c \in P!Buffers : x \in {c} \X (1 .. g[c])
    BY DEF BlocksOf
  <2>2. \A x : x \in BlocksOf(f) <=> \E c \in P!Buffers : x \in {c} \X (1 .. f[c])
    BY DEF BlocksOf
  <2>3. \A c, d, e, h : c # d => ({c} \X e) \cap ({d} \X h) = {}
    OBVIOUS
  <2>4. ASSUME NEW x  PROVE  x \in BlocksOf(g) <=> x \in rest \cup new
    <3>1. ASSUME NEW c \in P!Buffers, x \in {c} \X (1 .. g[c])  PROVE  x \in rest \cup new
      <4>1. CASE c = b
        BY <1>1, <3>1, <4>1
      <4>2. CASE c # b
        BY <1>1, <2>2, <2>3, <3>1, <4>2
      <4> QED
        BY <4>1, <4>2
    <3>2. ASSUME x \in new  PROVE  x \in BlocksOf(g)
      BY <1>1, <2>1, <3>2
    <3>3. ASSUME NEW c \in P!Buffers, x \in {c} \X (1 .. f[c]), x \notin old
          PROVE  x \in BlocksOf(g)
      BY <1>1, <2>1, <3>3
    <3> QED
      BY <2>1, <2>2, <3>1, <3>2, <3>3
  <2> QED
    BY <2>4
<1>8. rest \cap new = {}
  <2>1. ASSUME NEW x, x \in rest, x \in new  PROVE  FALSE
    <3>1. PICK c \in P!Buffers : x \in {c} \X (1 .. f[c])
      BY <2>1 DEF BlocksOf
    <3> QED
      BY <2>1, <3>1
  <2> QED
    BY <2>1
<1> HIDE DEF rest, new
<1>9. Cardinality(rest \cup new) = Cardinality(rest) + Cardinality(new) - Cardinality(rest \cap new)
  BY <1>3, <1>6, FS_Union
<1>10. Cardinality({}) = 0
  BY FS_EmptySet
<1>11. Cardinality(BlocksOf(g)) = Cardinality(BlocksOf(f)) - f[b] + n
  <2> HIDE DEF g, old
  <2> QED
    <3>1. PICK x \in Nat, y \in Nat : x = Cardinality(BlocksOf(f)) /\ y = f[b]
      BY <1>2, <1>4
    <3>2. Cardinality(rest) = x - y
      BY <1>6, <3>1
    <3>3. Cardinality(rest \cup new) = x - y + n - 0
      BY <1>3, <1>8, <1>9, <1>10, <3>2
    <3> QED
      BY <1>7, <3>1, <3>3
<1> QED
  BY <1>11

(* Buffers that held nothing hold n blocks each.                           *)
LEMMA BlocksAdded ==
  ASSUME NEW f \in [P!Buffers -> Nat], NEW bs \in SUBSET P!Buffers, NEW n \in Nat,
         \A b \in bs : f[b] = 0
  PROVE  LET g == [b \in P!Buffers |-> IF b \in bs THEN n ELSE f[b]] IN
         /\ Cardinality(bs) \in Nat
         /\ Cardinality(BlocksOf(g)) = Cardinality(BlocksOf(f)) + Cardinality(bs) * n
<1> DEFINE g == [b \in P!Buffers |-> IF b \in bs THEN n ELSE f[b]]
           new == bs \X (1 .. n)
<1>1. IsFiniteSet(bs) /\ Cardinality(bs) \in Nat
  <2>1. IsFiniteSet(P!Buffers)
    BY PartsAssumption DEF P!Buffers
  <2> QED
    BY <2>1, FS_Subset, FS_CardinalityType
<1>2. IsFiniteSet(1 .. n) /\ Cardinality(1 .. n) = n
  BY FS_Interval
<1>3. IsFiniteSet(new) /\ Cardinality(new) = Cardinality(bs) * n
  BY <1>1, <1>2, FS_Product
<1>4. IsFiniteSet(BlocksOf(f)) /\ Cardinality(BlocksOf(f)) \in Nat
  BY BlocksOfFinite
<1>5. BlocksOf(g) = BlocksOf(f) \cup new
  BY DEF BlocksOf
<1>6. BlocksOf(f) \cap new = {}
  BY DEF BlocksOf
<1>7. Cardinality(BlocksOf(f) \cup new) =
        Cardinality(BlocksOf(f)) + Cardinality(new) - Cardinality(BlocksOf(f) \cap new)
  BY <1>3, <1>4, FS_Union
<1>8. Cardinality({}) = 0
  BY FS_EmptySet
<1>9. Cardinality(BlocksOf(g)) = Cardinality(BlocksOf(f)) + Cardinality(bs) * n
  <2> DEFINE k == Cardinality(bs) * n
  <2>1. Cardinality(new) = k /\ k \in Nat
    BY <1>1, <1>3
  <2> HIDE DEF g, new, k
  <2>2. Cardinality(BlocksOf(g)) = Cardinality(BlocksOf(f)) + k
    <3>1. PICK x \in Nat : x = Cardinality(BlocksOf(f))
      BY <1>4
    <3>2. Cardinality(BlocksOf(f) \cup new) = x + k - 0
      BY <1>6, <1>7, <1>8, <2>1, <3>1
    <3> QED
      BY <1>5, <2>1, <3>1, <3>2
  <2> QED
    BY <2>2 DEF k
<1> QED
  BY <1>1, <1>9

(* What is counted is what the property says.                              *)
LEMMA HeldIsConserved == HeldOK => BlocksConserved
<1> SUFFICES ASSUME HeldOK  PROVE  BlocksConserved
  OBVIOUS
<1>1. P!heldBlocks = BlocksOf(listsHeld)
  BY DEF P!heldBlocks, BlocksOf
<1>2. Cardinality(BlocksOf(listsHeld)) \in Nat
  BY BlocksOfFinite DEF HeldOK
<1>3. ListBlocks \in Nat
  BY PartsAssumption
<1>4. room \in 0 .. ListBlocks
  BY <1>2, <1>3 DEF HeldOK
<1>5. room + P!Cardinality(P!heldBlocks) = ListBlocks
  BY <1>1, PoolCardinality DEF HeldOK
<1>6. \A b \in P!Buffers : (b \in live) = (listsHeld[b] >= P!ListsOfBuffer)
  BY DEF HeldOK, P!ListsOfBuffer
<1> QED
  BY <1>4, <1>5, <1>6 DEF BlocksConserved, P!BlocksConserved

-----------------------------------------------------------------------------
(* What a step does to the blocks.                                         *)
LEMMA HeldStep == HeldOK /\ Nested /\ P!Next => HeldOK'
<1> SUFFICES ASSUME HeldOK, Nested, P!Next  PROVE  HeldOK'
  OBVIOUS
<1> DEFINE card(f) == Cardinality(BlocksOf(f))
<1>1. /\ live \subseteq P!Buffers
      /\ listsHeld \in [P!Buffers -> Nat] /\ room \in Nat
      /\ room + card(listsHeld) = ListBlocks
      /\ \A b \in P!Buffers : IF b \in live THEN listsHeld[b] >= 7 ELSE listsHeld[b] = 0
      /\ card(listsHeld) \in Nat
  BY BlocksOfFinite DEF HeldOK
<1>2. PICK f \in [P!Buffers -> Nat], r \in Nat : f = listsHeld /\ r = room
  BY <1>1
<1> HIDE DEF card
<1>3. ASSUME UNCHANGED <<live, listsHeld, room>>  PROVE  HeldOK'
  <2>1. live' = live /\ listsHeld' = listsHeld /\ room' = room
    BY <1>3
  <2>2. room' + card(listsHeld') = ListBlocks
    BY <1>1, <2>1
  <2> QED
    BY <1>1, <2>1, <2>2 DEF HeldOK, card
<1>4. ASSUME NEW bs \in SUBSET P!Buffers, P!vkAllocateCommandBuffers(bs)  PROVE  HeldOK'
  <2>1. /\ bs \cap live = {} /\ live' = live \cup bs
        /\ listsHeld' = [b \in P!Buffers |-> IF b \in bs THEN 7 ELSE f[b]]
        /\ r >= 7 * Cardinality(bs) /\ room' = r - 7 * Cardinality(bs)
    BY <1>2, <1>4, PoolCardinality DEF P!vkAllocateCommandBuffers, P!ListsOfBuffer
  <2>2. \A b \in bs : f[b] = 0
    BY <1>1, <1>2, <2>1
  <2>3. Cardinality(bs) \in Nat /\ card(listsHeld') = card(f) + Cardinality(bs) * 7
    BY <2>1, <2>2, BlocksAdded DEF card
  <2>4. room' \in Nat /\ room' + card(listsHeld') = ListBlocks
    BY <1>1, <1>2, <2>1, <2>3
  <2>5. live' \subseteq P!Buffers /\ listsHeld' \in [P!Buffers -> Nat]
    BY <1>1, <2>1
  <2>6. \A b \in P!Buffers : IF b \in live' THEN listsHeld'[b] >= 7 ELSE listsHeld'[b] = 0
    BY <1>1, <1>2, <2>1
  <2> QED
    BY <2>4, <2>5, <2>6 DEF HeldOK, card
<1>5. ASSUME NEW b \in P!Buffers, P!vkFreeCommandBuffers(b)  PROVE  HeldOK'
  <2>1. /\ b \in live /\ live' = live \ {b}
        /\ room' = r + f[b] /\ listsHeld' = [f EXCEPT ![b] = 0]
    BY <1>2, <1>5 DEF P!vkFreeCommandBuffers
  <2>2. card(listsHeld') = card(f) - f[b] + 0
    BY <2>1, BlocksChange DEF card
  <2>3. f[b] \in Nat
    BY <1>2
  <2>4. room' \in Nat /\ room' + card(listsHeld') = ListBlocks
    BY <1>1, <1>2, <2>1, <2>2, <2>3
  <2>5. live' \subseteq P!Buffers /\ listsHeld' \in [P!Buffers -> Nat]
    BY <1>1, <2>1
  <2>6. \A c \in P!Buffers : IF c \in live' THEN listsHeld'[c] >= 7 ELSE listsHeld'[c] = 0
    BY <1>1, <1>2, <2>1
  <2> QED
    BY <2>4, <2>5, <2>6 DEF HeldOK, card
<1>6. ASSUME NEW p \in live, NEW n \in Nat, n <= room, live' = live,
             listsHeld' = [listsHeld EXCEPT ![p] = listsHeld[p] + n], room' = room - n
      PROVE  HeldOK'
  <2>1. p \in P!Buffers /\ f[p] \in Nat /\ f[p] + n \in Nat
    BY <1>1, <1>2
  <2>2. listsHeld' = [f EXCEPT ![p] = f[p] + n]
    BY <1>2, <1>6
  <2>3. card(listsHeld') = card(f) - f[p] + (f[p] + n)
    BY <2>1, <2>2, BlocksChange DEF card
  <2>4. room' \in Nat /\ room' + card(listsHeld') = ListBlocks
    BY <1>1, <1>2, <1>6, <2>1, <2>3
  <2>5. live' \subseteq P!Buffers /\ listsHeld' \in [P!Buffers -> Nat]
    BY <1>1, <1>6, <2>1, <2>2
  <2>6. \A c \in P!Buffers : IF c \in live' THEN listsHeld'[c] >= 7 ELSE listsHeld'[c] = 0
    BY <1>1, <1>2, <1>6, <2>1, <2>2
  <2> QED
    BY <2>4, <2>5, <2>6 DEF HeldOK, card
<1>7. ASSUME NEW p \in Primaries, NEW s \in Secondaries, P!vkCmdExecuteCommands(p, s)
      PROVE  HeldOK'
  <2>1. p \in live /\ live' = live
    BY <1>7 DEF P!vkCmdExecuteCommands, Nested
  <2>2. PICK n \in {k \in 0 .. 1 : k <= room} :
          listsHeld' = [listsHeld EXCEPT ![p] = @ + n] /\ room' = room - n
    BY <1>7 DEF P!vkCmdExecuteCommands
  <2>3. n \in Nat /\ n <= room /\ listsHeld' = [listsHeld EXCEPT ![p] = listsHeld[p] + n]
    BY <2>2
  <2> QED
    BY <1>6, <2>1, <2>2, <2>3
<1>8. ASSUME NEW p \in Primaries, NEW s \in Secondaries, NEW t \in Secondaries,
             P!vkCmdExecuteTwo(p, s, t)
      PROVE  HeldOK'
  <2>1. p \in live /\ live' = live
    BY <1>8 DEF P!vkCmdExecuteTwo, Nested
  <2>2. PICK m \in BOOLEAN :
          /\ m => room > 0
          /\ listsHeld' = [listsHeld EXCEPT ![p] = @ + (IF m THEN 1 ELSE 0)]
          /\ room' = room - (IF m THEN 1 ELSE 0)
    BY <1>8, Zenon DEF P!vkCmdExecuteTwo
  <2>3. PICK n \in Nat : n = IF m THEN 1 ELSE 0
    OBVIOUS
  <2>4. n <= room /\ listsHeld' = [listsHeld EXCEPT ![p] = listsHeld[p] + n] /\ room' = room - n
    BY <1>1, <2>2, <2>3
  <2> QED
    BY <1>6, <2>1, <2>4
<1>9. ASSUME NEW n \in 1 .. P!Cardinality(P!Buffers), P!allocationFails(n)  PROVE  HeldOK'
  BY <1>3, <1>9 DEF P!allocationFails
<1>10. ASSUME NEW b \in P!Buffers, P!vkBeginCommandBuffer(b) \/ P!vkEndCommandBuffer(b)
       PROVE  HeldOK'
  BY <1>3, <1>10 DEF P!vkBeginCommandBuffer, P!vkEndCommandBuffer
<1>11. ASSUME NEW p \in Primaries, P!vkCmdEndRenderPass(p)  PROVE  HeldOK'
  BY <1>3, <1>11 DEF P!vkCmdEndRenderPass
<1>12. ASSUME NEW p \in Primaries, NEW o \in Objects, P!vkCmdBeginRenderPass(p, o)  PROVE  HeldOK'
  BY <1>3, <1>12 DEF P!vkCmdBeginRenderPass
<1>13. ASSUME NEW s \in Secondaries, NEW o \in Objects, P!vkCmdDraw(s, o)  PROVE  HeldOK'
  BY <1>3, <1>13 DEF P!vkCmdDraw
<1> QED
  BY <1>4, <1>5, <1>7, <1>8, <1>9, <1>10, <1>11, <1>12, <1>13 DEF P!Next, P!Running

(* A step keeps recording buffers live, and passes inside recording.       *)
LEMMA NestedStep == Nested /\ P!Next => Nested'
<1> SUFFICES ASSUME Nested, P!Next  PROVE  Nested'
  OBVIOUS
<1>1. ASSUME NEW n \in 1 .. P!Cardinality(P!Buffers), P!allocationFails(n)  PROVE  Nested'
  BY <1>1 DEF P!allocationFails, P!content, Nested
<1>2. ASSUME NEW bs \in SUBSET P!Buffers, P!vkAllocateCommandBuffers(bs)  PROVE  Nested'
  BY <1>2 DEF P!vkAllocateCommandBuffers, P!Fresh, Nested
<1>3. ASSUME NEW b \in P!Buffers,
             P!vkFreeCommandBuffers(b) \/ P!vkBeginCommandBuffer(b) \/ P!vkEndCommandBuffer(b)
      PROVE  Nested'
  <2>1. CASE P!vkFreeCommandBuffers(b)
    BY <2>1 DEF P!vkFreeCommandBuffers, P!Fresh, Nested
  <2>2. CASE P!vkBeginCommandBuffer(b)
    BY <2>2 DEF P!vkBeginCommandBuffer, Nested
  <2>3. CASE P!vkEndCommandBuffer(b)
    BY <2>3 DEF P!vkEndCommandBuffer, Nested
  <2> QED
    BY <1>3, <2>1, <2>2, <2>3
<1>4. ASSUME NEW p \in Primaries, P!vkCmdEndRenderPass(p)  PROVE  Nested'
  BY <1>4 DEF P!vkCmdEndRenderPass, Nested
<1>5. ASSUME NEW p \in Primaries, NEW o \in Objects, P!vkCmdBeginRenderPass(p, o)  PROVE  Nested'
  BY <1>5 DEF P!vkCmdBeginRenderPass, Nested
<1>6. ASSUME NEW s \in Secondaries, NEW o \in Objects, P!vkCmdDraw(s, o)  PROVE  Nested'
  BY <1>6 DEF P!vkCmdDraw, Nested
<1>7. ASSUME NEW p \in Primaries, NEW s \in Secondaries, P!vkCmdExecuteCommands(p, s)
      PROVE  Nested'
  BY <1>7 DEF P!vkCmdExecuteCommands, Nested
<1>8. ASSUME NEW p \in Primaries, NEW s \in Secondaries, NEW t \in Secondaries,
             P!vkCmdExecuteTwo(p, s, t)
      PROVE  Nested'
  BY <1>8 DEF P!vkCmdExecuteTwo, Nested
<1> QED
  BY <1>1, <1>2, <1>3, <1>4, <1>5, <1>6, <1>7, <1>8 DEF P!Next, P!Running

-----------------------------------------------------------------------------
(* Entries of handle lists, and recorded words.                            *)
Entry == Objects \cup {Unknown}
WordRec == [index : Nat, object : Entry, job : Nat, sure : BOOLEAN]

(* What recorded words name among the handles hs.                          *)
At(hs, w) == w.job + w.index + 1 \in 1 .. Len(hs) /\ hs[w.job + w.index + 1] = w.object

(* The list hs with more handles at its end.                               *)
Extends(hs, more) == Len(hs) <= Len(more) /\ \A i \in 1 .. Len(hs) : more[i] = hs[i]

(* Words of a primary buffer, and of a secondary one that was not copied   *)
(* since it was recorded, whose handles belong to one job.                 *)
SureAt(hs, ws) == \A i \in 1 .. Len(ws) : ws[i].sure => At(hs, ws[i])
AllAt(hs, ws) == \A i \in 1 .. Len(ws) : ws[i].job = 0 /\ At(hs, ws[i])

WordsOK ==
  /\ handles \in [P!Buffers -> Seq(Entry)] /\ words \in [P!Buffers -> Seq(WordRec)]
  /\ off \in [P!Buffers -> Nat]
  /\ \A p \in Primaries : off[p] <= Len(handles[p]) /\ SureAt(handles[p], words[p])
  /\ \A s \in Secondaries \ executed : AllAt(handles[s], words[s])

LEMMA WordsAreNamed == WordsOK => CopiedIndicesNameHandles
<1> SUFFICES ASSUME WordsOK, NEW p \in Primaries, NEW i \in DOMAIN words[p], words[p][i].sure
             PROVE  /\ words[p][i].job + words[p][i].index + 1 \in DOMAIN handles[p]
                    /\ handles[p][words[p][i].job + words[p][i].index + 1] = words[p][i].object
  BY DEF CopiedIndicesNameHandles, P!CopiedIndicesNameHandles
<1>1. p \in P!Buffers
  BY DEF P!Buffers
<1>2. words[p] \in Seq(WordRec) /\ handles[p] \in Seq(Entry)
  BY <1>1 DEF WordsOK
<1>3. i \in 1 .. Len(words[p]) /\ DOMAIN handles[p] = 1 .. Len(handles[p])
  BY <1>2
<1>4. At(handles[p], words[p][i])
  BY <1>3 DEF WordsOK, SureAt
<1> QED
  BY <1>3, <1>4 DEF At

LEMMA ExtendsKeepsAt ==
  ASSUME NEW hs \in Seq(Entry), NEW more \in Seq(Entry), Extends(hs, more),
         NEW w \in WordRec, At(hs, w)
  PROVE  At(more, w)
<1>1. Len(hs) \in Nat /\ Len(more) \in Nat /\ w.job + w.index + 1 \in Nat
  BY DEF WordRec
<1> QED
  BY <1>1 DEF At, Extends

(* Looking an object up gives a place behind "from" that has it.           *)
LEMMA HandleIsThere ==
  ASSUME NEW hs \in Seq(Entry), NEW from \in 0 .. Len(hs), NEW o \in Entry
  PROVE  /\ P!WithHandle(hs, from, o) \in Seq(Entry)
         /\ Extends(hs, P!WithHandle(hs, from, o))
         /\ P!IndexOf(hs, from, o) \in Nat
         /\ from + P!IndexOf(hs, from, o) + 1 \in 1 .. Len(P!WithHandle(hs, from, o))
         /\ P!WithHandle(hs, from, o)[from + P!IndexOf(hs, from, o) + 1] = o
<1> DEFINE at == {i \in from + 1 .. Len(hs) : hs[i] = o}
<1>1. Len(hs) \in Nat /\ from \in Nat /\ from <= Len(hs)
  OBVIOUS
<1>2. CASE at = {}
  <2>1. P!IndexOf(hs, from, o) = Len(hs) - from
    BY <1>2 DEF P!IndexOf
  <2>2. P!WithHandle(hs, from, o) = Append(hs, o)
    BY <1>2 DEF P!WithHandle
  <2>3. /\ Append(hs, o) \in Seq(Entry) /\ Len(Append(hs, o)) = Len(hs) + 1
        /\ \A i \in 1 .. Len(hs) : Append(hs, o)[i] = hs[i]
        /\ Append(hs, o)[Len(hs) + 1] = o
    BY <1>1
  <2>4. from + P!IndexOf(hs, from, o) + 1 = Len(hs) + 1 /\ P!IndexOf(hs, from, o) \in Nat
    BY <1>1, <2>1
  <2> QED
    BY <1>1, <2>2, <2>3, <2>4 DEF Extends
<1>3. CASE at # {}
  <2>1. at \subseteq Nat
    BY <1>1
  <2>2. PICK i \in at : \A j \in at : ~ (<<j, i>> \in OpToRel(<, Nat))
    <3> HIDE DEF at
    <3> QED
      BY <1>3, <2>1, NatLessThanWellFounded, WFMin, Zenon
  <2>3. \A j \in at : i <= j
    <3>1. \A j \in at : ~ (j < i)
      BY <2>1, <2>2 DEF OpToRel
    <3> QED
      BY <2>1, <3>1
  <2>4. P!Min(at) \in at
    <3> HIDE DEF at
    <3> QED
      BY <2>2, <2>3 DEF P!Min
  <2>5. P!IndexOf(hs, from, o) = P!Min(at) - from - 1
    BY <1>3 DEF P!IndexOf
  <2>6. P!WithHandle(hs, from, o) = hs
    BY <1>3 DEF P!WithHandle
  <2>7. PICK m \in from + 1 .. Len(hs) : m = P!Min(at) /\ hs[m] = o
    BY <2>4
  <2>8. P!IndexOf(hs, from, o) \in Nat /\ from + P!IndexOf(hs, from, o) + 1 = m
    BY <1>1, <2>5, <2>7
  <2> QED
    BY <1>1, <2>6, <2>7, <2>8 DEF Extends
<1> QED
  BY <1>2, <1>3

-----------------------------------------------------------------------------
(* Sequences that are computed step by step.                               *)
(* One word translated.                                                    *)
LEMMA TranslatedWord ==
  ASSUME NEW hs \in Seq(Entry), NEW job \in Nat, NEW from \in 0 .. Len(hs),
         NEW w \in WordRec, NEW o \in Entry, NEW sure \in BOOLEAN,
         sure => from = job /\ o = w.object
  PROVE  LET t == P!translated(hs, job, from, w, o, sure) IN
         /\ t = <<t[1], t[2]>>
         /\ t[1] \in Seq(Entry) /\ Extends(hs, t[1])
         /\ t[2] \in WordRec /\ (t[2].sure => At(t[1], t[2]))
<1>1. PICK t : t = P!translated(hs, job, from, w, o, sure)
  OBVIOUS
<1>2. PICK h2, i : h2 = P!WithHandle(hs, from, o) /\ i = P!IndexOf(hs, from, o)
  OBVIOUS
<1>3. /\ h2 \in Seq(Entry) /\ Extends(hs, h2) /\ i \in Nat
      /\ from + i + 1 \in 1 .. Len(h2) /\ h2[from + i + 1] = o
  BY <1>2, HandleIsThere
<1>4. PICK v : v = [index |-> i, object |-> w.object, job |-> job, sure |-> sure]
  OBVIOUS
<1>5. t = <<h2, v>>
  BY <1>1, <1>2, <1>4 DEF P!translated, P!Word
<1>6. v \in WordRec /\ (v.sure => At(h2, v))
  BY <1>3, <1>4 DEF WordRec, At
<1> QED
  BY <1>1, <1>3, <1>5, <1>6

(* All words of a secondary buffer translated: the handles only grow, and  *)
(* the words copied for sure have theirs among them.                       *)
LEMMA TranslatedWords ==
  ASSUME WordsOK, NEW p \in Primaries, NEW s \in Secondaries, NEW hs \in Seq(Entry),
         NEW from \in 0 .. Len(hs), NEW sure \in BOOLEAN, sure => from = off[p]
  PROVE  LET t == P!Translated(p, s, hs, from, sure) IN
         /\ t[1] \in Seq(Entry) /\ Extends(hs, t[1])
         /\ t[2] \in Seq(WordRec) /\ Len(t[2]) = Len(words[s]) /\ SureAt(t[1], t[2])
<1> DEFINE ws == words[s]
           m == Len(ws)
           job == off[p]
           good == sure /\ s \notin executed
           next(r, w) == LET t == P!translated(r[1], job, from, w, P!Named(s, w), good)
                         IN  <<t[1], Append(r[2], t[2])>>
           S == {r \in Seq(Entry) \X Seq(WordRec) : Extends(hs, r[1]) /\ SureAt(r[1], r[2])}
           Fits(f) == f = [n \in 0 .. m |-> IF n = 0 THEN <<hs, <<>>>> ELSE next(f[n - 1], ws[n])]
<1>1. /\ ws \in Seq(WordRec) /\ m \in Nat /\ job \in Nat
      /\ handles[s] \in Seq(Entry) /\ Len(handles[s]) \in Nat /\ good \in BOOLEAN
  <2>1. s \in P!Buffers /\ p \in P!Buffers
    BY DEF P!Buffers
  <2> QED
    BY <2>1 DEF WordsOK
<1>2. <<hs, <<>>>> \in S
  <2>1. <<>> \in Seq(WordRec) /\ Len(<<>>) = 0
    OBVIOUS
  <2>2. SureAt(hs, <<>>)
    BY <2>1 DEF SureAt
  <2>3. Extends(hs, hs)
    <3>1. Len(hs) \in Nat
      OBVIOUS
    <3> QED
      BY <3>1 DEF Extends
  <2> HIDE DEF ws
  <2> QED
    BY <2>1, <2>2, <2>3
<1>3. ASSUME NEW r \in S, NEW n \in 1 .. m
      PROVE  next(r, ws[n]) \in S /\ Len(next(r, ws[n])[2]) = Len(r[2]) + 1
  <2>1. PICK h, c : h = r[1] /\ c = r[2]
    OBVIOUS
  <2>2. h \in Seq(Entry) /\ c \in Seq(WordRec) /\ Extends(hs, h) /\ SureAt(h, c)
    BY <2>1
  <2>3. PICK w \in WordRec : w = ws[n]
    BY <1>1
  <2>4. PICK o : o = P!Named(s, w)
    OBVIOUS
  <2>5. o \in Entry
    <3>1. w.index \in Nat
      BY DEF WordRec
    <3> QED
      BY <1>1, <2>4, <3>1 DEF P!Named, Entry
  <2>6. good => from = job /\ o = w.object
    <3>1. ASSUME good  PROVE  o = w.object
      <4>1. w.job = 0 /\ At(handles[s], w)
        BY <1>1, <2>3, <3>1 DEF WordsOK, AllAt
      <4>2. w.index \in Nat
        BY DEF WordRec
      <4> QED
        BY <1>1, <2>4, <4>1, <4>2 DEF At, P!Named
    <3> QED
      BY <3>1
  <2>7. Len(hs) \in Nat /\ Len(h) \in Nat /\ Len(hs) <= Len(h)
    BY <2>2 DEF Extends
  <2>8. from \in 0 .. Len(h)
    BY <2>7
  <2>9. PICK t : t = P!translated(h, job, from, w, o, good)
    OBVIOUS
  <2> HIDE DEF good, job, ws
  <2>10. PICK h2, v : h2 = t[1] /\ v = t[2]
    OBVIOUS
  <2>11. /\ h2 \in Seq(Entry) /\ Extends(h, h2)
         /\ v \in WordRec /\ (v.sure => At(h2, v))
    BY <1>1, <2>2, <2>5, <2>6, <2>8, <2>9, <2>10, TranslatedWord
  <2>12. next(r, ws[n]) = <<h2, Append(c, v)>>
    BY <2>1, <2>3, <2>4, <2>9, <2>10
  <2>13. Extends(hs, h2)
    <3>1. Len(h2) \in Nat
      BY <2>11
    <3> QED
      BY <2>2, <2>7, <2>11, <3>1 DEF Extends
  <2>14. PICK c2 : c2 = Append(c, v)
    OBVIOUS
  <2>15. /\ c2 \in Seq(WordRec) /\ Len(c) \in Nat /\ Len(c2) = Len(c) + 1
         /\ \A i \in 1 .. Len(c) : c2[i] = c[i]
         /\ c2[Len(c) + 1] = v
    <3> HIDE DEF S, next
    <3> QED
      BY <2>2, <2>11, <2>14, AppendProperties
  <2>16. SureAt(h2, c2)
    <3>1. ASSUME NEW i \in 1 .. Len(c2), c2[i].sure  PROVE  At(h2, c2[i])
      <4>1. CASE i = Len(c) + 1
        BY <2>11, <2>15, <3>1, <4>1
      <4>2. CASE i # Len(c) + 1
        <5>1. i \in 1 .. Len(c) /\ c2[i] = c[i] /\ c[i] \in WordRec
          BY <2>2, <2>15, <4>2
        <5>2. At(h, c[i])
          BY <2>2, <3>1, <5>1 DEF SureAt
        <5> QED
          BY <2>2, <2>11, <5>1, <5>2, ExtendsKeepsAt
      <4> QED
        BY <4>1, <4>2
    <3> QED
      BY <3>1 DEF SureAt
  <2>17. <<h2, c2>> \in S
    BY <2>11, <2>13, <2>15, <2>16
  <2>18. next(r, ws[n]) = <<h2, c2>> /\ Len(next(r, ws[n])[2]) = Len(c) + 1
    BY <2>12, <2>14, <2>15
  <2> QED
    BY <2>1, <2>17, <2>18
<1> HIDE DEF S, next
<1>4. \E f : Fits(f)
  <2> DEFINE G == [x \in S \X Nat |-> IF x[2] \in 1 .. m THEN next(x[1], ws[x[2]]) ELSE x[1]]
  <2>1. G \in [S \X Nat -> S]
    BY <1>3
  <2>2. PICK f : Stepwise(f, S, <<hs, <<>>>>, G, m)
    <3> HIDE DEF G
    <3> QED
      BY <1>1, <1>2, <2>1, StepByStep, Zenon
  <2>3. ASSUME NEW n \in 0 .. m
        PROVE  f[n] = IF n = 0 THEN <<hs, <<>>>> ELSE next(f[n - 1], ws[n])
    <3>1. CASE n = 0
      BY <2>2, <3>1 DEF Stepwise
    <3>2. CASE n # 0
      <4>1. n \in 1 .. m /\ n - 1 \in 0 .. m
        BY <1>1, <3>2
      <4>2. <<f[n - 1], n>> \in S \X Nat
        BY <2>2, <4>1 DEF Stepwise
      <4>3. G[<<f[n - 1], n>>] = next(f[n - 1], ws[n])
        BY <4>1, <4>2
      <4> QED
        BY <2>2, <3>2, <4>1, <4>3 DEF Stepwise
    <3> QED
      BY <3>1, <3>2
  <2> HIDE DEF G
  <2>4. Fits(f)
    BY <2>2, <2>3 DEF Stepwise
  <2> QED
    BY <2>4
<1>5. PICK f : f = CHOOSE g : Fits(g)
  OBVIOUS
<1>6. Fits(f)
  BY <1>4, <1>5
<1>7. P!Translated(p, s, hs, from, sure) = f[m]
  BY <1>5 DEF P!Translated, next
<1> DEFINE T == {n \in Nat : n \in 0 .. m => f[n] \in S /\ Len(f[n][2]) = n}
<1> HIDE DEF Fits
<1>8. 0 \in T
  <2>1. f[0] = <<hs, <<>>>> /\ Len(<<>>) = 0
    BY <1>1, <1>6 DEF Fits
  <2> QED
    BY <1>2, <2>1
<1>9. ASSUME NEW n \in Nat, n \in T  PROVE  n + 1 \in T
  <2>1. ASSUME n + 1 \in 0 .. m  PROVE  f[n + 1] \in S /\ Len(f[n + 1][2]) = n + 1
    <3>1. n + 1 \in 1 .. m /\ n + 1 - 1 = n /\ n \in 0 .. m
      BY <1>1, <2>1
    <3>2. f[n + 1] = next(f[n], ws[n + 1])
      <4>1. PICK k \in 1 .. m : k = n + 1
        BY <3>1
      <4>2. k \in 0 .. m /\ k # 0
        BY <1>1, <4>1
      <4>3. f[k] = next(f[k - 1], ws[k])
        BY <1>6, <4>2 DEF Fits
      <4>4. k - 1 = n
        BY <4>1
      <4> QED
        BY <4>1, <4>3, <4>4
    <3>3. f[n] \in S /\ Len(f[n][2]) = n
      BY <1>9, <3>1
    <3> QED
      BY <1>3, <3>1, <3>2, <3>3
  <2> QED
    BY <2>1
<1>10. f[m] \in S /\ Len(f[m][2]) = m
  <2> HIDE DEF T
  <2>1. m \in T
    BY <1>1, <1>8, <1>9, Upward
  <2> QED
    BY <1>1, <2>1 DEF T
<1> QED
  BY <1>7, <1>10 DEF S

-----------------------------------------------------------------------------
(* Words keep their handles when more handles or words are added.          *)
LEMMA SureExtends ==
  ASSUME NEW hs \in Seq(Entry), NEW more \in Seq(Entry), Extends(hs, more),
         NEW ws \in Seq(WordRec), SureAt(hs, ws)
  PROVE  SureAt(more, ws)
<1>1. ASSUME NEW i \in 1 .. Len(ws), ws[i].sure  PROVE  At(more, ws[i])
  <2>1. ws[i] \in WordRec /\ At(hs, ws[i])
    BY <1>1 DEF SureAt
  <2> QED
    BY <2>1, ExtendsKeepsAt
<1> QED
  BY <1>1 DEF SureAt

LEMMA SureConcat ==
  ASSUME NEW hs, NEW ws \in Seq(WordRec), SureAt(hs, ws),
         NEW vs \in Seq(WordRec), SureAt(hs, vs)
  PROVE  ws \o vs \in Seq(WordRec) /\ SureAt(hs, ws \o vs)
<1>1. PICK c : c = ws \o vs
  OBVIOUS
<1>2. /\ c \in Seq(WordRec) /\ Len(c) = Len(ws) + Len(vs)
      /\ \A k \in 1 .. Len(ws) + Len(vs) : c[k] = IF k <= Len(ws) THEN ws[k] ELSE vs[k - Len(ws)]
  BY <1>1, ConcatProperties
<1>3. ASSUME NEW i \in 1 .. Len(c), c[i].sure  PROVE  At(hs, c[i])
  <2>1. CASE i <= Len(ws)
    BY <1>2, <1>3, <2>1 DEF SureAt
  <2>2. CASE ~ (i <= Len(ws))
    <3>1. i - Len(ws) \in 1 .. Len(vs) /\ c[i] = vs[i - Len(ws)]
      BY <1>2, <2>2
    <3> QED
      BY <1>3, <3>1 DEF SureAt
  <2> QED
    BY <2>1, <2>2
<1> QED
  BY <1>1, <1>2, <1>3 DEF SureAt

(* A step that gives each buffer words and handles that belong together.   *)
Translates(b) == handles'[b] = handles[b] /\ words'[b] = words[b]

LEMMA WordsTogether ==
  ASSUME WordsOK,
         handles' \in [P!Buffers -> Seq(Entry)], words' \in [P!Buffers -> Seq(WordRec)],
         off' \in [P!Buffers -> Nat],
         \A p \in Primaries : \/ Translates(p) /\ off'[p] = off[p]
                              \/ off'[p] <= Len(handles'[p]) /\ SureAt(handles'[p], words'[p]),
         \A s \in Secondaries : \/ s \notin executed /\ Translates(s)
                                \/ s \in executed'
                                \/ AllAt(handles'[s], words'[s])
  PROVE  WordsOK'
<1>1. ASSUME NEW p \in Primaries
      PROVE  off'[p] <= Len(handles'[p]) /\ SureAt(handles'[p], words'[p])
  BY DEF WordsOK, Translates
<1>2. ASSUME NEW s \in Secondaries, s \notin executed'  PROVE  AllAt(handles'[s], words'[s])
  BY <1>2 DEF WordsOK, Translates
<1> QED
  BY <1>1, <1>2 DEF WordsOK

LEMMA EmptyIsAt == \A hs : SureAt(hs, <<>>) /\ AllAt(hs, <<>>)
BY DEF SureAt, AllAt

LEMMA FreshWords ==
  ASSUME WordsOK, NEW bs, P!Fresh(bs)
  PROVE  WordsOK'
<1>1. /\ handles' = [c \in P!Buffers |-> IF c \in bs THEN <<>> ELSE handles[c]]
      /\ words' = [c \in P!Buffers |-> IF c \in bs THEN <<>> ELSE words[c]]
      /\ off' = [c \in P!Buffers |-> IF c \in bs THEN 0 ELSE off[c]]
      /\ executed' = executed \ bs
  BY DEF P!Fresh
<1>2. \A S : <<>> \in Seq(S) /\ Len(<<>>) = 0
  OBVIOUS
<1>3. Primaries \subseteq P!Buffers /\ Secondaries \subseteq P!Buffers
  BY DEF P!Buffers
<1>4. handles' \in [P!Buffers -> Seq(Entry)]
  BY <1>1, <1>2 DEF WordsOK
<1>5. words' \in [P!Buffers -> Seq(WordRec)]
  BY <1>1, <1>2 DEF WordsOK
<1>6. off' \in [P!Buffers -> Nat]
  BY <1>1 DEF WordsOK
<1>7. ASSUME NEW p \in Primaries
      PROVE  \/ Translates(p) /\ off'[p] = off[p]
             \/ off'[p] <= Len(handles'[p]) /\ SureAt(handles'[p], words'[p])
  <2>1. CASE p \in bs
    <3>1. handles'[p] = <<>> /\ words'[p] = <<>> /\ off'[p] = 0
      BY <1>1, <1>3, <2>1
    <3> QED
      BY <1>2, <3>1, EmptyIsAt
  <2>2. CASE p \notin bs
    BY <1>1, <1>3, <2>2 DEF Translates
  <2> QED
    BY <2>1, <2>2
<1>8. ASSUME NEW s \in Secondaries
      PROVE  (s \notin executed /\ Translates(s)) \/ s \in executed' \/ AllAt(handles'[s], words'[s])
  <2>1. CASE s \in bs
    <3>1. handles'[s] = <<>> /\ words'[s] = <<>>
      BY <1>1, <1>3, <2>1
    <3> QED
      BY <3>1, EmptyIsAt
  <2>2. CASE s \notin bs
    BY <1>1, <1>3, <2>2 DEF Translates
  <2> QED
    BY <2>1, <2>2
<1> QED
  BY <1>4, <1>5, <1>6, <1>7, <1>8, WordsTogether

LEMMA BeginWords ==
  ASSUME WordsOK, NEW b \in P!Buffers, P!vkBeginCommandBuffer(b)
  PROVE  WordsOK'
<1>1. /\ handles' = [handles EXCEPT ![b] = <<>>]
      /\ words' = [words EXCEPT ![b] = <<>>]
      /\ off' = [off EXCEPT ![b] = 0]
      /\ executed' = executed \ {b}
  BY DEF P!vkBeginCommandBuffer
<1>2. \A S : <<>> \in Seq(S) /\ Len(<<>>) = 0
  OBVIOUS
<1>3. /\ handles \in [P!Buffers -> Seq(Entry)] /\ words \in [P!Buffers -> Seq(WordRec)]
      /\ off \in [P!Buffers -> Nat]
      /\ Primaries \subseteq P!Buffers /\ Secondaries \subseteq P!Buffers
  BY DEF WordsOK, P!Buffers
<1>4. handles' \in [P!Buffers -> Seq(Entry)]
  BY <1>1, <1>2, <1>3
<1>5. words' \in [P!Buffers -> Seq(WordRec)]
  BY <1>1, <1>2, <1>3
<1>6. off' \in [P!Buffers -> Nat]
  BY <1>1, <1>3
<1>7. ASSUME NEW c \in P!Buffers, c # b  PROVE  Translates(c) /\ off'[c] = off[c]
  BY <1>1, <1>3, <1>7 DEF Translates
<1>8. handles'[b] = <<>> /\ words'[b] = <<>> /\ off'[b] = 0
  BY <1>1, <1>3
<1>9. off'[b] <= Len(handles'[b]) /\ SureAt(handles'[b], words'[b]) /\ AllAt(handles'[b], words'[b])
  BY <1>2, <1>8, EmptyIsAt
<1> QED
  BY <1>1, <1>3, <1>4, <1>5, <1>6, <1>7, <1>9, WordsTogether

LEMMA RenderPassWords ==
  ASSUME WordsOK, NEW p \in Primaries, NEW o \in Objects, P!vkCmdBeginRenderPass(p, o)
  PROVE  WordsOK'
<1>1. /\ off' = [off EXCEPT ![p] = Len(handles[p])]
      /\ handles' = [handles EXCEPT ![p] = Append(handles[p], o)]
      /\ words' = words /\ executed' = executed
  BY DEF P!vkCmdBeginRenderPass
<1>2. /\ handles \in [P!Buffers -> Seq(Entry)] /\ words \in [P!Buffers -> Seq(WordRec)]
      /\ off \in [P!Buffers -> Nat]
      /\ Primaries \subseteq P!Buffers /\ Secondaries \subseteq P!Buffers /\ p \notin Secondaries
  BY PartsAssumption DEF WordsOK, P!Buffers
<1>3. PICK hs, more : hs = handles[p] /\ more = Append(hs, o)
  OBVIOUS
<1>4. /\ hs \in Seq(Entry) /\ o \in Entry /\ Len(hs) \in Nat
  BY <1>2, <1>3 DEF Entry
<1>5. more \in Seq(Entry) /\ Len(more) = Len(hs) + 1 /\ Extends(hs, more)
  BY <1>3, <1>4 DEF Extends
<1>6. handles'[p] = more /\ off'[p] = Len(hs) /\ words'[p] = words[p]
  BY <1>1, <1>2, <1>3
<1>7. SureAt(more, words[p])
  BY <1>2, <1>3, <1>4, <1>5, SureExtends DEF WordsOK
<1>8. ASSUME NEW b \in P!Buffers, b # p  PROVE  Translates(b) /\ off'[b] = off[b]
  BY <1>1, <1>2, <1>8 DEF Translates
<1>9. handles' \in [P!Buffers -> Seq(Entry)]
  BY <1>1, <1>2, <1>3, <1>5
<1>10. off' \in [P!Buffers -> Nat]
  BY <1>1, <1>2, <1>3, <1>4
<1>11. \A c \in Primaries : \/ Translates(c) /\ off'[c] = off[c]
                            \/ off'[c] <= Len(handles'[c]) /\ SureAt(handles'[c], words'[c])
  BY <1>2, <1>4, <1>5, <1>6, <1>7, <1>8
<1>12. \A s \in Secondaries : (s \notin executed /\ Translates(s)) \/ s \in executed' \/ AllAt(handles'[s], words'[s])
  BY <1>1, <1>2, <1>8
<1> QED
  BY <1>1, <1>2, <1>9, <1>10, <1>11, <1>12, WordsTogether

LEMMA DrawWords ==
  ASSUME WordsOK, NEW s \in Secondaries, NEW o \in Objects, P!vkCmdDraw(s, o)
  PROVE  WordsOK'
<1>1. /\ words' = [words EXCEPT ![s] =
            Append(@, P!Word(P!IndexOf(handles[s], 0, o), o, 0, TRUE))]
      /\ handles' = [handles EXCEPT ![s] = P!WithHandle(@, 0, o)]
      /\ off' = off /\ executed' = executed
  BY DEF P!vkCmdDraw
<1>2. /\ handles \in [P!Buffers -> Seq(Entry)] /\ words \in [P!Buffers -> Seq(WordRec)]
      /\ off \in [P!Buffers -> Nat]
      /\ Primaries \subseteq P!Buffers /\ Secondaries \subseteq P!Buffers /\ s \notin Primaries
  BY PartsAssumption DEF WordsOK, P!Buffers
<1>3. PICK hs, more, i, ws, w, vs :
        /\ hs = handles[s] /\ more = P!WithHandle(hs, 0, o) /\ i = P!IndexOf(hs, 0, o)
        /\ ws = words[s] /\ w = [index |-> i, object |-> o, job |-> 0, sure |-> TRUE]
        /\ vs = Append(ws, w)
  OBVIOUS
<1>4. hs \in Seq(Entry) /\ o \in Entry /\ 0 \in 0 .. Len(hs) /\ ws \in Seq(WordRec)
  BY <1>2, <1>3 DEF Entry
<1>5. /\ more \in Seq(Entry) /\ Extends(hs, more) /\ i \in Nat
      /\ 0 + i + 1 \in 1 .. Len(more) /\ more[0 + i + 1] = o
  BY <1>3, <1>4, HandleIsThere
<1>6. w \in WordRec /\ w.job = 0 /\ At(more, w)
  BY <1>3, <1>4, <1>5 DEF WordRec, At
<1>7. /\ vs \in Seq(WordRec) /\ Len(vs) = Len(ws) + 1 /\ Len(ws) \in Nat
      /\ \A k \in 1 .. Len(ws) : vs[k] = ws[k]
      /\ vs[Len(ws) + 1] = w
  BY <1>3, <1>4, <1>6, AppendProperties
<1>8. words' = [words EXCEPT ![s] = vs] /\ handles' = [handles EXCEPT ![s] = more]
  BY <1>1, <1>3 DEF P!Word
<1>9. handles'[s] = more /\ words'[s] = vs
  BY <1>2, <1>8
<1>10. ASSUME s \notin executed  PROVE  AllAt(more, vs)
  <2>1. AllAt(hs, ws)
    BY <1>3, <1>10 DEF WordsOK
  <2>2. ASSUME NEW k \in 1 .. Len(vs)  PROVE  vs[k].job = 0 /\ At(more, vs[k])
    <3>1. CASE k = Len(ws) + 1
      BY <1>6, <1>7, <3>1
    <3>2. CASE k # Len(ws) + 1
      <4>1. k \in 1 .. Len(ws) /\ vs[k] = ws[k] /\ ws[k] \in WordRec
        BY <1>4, <1>7, <3>2
      <4>2. ws[k].job = 0 /\ At(hs, ws[k])
        BY <2>1, <4>1 DEF AllAt
      <4> QED
        BY <1>4, <1>5, <4>1, <4>2, ExtendsKeepsAt
    <3> QED
      BY <3>1, <3>2
  <2> QED
    BY <2>2 DEF AllAt
<1>11. ASSUME NEW b \in P!Buffers, b # s  PROVE  Translates(b) /\ off'[b] = off[b]
  BY <1>1, <1>2, <1>8, <1>11 DEF Translates
<1>12. handles' \in [P!Buffers -> Seq(Entry)]
  BY <1>2, <1>5, <1>8
<1>13. words' \in [P!Buffers -> Seq(WordRec)]
  BY <1>2, <1>7, <1>8
<1>14. \A p \in Primaries : Translates(p) /\ off'[p] = off[p]
  BY <1>2, <1>11
<1>15. \A c \in Secondaries : (c \notin executed /\ Translates(c)) \/ c \in executed' \/ AllAt(handles'[c], words'[c])
  BY <1>1, <1>2, <1>9, <1>10, <1>11
<1> QED
  BY <1>1, <1>2, <1>12, <1>13, <1>14, <1>15, WordsTogether

(* The words of a secondary buffer with the indices they were copied with. *)
LEMMA RewrittenWords ==
  ASSUME WordsOK, NEW s \in Secondaries, NEW c \in Seq(WordRec), Len(c) = Len(words[s])
  PROVE  P!Rewritten(s, c) \in Seq(WordRec)
<1>1. words[s] \in Seq(WordRec)
  BY DEF WordsOK, P!Buffers
<1>2. PICK m \in Nat : m = Len(words[s]) /\ DOMAIN words[s] = 1 .. m
  BY <1>1
<1>3. ASSUME NEW i \in 1 .. m  PROVE  [words[s][i] EXCEPT !.index = c[i].index] \in WordRec
  <2>1. words[s][i] \in WordRec /\ c[i] \in WordRec
    BY <1>1, <1>2
  <2> QED
    BY <2>1 DEF WordRec
<1>4. P!Rewritten(s, c) = [i \in 1 .. m |-> [words[s][i] EXCEPT !.index = c[i].index]]
  BY <1>2 DEF P!Rewritten
<1> QED
  BY <1>3, <1>4

(* Concatenation is associative.                                           *)
cat(a, b) == a \o b

LEMMA ConcatInAnyOrder ==
  ASSUME NEW S, NEW a \in Seq(S), NEW b \in Seq(S), NEW c \in Seq(S)
  PROVE  cat(cat(a, b), c) = cat(a, cat(b, c))
<1> DEFINE Joins(h, f, g, m, n) ==
             /\ Len(h) = m + n
             /\ \A i \in 1 .. m : h[i] = f[i]
             /\ \A i \in 1 .. n : h[m + i] = g[i]
<1>1. ASSUME NEW f \in Seq(S), NEW g \in Seq(S), NEW m \in Nat, NEW n \in Nat,
             m = Len(f), n = Len(g)
      PROVE  cat(f, g) \in Seq(S) /\ Joins(cat(f, g), f, g, m, n)
  <2>1. PICK h : h = f \o g
    OBVIOUS
  <2>2. /\ h \in Seq(S) /\ Len(h) = Len(f) + Len(g)
        /\ \A i \in 1 .. Len(f) + Len(g) : h[i] = IF i <= Len(f) THEN f[i] ELSE g[i - Len(f)]
    BY <2>1, ConcatProperties
  <2>3. \A i \in 1 .. m : h[i] = f[i]
    BY <1>1, <2>2
  <2>4. ASSUME NEW i \in 1 .. n  PROVE  h[m + i] = g[i]
    <3>1. PICK k \in 1 .. m + n : k = m + i /\ ~ (k <= m) /\ k - m = i
      OBVIOUS
    <3> QED
      BY <1>1, <2>2, <3>1
  <2> QED
    BY <1>1, <2>1, <2>2, <2>3, <2>4 DEF cat
<1> HIDE DEF Joins
<1>2. PICK x \in Nat, y \in Nat, z \in Nat : x = Len(a) /\ y = Len(b) /\ z = Len(c)
  OBVIOUS
<1>3. PICK d \in Seq(S), e \in Seq(S) : d = cat(a, b) /\ e = cat(b, c)
  BY <1>1, <1>2
<1>4. PICK l \in Seq(S), r \in Seq(S) : l = cat(d, c) /\ r = cat(a, e)
  BY <1>1, <1>2
<1>5. Joins(d, a, b, x, y) /\ Len(d) = x + y
  <2>1. Joins(d, a, b, x, y)
    BY <1>1, <1>2, <1>3
  <2> QED
    BY <2>1 DEF Joins
<1>6. Joins(e, b, c, y, z) /\ Len(e) = y + z
  <2>1. Joins(e, b, c, y, z)
    BY <1>1, <1>2, <1>3
  <2> QED
    BY <2>1 DEF Joins
<1>7. Joins(l, d, c, x + y, z) /\ Len(l) = x + y + z
  <2>1. Joins(l, d, c, x + y, z)
    BY <1>1, <1>2, <1>4, <1>5
  <2> QED
    BY <2>1 DEF Joins
<1>8. Joins(r, a, e, x, y + z) /\ Len(r) = x + (y + z)
  <2>1. Joins(r, a, e, x, y + z)
    BY <1>1, <1>2, <1>4, <1>6
  <2> QED
    BY <2>1 DEF Joins
<1>9. ASSUME NEW i \in 1 .. x + y + z  PROVE  l[i] = r[i]
  <2>1. CASE i <= x
    BY <1>5, <1>7, <1>8, <2>1 DEF Joins
  <2>2. CASE i > x /\ i <= x + y
    <3>1. PICK k \in 1 .. y : i = x + k /\ k \in 1 .. y + z
      BY <2>2
    <3>2. l[i] = d[i] /\ d[i] = b[k]
      BY <1>5, <1>7, <2>2, <3>1 DEF Joins
    <3>3. r[i] = e[k]
      BY <1>8, <3>1 DEF Joins
    <3>4. e[k] = b[k]
      BY <1>6 DEF Joins
    <3> QED
      BY <3>2, <3>3, <3>4
  <2>3. CASE i > x + y
    <3>1. PICK k \in 1 .. z, m \in 1 .. y + z : k = i - x - y /\ i = x + y + k /\ i = x + m /\ m = y + k
      <4>1. i - x - y \in 1 .. z /\ i - x \in 1 .. y + z
        BY <2>3
      <4> QED
        BY <4>1
    <3>2. l[i] = c[k]
      BY <1>7, <3>1 DEF Joins
    <3>3. r[i] = e[m] /\ e[m] = c[k]
      BY <1>6, <1>8, <3>1 DEF Joins
    <3> QED
      BY <3>2, <3>3
  <2> QED
    BY <2>1, <2>2, <2>3
<1>10. l = r
  <2>1. Len(l) = Len(r)
    BY <1>7, <1>8
  <2> QED
    BY <1>7, <1>9, <2>1, SeqEqual
<1> QED
  BY <1>3, <1>4, <1>10

(* What the two ways of executing have in common: a primary buffer gets    *)
(* more handles and more words, and copied buffers are rewritten.          *)
LEMMA CopiedWords ==
  ASSUME WordsOK, NEW p \in Primaries, NEW copied \in SUBSET Secondaries,
         NEW h \in Seq(Entry), Extends(handles[p], h),
         NEW v \in Seq(WordRec), SureAt(h, v),
         handles' = [handles EXCEPT ![p] = h], off' = off, executed' = executed \cup copied,
         words' \in [P!Buffers -> Seq(WordRec)], words'[p] = words[p] \o v,
         \A b \in P!Buffers : b # p /\ b \notin copied => words'[b] = words[b]
  PROVE  WordsOK'
<1>1. /\ handles \in [P!Buffers -> Seq(Entry)] /\ words \in [P!Buffers -> Seq(WordRec)]
      /\ off \in [P!Buffers -> Nat]
      /\ Primaries \subseteq P!Buffers /\ Secondaries \subseteq P!Buffers
      /\ p \notin Secondaries /\ off[p] <= Len(handles[p]) /\ SureAt(handles[p], words[p])
  BY PartsAssumption DEF WordsOK, P!Buffers
<1>2. PICK hs, ws, o : hs = handles[p] /\ ws = words[p] /\ o = off[p]
  OBVIOUS
<1>3. /\ hs \in Seq(Entry) /\ ws \in Seq(WordRec) /\ SureAt(hs, ws) /\ Extends(hs, h)
      /\ o \in Nat /\ o <= Len(hs) /\ Len(hs) \in Nat /\ Len(h) \in Nat
  BY <1>1, <1>2
<1>4. SureAt(h, ws)
  BY <1>3, SureExtends
<1>5. SureAt(h, ws \o v)
  BY <1>3, <1>4, SureConcat
<1>6. handles'[p] = h /\ words'[p] = ws \o v /\ off'[p] = o
  BY <1>1, <1>2
<1>7. o <= Len(h)
  BY <1>3 DEF Extends
<1>8. handles' \in [P!Buffers -> Seq(Entry)]
  BY <1>1
<1>9. \A c \in Primaries : \/ Translates(c) /\ off'[c] = off[c]
                           \/ off'[c] <= Len(handles'[c]) /\ SureAt(handles'[c], words'[c])
  <2>1. ASSUME NEW c \in Primaries, c # p  PROVE  Translates(c) /\ off'[c] = off[c]
    <3>1. c \notin copied /\ c \in P!Buffers
      BY <1>1, PartsAssumption
    <3> QED
      BY <1>1, <2>1, <3>1 DEF Translates
  <2> QED
    BY <1>5, <1>6, <1>7, <2>1
<1>10. \A s \in Secondaries : (s \notin executed /\ Translates(s)) \/ s \in executed' \/ AllAt(handles'[s], words'[s])
  BY <1>1 DEF Translates
<1> QED
  BY <1>1, <1>8, <1>9, <1>10, WordsTogether

LEMMA ExecuteWords ==
  ASSUME WordsOK, NEW p \in Primaries, NEW s \in Secondaries, P!vkCmdExecuteCommands(p, s)
  PROVE  WordsOK'
<1>1. PICK t : t = P!Translated(p, s, handles[p], off[p], TRUE)
  OBVIOUS
<1>2. /\ handles' = [handles EXCEPT ![p] = t[1]]
      /\ words' = [words EXCEPT ![p] = words[p] \o t[2], ![s] = P!Rewritten(s, t[2])]
      /\ off' = off /\ executed' = executed \cup {s}
  BY <1>1 DEF P!vkCmdExecuteCommands
<1>3. /\ handles[p] \in Seq(Entry) /\ words[p] \in Seq(WordRec) /\ off[p] \in 0 .. Len(handles[p])
      /\ SureAt(handles[p], words[p]) /\ words \in [P!Buffers -> Seq(WordRec)]
      /\ p \in P!Buffers /\ s \in P!Buffers /\ p # s
  BY PartsAssumption DEF WordsOK, P!Buffers
<1>4. PICK h, v : h = t[1] /\ v = t[2]
  OBVIOUS
<1>5. PICK hs, from : hs = handles[p] /\ from = off[p]
  OBVIOUS
<1>6. /\ h \in Seq(Entry) /\ Extends(handles[p], h)
      /\ v \in Seq(WordRec) /\ Len(v) = Len(words[s]) /\ SureAt(h, v)
  BY <1>1, <1>3, <1>4, <1>5, TranslatedWords
<1>7. PICK r \in Seq(WordRec) : r = P!Rewritten(s, v)
  BY <1>6, RewrittenWords
<1>8. PICK c \in Seq(WordRec) : c = words[p] \o v
  BY <1>3, <1>6, ConcatProperties
<1>9. words' = [words EXCEPT ![p] = c, ![s] = r]
  BY <1>2, <1>4, <1>7, <1>8
<1>10. /\ words' \in [P!Buffers -> Seq(WordRec)] /\ words'[p] = c
       /\ \A b \in P!Buffers : b # p /\ b # s => words'[b] = words[b]
  BY <1>3, <1>9
<1>11. handles' = [handles EXCEPT ![p] = h]
  BY <1>2, <1>4
<1>12. PICK copied \in SUBSET Secondaries : copied = {s}
  OBVIOUS
<1>13. words'[p] = words[p] \o v
  BY <1>8, <1>10
<1>14. \A b \in P!Buffers : b # p /\ b \notin copied => words'[b] = words[b]
  BY <1>10, <1>12
<1>15. off' = off /\ executed' = executed \cup copied
  BY <1>2, <1>12
<1> QED
  BY <1>6, <1>10, <1>11, <1>13, <1>14, <1>15, CopiedWords

LEMMA ExecuteTwoWords ==
  ASSUME WordsOK, NEW p \in Primaries, NEW s1 \in Secondaries, NEW s2 \in Secondaries,
         P!vkCmdExecuteTwo(p, s1, s2)
  PROVE  WordsOK'
<1> DEFINE copies(m, from) ==
        LET t1 == P!Translated(p, s1, handles[p], off[p], TRUE)
            t2 == P!Translated(p, s2, t1[1], from, ~ m)
        IN  /\ handles' = [handles EXCEPT ![p] = t2[1]]
            /\ words' = [words EXCEPT ![p] = words[p] \o t1[2] \o t2[2],
                                      ![s1] = P!Rewritten(s1, t1[2]), ![s2] = P!Rewritten(s2, t2[2])]
<1>1. PICK m \in BOOLEAN : \E from \in IF m THEN 0 .. off[p] ELSE {off[p]} : copies(m, from)
  BY Zenon DEF P!vkCmdExecuteTwo
<1>20. PICK from \in IF m THEN 0 .. off[p] ELSE {off[p]} : copies(m, from)
  BY <1>1
<1>2. PICK t1 : t1 = P!Translated(p, s1, handles[p], off[p], TRUE)
  OBVIOUS
<1>3. PICK sure \in BOOLEAN : sure = ~ m
  OBVIOUS
<1>4. PICK t2 : t2 = P!Translated(p, s2, t1[1], from, sure)
  OBVIOUS
<1>5. /\ handles' = [handles EXCEPT ![p] = t2[1]]
      /\ words' = [words EXCEPT ![p] = words[p] \o t1[2] \o t2[2],
                                ![s1] = P!Rewritten(s1, t1[2]), ![s2] = P!Rewritten(s2, t2[2])]
  BY <1>2, <1>3, <1>4, <1>20
<1> HIDE DEF copies
<1>6. off' = off /\ executed' = executed \cup {s1, s2} /\ s1 # s2
  BY DEF P!vkCmdExecuteTwo
<1>7. /\ handles[p] \in Seq(Entry) /\ words[p] \in Seq(WordRec) /\ off[p] \in 0 .. Len(handles[p])
      /\ SureAt(handles[p], words[p]) /\ words \in [P!Buffers -> Seq(WordRec)]
      /\ p \in P!Buffers /\ s1 \in P!Buffers /\ s2 \in P!Buffers /\ p # s1 /\ p # s2
      /\ off[p] \in Nat
  BY PartsAssumption DEF WordsOK, P!Buffers
<1>8. PICK h1, v1, h2, v2 : h1 = t1[1] /\ v1 = t1[2] /\ h2 = t2[1] /\ v2 = t2[2]
  OBVIOUS
<1>9. PICK hs, o : hs = handles[p] /\ o = off[p]
  OBVIOUS
<1>10. /\ h1 \in Seq(Entry) /\ Extends(handles[p], h1)
       /\ v1 \in Seq(WordRec) /\ Len(v1) = Len(words[s1]) /\ SureAt(h1, v1)
  BY <1>2, <1>7, <1>8, <1>9, TranslatedWords
<1>11. from \in 0 .. Len(h1) /\ (sure => from = off[p])
  <2>1. Len(handles[p]) <= Len(h1) /\ Len(h1) \in Nat /\ Len(handles[p]) \in Nat
    BY <1>7, <1>10 DEF Extends
  <2>2. from \in 0 .. off[p]
    BY <1>7
  <2>3. ASSUME sure  PROVE  from = off[p]
    <3>1. ~ m
      BY <1>3, <2>3, Zenon
    <3> QED
      BY <3>1
  <2> QED
    BY <1>7, <2>1, <2>2, <2>3
<1>12. /\ h2 \in Seq(Entry) /\ Extends(h1, h2)
       /\ v2 \in Seq(WordRec) /\ Len(v2) = Len(words[s2]) /\ SureAt(h2, v2)
  BY <1>4, <1>8, <1>10, <1>11, TranslatedWords
<1>13. Extends(handles[p], h2)
  <2>1. Len(handles[p]) \in Nat /\ Len(h1) \in Nat /\ Len(h2) \in Nat
    BY <1>7, <1>10, <1>12
  <2> QED
    BY <1>10, <1>12, <2>1 DEF Extends
<1>14. PICK v \in Seq(WordRec) : v = v1 \o v2 /\ SureAt(h2, v)
  <2>1. SureAt(h2, v1)
    BY <1>10, <1>12, SureExtends
  <2> QED
    BY <1>10, <1>12, <2>1, SureConcat
<1>15. PICK r1 \in Seq(WordRec), r2 \in Seq(WordRec) :
         r1 = P!Rewritten(s1, v1) /\ r2 = P!Rewritten(s2, v2)
  BY <1>10, <1>12, RewrittenWords
<1>16. PICK c \in Seq(WordRec) : c = words[p] \o v1 \o v2 /\ c = words[p] \o v
  <2>1. PICK ws \in Seq(WordRec) : ws = words[p]
    BY <1>7
  <2>2. (ws \o v1) \o v2 = ws \o (v1 \o v2)
    <3>1. cat(cat(ws, v1), v2) = cat(ws, cat(v1, v2))
      BY <1>10, <1>12, ConcatInAnyOrder
    <3> QED
      BY <3>1 DEF cat
  <2>3. ws \o v \in Seq(WordRec)
    BY <1>14, ConcatProperties
  <2> QED
    BY <1>14, <2>1, <2>2, <2>3
<1>17. words' = [words EXCEPT ![p] = c, ![s1] = r1, ![s2] = r2]
  BY <1>5, <1>8, <1>15, <1>16
<1>18. /\ words' \in [P!Buffers -> Seq(WordRec)] /\ words'[p] = words[p] \o v
       /\ \A b \in P!Buffers : b # p /\ b \notin {s1, s2} => words'[b] = words[b]
  BY <1>7, <1>16, <1>17
<1>19. handles' = [handles EXCEPT ![p] = h2]
  BY <1>5, <1>8
<1> QED
  BY <1>6, <1>12, <1>13, <1>14, <1>18, <1>19, CopiedWords

(* A step of the command pool, whatever it does.                           *)
LEMMA WordsStep == WordsOK /\ P!Next => WordsOK'
<1> SUFFICES ASSUME WordsOK, P!Next  PROVE  WordsOK'
  OBVIOUS
<1>1. ASSUME UNCHANGED <<handles, words, off, executed>>  PROVE  WordsOK'
  BY <1>1 DEF WordsOK
<1>2. ASSUME NEW n \in 1 .. P!Cardinality(P!Buffers), P!allocationFails(n)  PROVE  WordsOK'
  BY <1>1, <1>2 DEF P!allocationFails, P!content
<1>3. ASSUME NEW bs \in SUBSET P!Buffers, P!vkAllocateCommandBuffers(bs)  PROVE  WordsOK'
  BY <1>3, FreshWords DEF P!vkAllocateCommandBuffers
<1>4. ASSUME NEW b \in P!Buffers, P!vkFreeCommandBuffers(b)  PROVE  WordsOK'
  BY <1>4, FreshWords DEF P!vkFreeCommandBuffers
<1>5. ASSUME NEW b \in P!Buffers, P!vkEndCommandBuffer(b)  PROVE  WordsOK'
  BY <1>1, <1>5 DEF P!vkEndCommandBuffer
<1>6. ASSUME NEW p \in Primaries, P!vkCmdEndRenderPass(p)  PROVE  WordsOK'
  BY <1>1, <1>6 DEF P!vkCmdEndRenderPass
<1> QED
  BY <1>2, <1>3, <1>4, <1>5, <1>6, BeginWords, RenderPassWords, DrawWords, ExecuteWords,
     ExecuteTwoWords DEF P!Next, P!Running

-----------------------------------------------------------------------------
(* What holds of the command buffers of a pool.                            *)
PoolInv == Nested /\ HeldOK /\ WordsOK

LEMMA PoolStarts == PartsInit => PoolInv
<1> SUFFICES ASSUME P!Init  PROVE  PoolInv
  BY DEF PartsInit
<1>1. /\ live = {} /\ recording = {} /\ bufferInPass = {} /\ room = ListBlocks
      /\ listsHeld = [b \in P!Buffers |-> 0]
      /\ handles = [b \in P!Buffers |-> <<>>] /\ words = [b \in P!Buffers |-> <<>>]
      /\ off = [b \in P!Buffers |-> 0]
  BY DEF P!Init
<1>2. Cardinality(BlocksOf(listsHeld)) = 0
  <2>1. \A b \in P!Buffers : {b} \X (1 .. listsHeld[b]) = {}
    BY <1>1
  <2>2. BlocksOf(listsHeld) = {}
    BY <2>1 DEF BlocksOf
  <2> QED
    BY <2>2, FS_EmptySet
<1>3. HeldOK
  BY <1>1, <1>2, PartsAssumption DEF HeldOK
<1>4. \A S : <<>> \in Seq(S) /\ Len(<<>>) = 0
  OBVIOUS
<1>5. \A b \in Primaries : off[b] <= Len(handles[b]) /\ SureAt(handles[b], words[b])
  BY <1>1, <1>4, EmptyIsAt DEF P!Buffers
<1>6. \A b \in Secondaries : AllAt(handles[b], words[b])
  BY <1>1, EmptyIsAt DEF P!Buffers
<1>7. WordsOK
  BY <1>1, <1>4, <1>5, <1>6 DEF WordsOK
<1> QED
  BY <1>1, <1>3, <1>7 DEF PoolInv, Nested

LEMMA PoolInvHolds == PartsSpec => []PoolInv
<1>1. PoolInv /\ [PartsNext]_<<vars, blockVars, bufferVars, part>> => PoolInv'
  <2> SUFFICES ASSUME PoolInv, [PartsNext]_<<vars, blockVars, bufferVars, part>>
               PROVE  PoolInv'
    OBVIOUS
  <2>1. CASE P!Next
    BY <2>1, NestedStep, HeldStep, WordsStep DEF PoolInv
  <2>2. CASE UNCHANGED bufferVars
    BY <2>2 DEF bufferVars, PoolInv, Nested, HeldOK, WordsOK
  <2> QED
    BY <2>1, <2>2 DEF PartsNext
<1> QED
  BY <1>1, PoolStarts, PTL DEF PartsSpec

(* The blocks of command buffers' lists are neither lost nor held twice,   *)
(* in a pool of any size with any number of buffers (command.c:130-137,    *)
(* 789-799).                                                               *)
THEOREM BlocksAreConserved == PartsSpec => []BlocksConserved
BY PoolInvHolds, HeldIsConserved, PTL DEF PoolInv

(* An index copied from a secondary buffer names, among the handles of the *)
(* job it was copied to, what the secondary recorded, whatever jobs and    *)
(* handles the primary has and whatever it executed before                 *)
(* (command.c:994-1140).                                                   *)
THEOREM CopiedIndicesAreRight == PartsSpec => []CopiedIndicesNameHandles
BY PoolInvHolds, WordsAreNamed, PTL DEF PoolInv
==============================================================================
