--------------------------- MODULE AuditLogProofs ----------------------------
(***************************************************************************)
(* Theorems about the audit log, for every value of the constants.         *)
(***************************************************************************)
EXTENDS AuditLog, SequenceTheorems, FiniteSetTheorems, WellFoundedInduction, TLAPS

-----------------------------------------------------------------------------
(* Numbers and sequences. *)

\* Induction, as the fact that a set of numbers has a least element.
LEMMA LeastNumber ==
  ASSUME NEW T \in SUBSET Nat, T # {}
  PROVE  \E n \in T : \A m \in T : n <= m
<1> DEFINE R == OpToRel(<, Nat)
<1>1. IsWellFoundedOn(R, Nat)
  BY NatLessThanWellFounded
<1>2. \A n, m \in Nat : m < n => <<m, n>> \in R
  BY DEF OpToRel
<1> HIDE DEF R
<1>3. \E n \in T : \A m \in T : ~ (<<m, n>> \in R)
  BY <1>1, WFMin
<1>4. PICK n \in T : \A m \in T : ~ (<<m, n>> \in R)
  BY <1>3
<1>5. \A m \in T : ~(m < n)
  BY <1>2, <1>4
<1>6. \A m \in T : n <= m
  BY <1>5
<1> QED
  BY <1>6

\* A prefix that is one longer.
LEMMA PrefixAppend ==
  ASSUME NEW S, NEW s \in Seq(S), NEW i \in 1..Len(s)
  PROVE  /\ SubSeq(s, 1, i - 1) \in Seq(S)
         /\ SubSeq(s, 1, i) \in Seq(S)
         /\ Len(SubSeq(s, 1, i)) = i
         /\ Append(SubSeq(s, 1, i - 1), s[i]) = SubSeq(s, 1, i)
<1>1. s[i] \in S /\ Len(s) \in Nat
  BY ElementOfSeq, LenProperties
<1>2. \A j \in 1..i : s[j] \in S
  BY ElementOfSeq, <1>1
<1>3. SubSeq(s, 1, i - 1) \in Seq(S) /\ SubSeq(s, 1, i) \in Seq(S) /\ Len(SubSeq(s, 1, i)) = i
  BY <1>1, <1>2, SubSeqProperties
<1>4. SubSeq(s, 1, i) = SubSeq(s, 1, i - 1) \o <<s[i]>>
  BY <1>1, SubSeqRecursiveSecond
<1>5. Append(SubSeq(s, 1, i - 1), s[i]) = SubSeq(s, 1, i - 1) \o <<s[i]>>
  BY <1>1, <1>3, AppendIsConcat
<1> QED
  BY <1>3, <1>4, <1>5

\* A prefix of a sequence is one of the longer sequence.
LEMMA PrefixOfAppend ==
  ASSUME NEW S, NEW s \in Seq(S), NEW e \in S, NEW m \in 0..Len(s)
  PROVE  SubSeq(Append(s, e), 1, m) = SubSeq(s, 1, m)
<1>1. CASE m = 0
  BY <1>1, SubSeqEmpty
<1>2. CASE m # 0
  <2>1. Append(s, e) = s \o <<e>> /\ <<e>> \in Seq(S)
    BY AppendIsConcat
  <2>2. m \in 1..Len(s) /\ 1 \in 1..Len(s)
    BY <1>2, LenProperties
  <2> QED
    BY <2>1, <2>2, SubSeqOfConcat1
<1> QED
  BY <1>1, <1>2

-----------------------------------------------------------------------------
(* The table. *)

\* Rows in the order of their seq, which counts from 1.
Ordered(rows) ==
  /\ \A i \in DOMAIN rows : rows[i].seq >= 1
  /\ \A i, j \in DOMAIN rows : i < j => rows[i].seq < rows[j].seq

\* A new row goes between those with a smaller seq and those with a greater one.
LEMMA PlaceBetween ==
  ASSUME NEW rows \in Seq(Row), Ordered(rows), NEW row \in Row,
         \A i \in DOMAIN rows : rows[i].seq # row.seq
  PROVE  \E k \in 0..Len(rows) :
           /\ Place(rows, row) \in Seq(Row)
           /\ Len(Place(rows, row)) = Len(rows) + 1
           /\ \A i \in 1..(Len(rows) + 1) :
                Place(rows, row)[i] = IF i <= k THEN rows[i]
                                      ELSE IF i = k + 1 THEN row ELSE rows[i - 1]
           /\ \A i \in 1..k : rows[i].seq < row.seq
           /\ \A i \in (k + 1)..Len(rows) : row.seq < rows[i].seq
<1> DEFINE n == Len(rows)
           T == {m \in 1..(n + 1) : m = n + 1 \/ row.seq < rows[m].seq}
<1>1. n \in Nat /\ DOMAIN rows = 1..n /\ \A i \in 1..n : rows[i] \in Row
  BY LenProperties, ElementOfSeq
<1>2. \A i \in 1..n : rows[i].seq \in Nat /\ row.seq \in Nat
  BY <1>1 DEF Row
<1>3. T \in SUBSET Nat /\ n + 1 \in T
  BY <1>1
<1>4. PICK m \in T : \A x \in T : m <= x
  BY <1>3, LeastNumber
<1> DEFINE k == m - 1
<1>5. k \in 0..n /\ m = k + 1
  BY <1>1, <1>4
<1>6. \A i \in 1..k : rows[i].seq < row.seq
  <2> TAKE i \in 1..k
  <2>1. i \in 1..n /\ i \notin T
    BY <1>1, <1>4, <1>5
  <2> QED
    BY <1>1, <1>2, <2>1
<1>7. \A i \in (k + 1)..n : row.seq < rows[i].seq
  <2> TAKE i \in (k + 1)..n
  <2>1. m \in 1..n /\ row.seq < rows[m].seq
    BY <1>1, <1>4, <1>5
  <2>2. i = m \/ rows[m].seq < rows[i].seq
    BY <1>1, <1>5, <2>1 DEF Ordered
  <2> QED
    BY <1>1, <1>2, <1>5, <2>1, <2>2
<1>8. {i \in DOMAIN rows : rows[i].seq < row.seq} = 1..k
  BY <1>1, <1>2, <1>5, <1>6, <1>7
<1>9. Cardinality(1..k) = k
  BY <1>5, FS_Interval
<1>10. Place(rows, row) = SubSeq(rows, 1, k) \o <<row>> \o SubSeq(rows, k + 1, n)
  BY <1>8, <1>9 DEF Place
<1> DEFINE a == SubSeq(rows, 1, k)
           c == SubSeq(rows, k + 1, n)
<1>11. /\ a \in Seq(Row) /\ Len(a) = k /\ \A i \in 1..k : a[i] = rows[i]
       /\ c \in Seq(Row) /\ Len(c) = n - k /\ \A i \in 1..(n - k) : c[i] = rows[k + i]
  <2>1. \A i \in 1..k : rows[i] \in Row
    BY <1>1, <1>5
  <2>2. \A i \in (k + 1)..n : rows[i] \in Row
    BY <1>1, <1>5
  <2>3. a \in Seq(Row) /\ Len(a) = k /\ \A i \in 1..k : a[i] = rows[i]
    BY <1>5, <2>1, SubSeqProperties
  <2>4. c \in Seq(Row) /\ Len(c) = n - k /\ \A i \in 1..(n - k) : c[i] = rows[k + i]
    <3>1. k + 1 \in Int /\ n \in Int
      BY <1>1, <1>5
    <3>2. /\ c \in Seq(Row)
          /\ Len(c) = IF k + 1 <= n THEN n - (k + 1) + 1 ELSE 0
          /\ \A i \in 1..(n - (k + 1) + 1) : c[i] = rows[(k + 1) + i - 1]
      BY <2>2, <3>1, SubSeqProperties
    <3> QED
      BY <1>1, <1>5, <3>2
  <2> QED
    BY <2>3, <2>4
<1>12. /\ <<row>> \in Seq(Row) /\ Len(<<row>>) = 1 /\ <<row>>[1] = row
  OBVIOUS
<1> HIDE DEF a, c, k, n
<1>13. /\ a \o <<row>> \in Seq(Row) /\ Len(a \o <<row>>) = k + 1
       /\ \A i \in 1..(k + 1) : (a \o <<row>>)[i] = IF i <= k THEN rows[i] ELSE row
  BY <1>5, <1>11, <1>12, ConcatProperties
<1> DEFINE ab == a \o <<row>>
<1>14. /\ ab \o c \in Seq(Row) /\ Len(ab \o c) = n + 1
       /\ \A i \in 1..(n + 1) : (ab \o c)[i] = IF i <= k + 1 THEN ab[i] ELSE c[i - (k + 1)]
       /\ \A i \in 1..(k + 1) : ab[i] = IF i <= k THEN rows[i] ELSE row
  <2>0. \A i \in 1..(k + 1) : ab[i] = IF i <= k THEN rows[i] ELSE row
    BY <1>13
  <2>1. ab \in Seq(Row) /\ c \in Seq(Row) /\ Len(ab) = k + 1 /\ Len(c) = n - k
    BY <1>11, <1>13
  <2> HIDE DEF ab
  <2>2. /\ ab \o c \in Seq(Row) /\ Len(ab \o c) = Len(ab) + Len(c)
        /\ \A i \in 1..(Len(ab) + Len(c)) :
             (ab \o c)[i] = IF i <= Len(ab) THEN ab[i] ELSE c[i - Len(ab)]
    BY <2>1, ConcatProperties
  <2>3. Len(ab) + Len(c) = n + 1
    BY <1>1, <1>5, <2>1
  <2> QED
    BY <2>0, <2>1, <2>2, <2>3
<1> HIDE DEF ab
<1>15. \A i \in 1..(n + 1) : (ab \o c)[i] =
            IF i <= k THEN rows[i] ELSE IF i = k + 1 THEN row ELSE rows[i - 1]
  <2> TAKE i \in 1..(n + 1)
  <2>0. i \in Int /\ k \in Int
    BY <1>1, <1>5
  <2>1. CASE i <= k + 1
    <3>1. i \in 1..(k + 1)
      BY <2>0, <2>1
    <3>2. (ab \o c)[i] = ab[i] /\ ab[i] = IF i <= k THEN rows[i] ELSE row
      BY <1>14, <2>1, <3>1
    <3>3. i <= k \/ i = k + 1
      BY <2>0, <2>1
    <3>4. k < k + 1
      BY <2>0
    <3> QED
      BY <3>2, <3>3, <3>4
  <2>2. CASE i > k + 1
    <3>1. i - (k + 1) \in 1..(n - k) /\ k + (i - (k + 1)) = i - 1
      BY <1>1, <1>5, <2>2
    <3>2. c[i - (k + 1)] = rows[i - 1]
      BY <1>11, <3>1
    <3>3. (ab \o c)[i] = rows[i - 1]
      BY <1>14, <2>0, <2>2, <3>2
    <3> QED
      BY <2>0, <2>2, <3>3
  <2>3. i <= k + 1 \/ i > k + 1
    BY <2>0
  <2> QED
    BY <2>1, <2>2, <2>3
<1>16. Place(rows, row) = ab \o c
  BY <1>10 DEF ab, a, c, n
<1> QED
  BY <1>5, <1>6, <1>7, <1>14, <1>15, <1>16 DEF n

\* The hashes in the table.
HashesOf(rows) == {rows[i].hash : i \in DOMAIN rows}

\* The newest row has the greatest seq.
LEMMA HeadIsLast ==
  ASSUME NEW rows \in Seq(Row), Ordered(rows)
  PROVE  /\ HeadOf(rows) \in HeadRec
         /\ rows = <<>> => HeadOf(rows) = NoHead
         /\ rows # <<>> => /\ Len(rows) \in DOMAIN rows
                           /\ HeadOf(rows).seq = rows[Len(rows)].seq
                           /\ HeadOf(rows).hash = rows[Len(rows)].hash
         /\ \A i \in DOMAIN rows :
              /\ rows[i].seq <= HeadOf(rows).seq
              /\ i < Len(rows) => rows[i].seq < HeadOf(rows).seq
<1>1. Len(rows) \in Nat /\ DOMAIN rows = 1..Len(rows) /\ \A i \in DOMAIN rows : rows[i] \in Row
  BY LenProperties, ElementOfSeq
<1>2. CASE rows = <<>>
  <2>1. NoHead \in HeadRec /\ HeadOf(rows) = NoHead
    BY <1>2 DEF HeadOf, NoHead, HeadRec, Genesis
  <2>2. DOMAIN rows = {}
    BY <1>2
  <2> QED
    BY <1>2, <2>1, <2>2
<1>3. CASE rows # <<>>
  <2> DEFINE n == Len(rows)
  <2>1. n \in DOMAIN rows
    BY <1>1, <1>3, EmptySeq
  <2>2. HeadOf(rows) = [seq |-> rows[n].seq, hash |-> rows[n].hash]
    BY <1>3 DEF HeadOf
  <2>3. rows[n].seq \in Nat /\ rows[n].hash \in Seq(Body)
    BY <1>1, <2>1 DEF Row
  <2>4. HeadOf(rows) \in HeadRec
    BY <2>2, <2>3 DEF HeadRec
  <2>5. \A i \in DOMAIN rows : rows[i].seq \in Nat /\ (i < n => rows[i].seq < rows[n].seq)
    BY <1>1, <2>1 DEF Ordered, Row
  <2>6. \A i \in DOMAIN rows : i < n \/ i = n
    BY <1>1
  <2> QED
    BY <1>3, <2>1, <2>2, <2>3, <2>4, <2>5, <2>6
<1> QED
  BY <1>2, <1>3

\* A row with a seq of its own joins the table; it is the newest if its seq is
\* greater than that of the newest.
LEMMA Placed ==
  ASSUME NEW rows \in Seq(Row), Ordered(rows), NEW row \in Row, row.seq >= 1,
         \A i \in DOMAIN rows : rows[i].seq # row.seq
  PROVE  /\ Place(rows, row) \in Seq(Row)
         /\ Ordered(Place(rows, row))
         /\ Place(rows, row) # <<>>
         /\ HashesOf(Place(rows, row)) = HashesOf(rows) \union {row.hash}
         /\ row.seq < HeadOf(rows).seq => HeadOf(Place(rows, row)) = HeadOf(rows)
         /\ row.seq > HeadOf(rows).seq =>
              /\ HeadOf(Place(rows, row)) = [seq |-> row.seq, hash |-> row.hash]
              /\ Len(Place(rows, row)) = Len(rows) + 1
              /\ Place(rows, row)[Len(rows) + 1] = row
              /\ \A i \in DOMAIN rows : Place(rows, row)[i] = rows[i]
<1> DEFINE new == Place(rows, row)
           n == Len(rows)
<1>1. n \in Nat /\ DOMAIN rows = 1..n /\ \A i \in 1..n : rows[i] \in Row
  BY LenProperties, ElementOfSeq
<1>2. row.seq \in Nat /\ \A i \in 1..n : rows[i].seq \in Nat
  BY <1>1 DEF Row
<1>3. PICK k \in 0..n :
           /\ new \in Seq(Row)
           /\ Len(new) = n + 1
           /\ \A i \in 1..(n + 1) : new[i] = IF i <= k THEN rows[i]
                                             ELSE IF i = k + 1 THEN row ELSE rows[i - 1]
           /\ \A i \in 1..k : rows[i].seq < row.seq
           /\ \A i \in (k + 1)..n : row.seq < rows[i].seq
  BY PlaceBetween
<1> HIDE DEF new
<1>4. DOMAIN new = 1..(n + 1) /\ new # <<>>
  <2>1. DOMAIN new = 1..(n + 1)
    BY <1>3, LenProperties
  <2>2. Len(new) # 0
    BY <1>1, <1>3
  <2> QED
    BY <2>1, <2>2
<1>5. /\ \A i \in 1..k : i \in DOMAIN new /\ new[i] = rows[i]
      /\ k + 1 \in DOMAIN new /\ new[k + 1] = row
      /\ \A i \in (k + 1)..n : i + 1 \in DOMAIN new /\ new[i + 1] = rows[i]
  BY <1>1, <1>3, <1>4
<1>6. Ordered(new)
  <2>1. \A i \in DOMAIN new : new[i].seq >= 1
    BY <1>1, <1>3, <1>4 DEF Ordered
  <2>2. ASSUME NEW i \in DOMAIN new, NEW j \in DOMAIN new, i < j
        PROVE  new[i].seq < new[j].seq
    <3>1. i \in 1..(n + 1) /\ j \in 1..(n + 1)
      BY <1>4
    <3>2. CASE j <= k
      BY <1>1, <1>3, <2>2, <3>1, <3>2 DEF Ordered
    <3>3. CASE j = k + 1
      <4>1. i \in 1..k /\ new[i] = rows[i] /\ new[j] = row
        BY <1>3, <1>5, <2>2, <3>1, <3>3
      <4> QED
        BY <1>3, <4>1
    <3>4. CASE j > k + 1
      <4>1. j - 1 \in (k + 1)..n /\ j - 1 \in 1..n /\ new[j] = rows[j - 1]
        BY <1>1, <1>3, <3>1, <3>4
      <4>2. CASE i <= k
        <5>1. i \in 1..n /\ i < j - 1 /\ new[i] = rows[i]
          BY <1>1, <1>3, <3>1, <3>4, <4>2
        <5> QED
          BY <1>1, <4>1, <5>1 DEF Ordered
      <4>3. CASE i = k + 1
        BY <1>3, <1>5, <4>1, <4>3
      <4>4. CASE i > k + 1
        <5>1. i - 1 \in 1..n /\ i - 1 < j - 1 /\ new[i] = rows[i - 1]
          BY <1>1, <1>3, <2>2, <3>1, <4>4
        <5> QED
          BY <1>1, <4>1, <5>1 DEF Ordered
      <4> QED
        BY <1>3, <3>1, <4>2, <4>3, <4>4
    <3> QED
      BY <1>3, <3>1, <3>2, <3>3, <3>4
  <2> QED
    BY <2>1, <2>2 DEF Ordered
<1>7. HashesOf(new) = HashesOf(rows) \union {row.hash}
  <2>1. \A i \in DOMAIN new : new[i] = row \/ \E j \in DOMAIN rows : new[i] = rows[j]
    <3> TAKE i \in DOMAIN new
    <3>1. CASE i <= k
      BY <1>1, <1>3, <1>4, <3>1
    <3>2. CASE i = k + 1
      BY <1>5, <3>2
    <3>3. CASE i > k + 1
      <4>1. i - 1 \in DOMAIN rows /\ new[i] = rows[i - 1]
        BY <1>1, <1>3, <1>4, <3>3
      <4> QED
        BY <4>1
    <3> QED
      BY <1>3, <1>4, <3>1, <3>2, <3>3
  <2>2. \A j \in DOMAIN rows : \E i \in DOMAIN new : new[i] = rows[j]
    <3> TAKE j \in DOMAIN rows
    <3>1. j \in 1..k \/ j \in (k + 1)..n
      BY <1>1, <1>3
    <3> QED
      BY <1>5, <3>1
  <2>3. k + 1 \in DOMAIN new /\ new[k + 1] = row
    BY <1>5
  <2>4. ASSUME NEW x \in HashesOf(new) PROVE x \in HashesOf(rows) \union {row.hash}
    BY <2>1 DEF HashesOf
  <2>5. ASSUME NEW x \in HashesOf(rows) PROVE x \in HashesOf(new)
    BY <2>2 DEF HashesOf
  <2>6. row.hash \in HashesOf(new)
    BY <2>3 DEF HashesOf
  <2> QED
    BY <2>4, <2>5, <2>6
<1>8. ASSUME row.seq < HeadOf(rows).seq PROVE HeadOf(new) = HeadOf(rows)
  <2>1. rows # <<>>
    BY <1>2, <1>8, HeadIsLast DEF NoHead
  <2>2. n \in 1..n /\ row.seq < rows[n].seq
    BY <1>1, <1>8, <2>1, HeadIsLast
  <2>3. n \in (k + 1)..n
    BY <1>1, <1>2, <1>3, <2>2
  <2>4. new[n + 1] = rows[n]
    BY <1>5, <2>3
  <2> QED
    BY <1>3, <1>4, <2>1, <2>4 DEF HeadOf
<1>9. ASSUME row.seq > HeadOf(rows).seq
      PROVE  /\ HeadOf(new) = [seq |-> row.seq, hash |-> row.hash]
             /\ new[n + 1] = row
             /\ \A i \in DOMAIN rows : new[i] = rows[i]
  <2>1. k = n
    <3>1. \A i \in 1..n : rows[i].seq <= HeadOf(rows).seq
      BY <1>1, HeadIsLast
    <3>2. HeadOf(rows).seq \in Nat
      BY HeadIsLast DEF HeadRec
    <3>3. ASSUME k # n PROVE FALSE
      <4>0. k \in 0..n /\ n \in Nat
        BY <1>1
      <4>1. k + 1 \in (k + 1)..n /\ k + 1 \in 1..n
        BY <3>3, <4>0
      <4>2. row.seq < rows[k + 1].seq /\ rows[k + 1].seq <= HeadOf(rows).seq
        BY <1>3, <3>1, <4>1
      <4> QED
        BY <1>2, <1>9, <3>2, <4>1, <4>2
    <3> QED
      BY <3>3
  <2>2. new[n + 1] = row
    BY <1>5, <2>1
  <2> QED
    BY <1>1, <1>3, <1>4, <1>5, <2>1, <2>2 DEF HeadOf
<1> QED
  BY <1>3, <1>4, <1>6, <1>7, <1>8, <1>9 DEF new

\* The other changes to the table, each with what it leaves of it.
LEMMA Edited ==
  ASSUME NEW rows \in Seq(Row), Ordered(rows), NEW i \in DOMAIN rows, NEW b \in Body
  PROVE  LET new == [rows EXCEPT ![i].body = b]
         IN  /\ new \in Seq(Row) /\ Ordered(new) /\ new # <<>>
             /\ HeadOf(new) = HeadOf(rows)
             /\ HashesOf(new) = HashesOf(rows)
<1> DEFINE new == [rows EXCEPT ![i].body = b]
<1>1. Len(rows) \in Nat /\ DOMAIN rows = 1..Len(rows) /\ \A j \in DOMAIN rows : rows[j] \in Row
  BY LenProperties, ElementOfSeq
<1>2. new = [rows EXCEPT ![i] = [rows[i] EXCEPT !.body = b]]
  OBVIOUS
<1>3. [rows[i] EXCEPT !.body = b] \in Row
  BY <1>1 DEF Row
<1>4. new \in Seq(Row) /\ Len(new) = Len(rows)
  BY <1>2, <1>3, ExceptSeq
<1>5. DOMAIN new = DOMAIN rows
  BY <1>1, <1>4, LenProperties
<1>6. \A j \in DOMAIN rows : new[j].seq = rows[j].seq /\ new[j].hash = rows[j].hash
  BY <1>1, <1>3 DEF Row
<1>7. rows # <<>> /\ new # <<>>
  <2>1. Len(rows) # 0
    BY <1>1
  <2> QED
    BY <1>4, <2>1
<1> HIDE DEF new
<1>8. Len(rows) \in DOMAIN rows
  BY <1>1
<1> QED
  BY <1>4, <1>5, <1>6, <1>7, <1>8 DEF new, HeadOf, HashesOf, Ordered

LEMMA Deleted ==
  ASSUME NEW rows \in Seq(Row), Ordered(rows), NEW i \in DOMAIN rows
  PROVE  LET new == SubSeq(rows, 1, i - 1) \o SubSeq(rows, i + 1, Len(rows))
         IN  /\ new \in Seq(Row) /\ Ordered(new)
             /\ i < Len(rows) => new # <<>> /\ HeadOf(new) = HeadOf(rows)
             /\ HashesOf(new) \subseteq HashesOf(rows)
<1> DEFINE n == Len(rows)
           a == SubSeq(rows, 1, i - 1)
           c == SubSeq(rows, i + 1, n)
           new == a \o c
<1>1. n \in Nat /\ DOMAIN rows = 1..n /\ \A j \in 1..n : rows[j] \in Row
  BY LenProperties, ElementOfSeq
<1>2. i \in 1..n
  BY <1>1
<1>3. a \in Seq(Row) /\ Len(a) = i - 1 /\ \A j \in 1..(i - 1) : a[j] = rows[j]
  <2>1. 1 \in Int /\ i - 1 \in Int /\ \A j \in 1..(i - 1) : rows[j] \in Row
    BY <1>1, <1>2
  <2>2. /\ a \in Seq(Row)
        /\ Len(a) = IF 1 <= i - 1 THEN i - 1 - 1 + 1 ELSE 0
        /\ \A j \in 1..(i - 1 - 1 + 1) : a[j] = rows[1 + j - 1]
    BY <2>1, SubSeqProperties
  <2> QED
    BY <1>1, <1>2, <2>2
<1>4. c \in Seq(Row) /\ Len(c) = n - i /\ \A j \in 1..(n - i) : c[j] = rows[i + j]
  <2>1. i + 1 \in Int /\ n \in Int /\ \A j \in (i + 1)..n : rows[j] \in Row
    BY <1>1, <1>2
  <2>2. /\ c \in Seq(Row)
        /\ Len(c) = IF i + 1 <= n THEN n - (i + 1) + 1 ELSE 0
        /\ \A j \in 1..(n - (i + 1) + 1) : c[j] = rows[(i + 1) + j - 1]
    BY <2>1, SubSeqProperties
  <2>3. Len(c) = n - i
    BY <1>1, <1>2, <2>2
  <2>4. ASSUME NEW j \in 1..(n - i) PROVE c[j] = rows[i + j]
    <3>1. j \in 1..(n - (i + 1) + 1) /\ (i + 1) + j - 1 = i + j
      BY <1>1, <1>2
    <3> HIDE DEF c
    <3>2. c[j] = rows[(i + 1) + j - 1]
      BY <2>2, <3>1
    <3> QED
      BY <3>1, <3>2
  <2> QED
    BY <2>2, <2>3, <2>4
<1> HIDE DEF n, a, c
<1>5. /\ new \in Seq(Row) /\ Len(new) = n - 1 /\ DOMAIN new = 1..(n - 1)
      /\ \A j \in 1..(n - 1) : new[j] = IF j < i THEN rows[j] ELSE rows[j + 1]
  <2>1. /\ new \in Seq(Row) /\ Len(new) = Len(a) + Len(c)
        /\ \A j \in 1..(Len(a) + Len(c)) :
             new[j] = IF j <= Len(a) THEN a[j] ELSE c[j - Len(a)]
    BY <1>3, <1>4, ConcatProperties
  <2> HIDE DEF new
  <2>2. Len(a) + Len(c) = n - 1
    BY <1>1, <1>2, <1>3, <1>4
  <2>3. DOMAIN new = 1..(n - 1)
    BY <2>1, <2>2, LenProperties
  <2>4. ASSUME NEW j \in 1..(n - 1)
        PROVE  new[j] = IF j < i THEN rows[j] ELSE rows[j + 1]
    <3>1. CASE j < i
      BY <1>1, <1>2, <1>3, <2>1, <2>2, <3>1
    <3>2. CASE ~(j < i)
      <4>1. j - (i - 1) \in 1..(n - i) /\ i + (j - (i - 1)) = j + 1 /\ ~(j <= i - 1)
        BY <1>1, <1>2, <3>2
      <4>2. new[j] = c[j - (i - 1)]
        BY <1>3, <2>1, <2>2, <4>1
      <4>3. c[j - (i - 1)] = rows[i + (j - (i - 1))]
        BY <1>4, <4>1
      <4> QED
        BY <3>2, <4>1, <4>2, <4>3
    <3> QED
      BY <3>1, <3>2
  <2> QED
    BY <2>1, <2>2, <2>3, <2>4
<1> HIDE DEF new
<1>6. Ordered(new)
  <2>1. ASSUME NEW j \in DOMAIN new PROVE new[j].seq >= 1
    <3>1. j \in DOMAIN rows /\ j + 1 \in DOMAIN rows
      BY <1>1, <1>5
    <3>2. new[j] = rows[j] \/ new[j] = rows[j + 1]
      BY <1>5
    <3> QED
      BY <3>1, <3>2 DEF Ordered
  <2>2. ASSUME NEW j \in DOMAIN new, NEW m \in DOMAIN new, j < m
        PROVE  new[j].seq < new[m].seq
    <3>1. j \in 1..(n - 1) /\ m \in 1..(n - 1)
      BY <1>5
    <3>2. CASE m < i
      BY <1>1, <1>2, <1>5, <2>2, <3>1, <3>2 DEF Ordered
    <3>3. CASE j < i /\ ~(m < i)
      <4>1. new[j] = rows[j] /\ new[m] = rows[m + 1] /\ j < m + 1 /\ j \in 1..n /\ m + 1 \in 1..n
        BY <1>1, <1>2, <1>5, <2>2, <3>1, <3>3
      <4> QED
        BY <1>1, <4>1 DEF Ordered
    <3>4. CASE ~(j < i) /\ ~(m < i)
      <4>1. new[j] = rows[j + 1] /\ new[m] = rows[m + 1] /\ j + 1 < m + 1
            /\ j + 1 \in 1..n /\ m + 1 \in 1..n
        BY <1>1, <1>2, <1>5, <2>2, <3>1, <3>4
      <4> QED
        BY <1>1, <4>1 DEF Ordered
    <3>5. j < i \/ ~(m < i)
      BY <1>1, <1>2, <2>2, <3>1, <3>2
    <3> QED
      BY <3>2, <3>3, <3>4, <3>5
  <2> QED
    BY <2>1, <2>2 DEF Ordered
<1>7. ASSUME i < n PROVE new # <<>> /\ HeadOf(new) = HeadOf(rows)
  <2>1. Len(new) # 0 /\ n # 0
    BY <1>1, <1>2, <1>5, <1>7
  <2>2. new # <<>> /\ rows # <<>>
    BY <2>1 DEF n
  <2>3. n - 1 \in 1..(n - 1) /\ ~(n - 1 < i) /\ (n - 1) + 1 = n
    BY <1>1, <1>2, <1>7
  <2>4. new[n - 1] = rows[n]
    BY <1>5, <2>3
  <2> QED
    BY <1>5, <2>2, <2>4 DEF HeadOf, n
<1>8. HashesOf(new) \subseteq HashesOf(rows)
  <2>1. \A j \in DOMAIN new : \E m \in DOMAIN rows : new[j] = rows[m]
    <3> TAKE j \in DOMAIN new
    <3>1. j \in DOMAIN rows /\ j + 1 \in DOMAIN rows
      BY <1>1, <1>5
    <3> QED
      BY <1>5, <3>1
  <2> QED
    BY <2>1 DEF HashesOf
<1> QED
  BY <1>5, <1>6, <1>7, <1>8 DEF new, a, c, n

LEMMA Swapped ==
  ASSUME NEW rows \in Seq(Row), Ordered(rows),
         NEW i \in DOMAIN rows, NEW j \in DOMAIN rows, i < j
  PROVE  LET new == [rows EXCEPT ![i] = [rows[j] EXCEPT !.seq = rows[i].seq],
                                 ![j] = [rows[i] EXCEPT !.seq = rows[j].seq]]
         IN  /\ new \in Seq(Row) /\ Ordered(new)
             /\ j < Len(rows) => new # <<>> /\ HeadOf(new) = HeadOf(rows)
             /\ HashesOf(new) \subseteq HashesOf(rows)
<1> DEFINE n == Len(rows)
           p == [rows[j] EXCEPT !.seq = rows[i].seq]
           q == [rows[i] EXCEPT !.seq = rows[j].seq]
           mid == [rows EXCEPT ![i] = p]
           new == [rows EXCEPT ![i] = p, ![j] = q]
<1>1. n \in Nat /\ DOMAIN rows = 1..n /\ \A m \in 1..n : rows[m] \in Row
  BY LenProperties, ElementOfSeq
<1>2. i \in 1..n /\ j \in 1..n /\ i # j
  BY <1>1
<1>3. /\ p \in Row /\ p.seq = rows[i].seq /\ p.hash = rows[j].hash
      /\ q \in Row /\ q.seq = rows[j].seq /\ q.hash = rows[i].hash
  BY <1>1, <1>2 DEF Row
<1> HIDE DEF p, q
<1>4. mid \in Seq(Row) /\ Len(mid) = n
  BY <1>1, <1>2, <1>3, ExceptSeq
<1>5. new = [mid EXCEPT ![j] = q] /\ DOMAIN mid = DOMAIN rows
  OBVIOUS
<1>6. new \in Seq(Row) /\ Len(new) = n /\ DOMAIN new = DOMAIN rows
  <2> HIDE DEF mid, new
  <2> QED
    BY <1>1, <1>2, <1>3, <1>4, <1>5, ExceptSeq
<1>7. \A m \in DOMAIN rows : new[m] = IF m = j THEN q ELSE IF m = i THEN p ELSE rows[m]
  OBVIOUS
<1> HIDE DEF new
<1>8. \A m \in DOMAIN rows : new[m].seq = rows[m].seq
  BY <1>3, <1>7
<1>9. Ordered(new)
  BY <1>6, <1>8 DEF Ordered
<1>10. ASSUME j < n PROVE new # <<>> /\ HeadOf(new) = HeadOf(rows)
  <2>1. n # 0 /\ n \in DOMAIN rows /\ n # i /\ n # j
    BY <1>1, <1>2, <1>10
  <2>2. new # <<>> /\ rows # <<>> /\ new[n] = rows[n]
    BY <1>6, <1>7, <2>1
  <2> QED
    BY <1>6, <2>2 DEF HeadOf
<1>11. HashesOf(new) \subseteq HashesOf(rows)
  BY <1>3, <1>6, <1>7 DEF HashesOf
<1> QED
  BY <1>6, <1>9, <1>10, <1>11 DEF new, p, q

-----------------------------------------------------------------------------
(* The inductive invariants.                                               *)

InOrder == Ordered(log)

\* An operation has an entry only after its own change, and only once.
EntriesInv ==
  /\ \A o \in Members(appended) : pc[o] = "done"
  /\ \A o \in Op : pc[o] # "idle" => o \in committed
  /\ \A i, j \in DOMAIN appended : appended[i] = appended[j] => i = j

\* The head that a transaction read is a row that is still there.
ChainInv ==
  alterations = 0 =>
    /\ \A i \in DOMAIN log : log[i].seq = i /\ Verifies(i)
    /\ \A o \in Op : pc[o] = "insert" =>
         /\ head[o].seq \in 0..Len(log)
         /\ head[o].hash = IF head[o].seq = 0 THEN Genesis ELSE log[head[o].seq].hash

\* Under the write lock nothing is between the SELECT and the INSERT.
LossInv ==
  backend = "sqlite" =>
    /\ \A o \in Op : pc[o] # "insert"
    /\ IsFiniteSet(Unlogged)
    /\ Cardinality(Unlogged) <= faults

\* The contents that the newest row vouches for.
Chain == HeadOf(log).hash

\* A row that verification needs and that is gone.
Missing == \E m \in 1..Len(Chain) : SubSeq(Chain, 1, m) \notin HashesOf(log)

\* The newest row vouches for every entry, or there is a row missing that no later
\* append brings back.
TailInv ==
  /\ log = <<>> => appended = <<>>
  /\ HeadOf(log).seq = Len(Chain)
  /\ Members(Chain) \subseteq Members(appended)
  /\ \A o \in Op : pc[o] = "insert" =>
       /\ head[o].seq <= Len(Chain)
       /\ head[o].hash = SubSeq(Chain, 1, head[o].seq)
  /\ appended = Chain \/ Missing

-----------------------------------------------------------------------------
(* Types and the order of the table. *)

LEMMA EntryType ==
  ASSUME NEW h \in HeadRec, NEW o \in Op
  PROVE  /\ Entry(h, o) \in Row
         /\ Entry(h, o).seq = h.seq + 1
         /\ Entry(h, o).body = o
         /\ Entry(h, o).prev = h.hash
         /\ Entry(h, o).hash = Append(h.hash, o)
<1>1. h.seq \in Nat /\ h.hash \in Seq(Body) /\ o \in Body
  BY DEF HeadRec, Body
<1>2. Append(h.hash, o) \in Seq(Body)
  BY <1>1, AppendProperties
<1> QED
  BY <1>1, <1>2 DEF Entry, Hash, Row

\* What the INSERT does: nothing, or the entry takes its place.
LEMMA Stored ==
  ASSUME log \in Seq(Row), appended \in Seq(Op), InOrder,
         NEW o \in Op, NEW h \in HeadRec, Store(o, h)
  PROVE  /\ log' \in Seq(Row) /\ InOrder' /\ appended' \in Seq(Op)
         /\ \/ /\ \E i \in DOMAIN log : log[i].seq = h.seq + 1
               /\ UNCHANGED <<log, appended>>
            \/ /\ \A i \in DOMAIN log : log[i].seq # Entry(h, o).seq
               /\ log' = Place(log, Entry(h, o))
               /\ appended' = Append(appended, o)
<1>1. CASE \E i \in DOMAIN log : log[i].seq = h.seq + 1
  <2>1. UNCHANGED <<log, appended>>
    BY <1>1 DEF Store
  <2> QED
    BY <1>1, <2>1 DEF InOrder
<1>2. CASE ~ \E i \in DOMAIN log : log[i].seq = h.seq + 1
  <2>1. log' = Place(log, Entry(h, o)) /\ appended' = Append(appended, o)
    BY <1>2 DEF Store
  <2>2. Entry(h, o) \in Row /\ Entry(h, o).seq = h.seq + 1 /\ h.seq \in Nat
    BY EntryType DEF HeadRec
  <2>3. Entry(h, o).seq >= 1 /\ \A i \in DOMAIN log : log[i].seq # Entry(h, o).seq
    BY <1>2, <2>2
  <2>4. Place(log, Entry(h, o)) \in Seq(Row) /\ Ordered(Place(log, Entry(h, o)))
    BY <2>2, <2>3, Placed DEF InOrder
  <2>5. Append(appended, o) \in Seq(Op)
    BY AppendProperties
  <2> QED
    BY <2>1, <2>3, <2>4, <2>5 DEF InOrder
<1> QED
  BY <1>1, <1>2

\* What a change from outside leaves of the table.
LEMMA Outside ==
  ASSUME log \in Seq(Row), InOrder, OutOfBand
  PROVE  /\ log' \in Seq(Row) /\ InOrder'
         /\ HashesOf(log') \subseteq HashesOf(log)
         /\ TailAlterations = FALSE => log' # <<>> /\ HeadOf(log') = HeadOf(log)
         /\ alterations < MaxAlterations /\ alterations' = alterations + 1
         /\ UNCHANGED <<backend, pc, head, committed, appended, faults, crashes>>
<1>1. CASE \E i \in DOMAIN log : EditRow(i)
  <2>1. PICK i \in DOMAIN log : EditRow(i)
    BY <1>1
  <2>2. Altered \in Body
    BY DEF Body
  <2> QED
    BY <2>1, <2>2, Edited DEF EditRow, Change, InOrder
<1>2. CASE \E i \in DOMAIN log : DeleteRow(i)
  <2>1. PICK i \in DOMAIN log : DeleteRow(i)
    BY <1>2
  <2> QED
    BY <2>1, Deleted DEF DeleteRow, Movable, Change, InOrder
<1>3. CASE \E i, j \in DOMAIN log : SwapRows(i, j)
  <2>1. PICK i \in DOMAIN log, j \in DOMAIN log : SwapRows(i, j)
    BY <1>3
  <2> DEFINE new == [log EXCEPT ![i] = [log[j] EXCEPT !.seq = log[i].seq],
                                ![j] = [log[i] EXCEPT !.seq = log[j].seq]]
  <2>2. i < j /\ (TailAlterations = FALSE => j < Len(log)) /\ Change(new)
    BY <2>1 DEF SwapRows, Movable
  <2>3. /\ new \in Seq(Row) /\ Ordered(new)
        /\ j < Len(log) => new # <<>> /\ HeadOf(new) = HeadOf(log)
        /\ HashesOf(new) \subseteq HashesOf(log)
    BY <2>2, Swapped DEF InOrder
  <2> HIDE DEF new
  <2> QED
    BY <2>2, <2>3 DEF Change, InOrder
<1> QED
  BY <1>1, <1>2, <1>3 DEF OutOfBand

\* The log as the migration leaves it.
LEMMA BackfillRows ==
  LET rows == Backfill(Legacy)
  IN  /\ rows \in Seq(Row) /\ Len(rows) = Len(Legacy) /\ DOMAIN rows = 1..Len(Legacy)
      /\ \A i \in 1..Len(Legacy) :
           /\ rows[i].seq = i
           /\ rows[i].body = Legacy[i]
           /\ rows[i].prev = SubSeq(Legacy, 1, i - 1)
           /\ rows[i].hash = SubSeq(Legacy, 1, i)
<1> DEFINE n == Len(Legacy)
           rows == Backfill(Legacy)
<1>1. n \in Nat /\ Legacy \in Seq(Op) /\ Legacy \in Seq(Body)
  <2>1. \A i \in 1..Len(Legacy) : Legacy[i] \in Body
    BY AuditAssumption, ElementOfSeq DEF Body
  <2> QED
    BY AuditAssumption, <2>1, LenProperties DEF Body
<1>2. ASSUME NEW i \in 1..n
      PROVE  /\ Entry([seq |-> i - 1, hash |-> SubSeq(Legacy, 1, i - 1)], Legacy[i]) \in Row
             /\ rows[i].seq = i
             /\ rows[i].body = Legacy[i]
             /\ rows[i].prev = SubSeq(Legacy, 1, i - 1)
             /\ rows[i].hash = SubSeq(Legacy, 1, i)
  <2> DEFINE h == [seq |-> i - 1, hash |-> SubSeq(Legacy, 1, i - 1)]
  <2>1. Legacy[i] \in Op
    BY <1>1, ElementOfSeq
  <2>2. SubSeq(Legacy, 1, i - 1) \in Seq(Body)
        /\ Append(SubSeq(Legacy, 1, i - 1), Legacy[i]) = SubSeq(Legacy, 1, i)
    BY <1>1, PrefixAppend
  <2>3. h \in HeadRec /\ h.seq + 1 = i
    BY <1>1, <2>2 DEF HeadRec
  <2>4. rows[i] = Entry(h, Legacy[i])
    BY DEF Backfill
  <2> HIDE DEF h
  <2>5. /\ Entry(h, Legacy[i]) \in Row
        /\ Entry(h, Legacy[i]).seq = h.seq + 1
        /\ Entry(h, Legacy[i]).body = Legacy[i]
        /\ Entry(h, Legacy[i]).prev = h.hash
        /\ Entry(h, Legacy[i]).hash = Append(h.hash, Legacy[i])
    BY <2>1, <2>3, EntryType
  <2> QED
    BY <2>2, <2>3, <2>4, <2>5 DEF h
<1>3. rows = [i \in 1..n |-> Entry([seq |-> i - 1, hash |-> SubSeq(Legacy, 1, i - 1)], Legacy[i])]
  BY DEF Backfill
<1>4. rows \in Seq(Row) /\ Len(rows) = n /\ DOMAIN rows = 1..n
  <2>1. DOMAIN rows = 1..n /\ \A i \in 1..n : rows[i] \in Row
    BY <1>2, <1>3
  <2>2. rows \in [1..n -> Row]
    BY <1>2, <1>3
  <2> QED
    BY <1>1, <2>1, <2>2, SeqDef, LenProperties
<1> QED
  BY <1>2, <1>4

LEMMA TypeInit ==
  ASSUME Init
  PROVE  TypeOK /\ InOrder
<1>1. log \in Seq(Row) /\ DOMAIN log = 1..Len(Legacy)
      /\ \A i \in 1..Len(Legacy) : log[i].seq = i
  BY BackfillRows DEF Init
<1>2. InOrder
  BY <1>1 DEF InOrder, Ordered
<1>3. head \in [Op -> HeadRec]
  BY DEF Init, NoHead, HeadRec, Genesis
<1>4. committed \subseteq Op /\ appended \in Seq(Op)
  BY AuditAssumption, ElementOfSeq DEF Init, Members
<1>5. pc \in [Op -> {"idle", "append", "insert", "done", "dead"}]
  BY DEF Init
<1> QED
  BY AuditAssumption, <1>1, <1>2, <1>3, <1>4, <1>5 DEF Init, TypeOK

LEMMA TypeStep ==
  ASSUME TypeOK, InOrder, [Next]_vars
  PROVE  TypeOK' /\ InOrder'
<1> USE DEF bounds
<1>1. ASSUME NEW o \in Op, Request(o)
      PROVE  TypeOK' /\ InOrder'
  <2>1. CASE Commit(o)
    BY <2>1 DEF Commit, TypeOK, InOrder
  <2>2. CASE AppendLocked(o)
    <3>1. HeadOf(log) \in HeadRec
      BY HeadIsLast DEF TypeOK, InOrder
    <3>2. log' \in Seq(Row) /\ InOrder' /\ appended' \in Seq(Op)
      BY <2>2, <3>1, Stored DEF AppendLocked, TypeOK
    <3> QED
      BY <2>2, <3>2 DEF AppendLocked, TypeOK
  <2>3. CASE ReadHead(o)
    <3>1. HeadOf(log) \in HeadRec
      BY HeadIsLast DEF TypeOK, InOrder
    <3> QED
      BY <2>3, <3>1 DEF ReadHead, TypeOK, InOrder
  <2>4. CASE Insert(o)
    <3>1. head[o] \in HeadRec
      BY DEF TypeOK
    <3>2. log' \in Seq(Row) /\ InOrder' /\ appended' \in Seq(Op)
      BY <2>4, <3>1, Stored DEF Insert, TypeOK
    <3> QED
      BY <2>4, <3>2 DEF Insert, TypeOK
  <2>5. CASE LoseEntry(o)
    BY <2>5, AuditAssumption DEF LoseEntry, TypeOK, InOrder
  <2> QED
    BY <1>1, <2>1, <2>2, <2>3, <2>4, <2>5 DEF Request
<1>2. CASE Crash
  BY <1>2, AuditAssumption DEF Crash, TypeOK, InOrder
<1>3. CASE OutOfBand
  <2>1. /\ log' \in Seq(Row) /\ InOrder'
        /\ alterations < MaxAlterations /\ alterations' = alterations + 1
        /\ UNCHANGED <<backend, pc, head, committed, appended, faults, crashes>>
    BY <1>3, Outside DEF TypeOK
  <2> QED
    BY <2>1, AuditAssumption DEF TypeOK
<1>4. CASE UNCHANGED vars
  BY <1>4 DEF vars, TypeOK, InOrder
<1> QED
  BY <1>1, <1>2, <1>3, <1>4 DEF Next

\* The log is a table of rows whose seq grows, whatever is appended and altered.
THEOREM TypeCorrect == Spec => [](TypeOK /\ InOrder)
<1>1. Init => TypeOK /\ InOrder
  BY TypeInit
<1>2. (TypeOK /\ InOrder) /\ [Next]_vars => (TypeOK /\ InOrder)'
  BY TypeStep
<1> QED
  BY <1>1, <1>2, PTL DEF Spec

-----------------------------------------------------------------------------
(* What the entries tell. *)

LEMMA MembersAppend ==
  ASSUME NEW S, NEW s \in Seq(S), NEW e \in S
  PROVE  Members(Append(s, e)) = Members(s) \union {e}
<1>1. /\ Len(s) \in Nat /\ DOMAIN s = 1..Len(s)
      /\ DOMAIN Append(s, e) = 1..(Len(s) + 1)
      /\ \A i \in 1..Len(s) : Append(s, e)[i] = s[i]
      /\ Append(s, e)[Len(s) + 1] = e
  <2>1. Append(s, e) \in Seq(S) /\ Len(Append(s, e)) = Len(s) + 1
    BY AppendProperties
  <2> QED
    BY <2>1, AppendProperties, LenProperties
<1>2. \A i \in 1..(Len(s) + 1) : i \in 1..Len(s) \/ i = Len(s) + 1
  BY <1>1
<1>3. \A i \in 1..Len(s) : i \in 1..(Len(s) + 1)
  BY <1>1
<1>4. Len(s) + 1 \in 1..(Len(s) + 1)
  BY <1>1
<1> QED
  BY <1>1, <1>2, <1>3, <1>4 DEF Members

LEMMA EntriesInit ==
  ASSUME Init
  PROVE  EntriesInv
BY AuditAssumption DEF Init, EntriesInv, Members

\* An operation that appends gets its one entry.
LEMMA EntriesStore ==
  ASSUME TypeOK, InOrder, EntriesInv, NEW o \in Op, NEW h \in HeadRec, Store(o, h),
         pc[o] \in {"append", "insert"}, pc' = [pc EXCEPT ![o] = "done"],
         committed' = committed
  PROVE  EntriesInv'
<1>1. o \notin Members(appended) /\ o \in committed
  BY DEF EntriesInv
<1>2. appended' = appended \/ appended' = Append(appended, o)
  BY Stored DEF TypeOK
<1>3. pc' \in [Op -> {"idle", "append", "insert", "done", "dead"}]
      /\ pc'[o] = "done" /\ \A q \in Op : q # o => pc'[q] = pc[q]
  BY DEF TypeOK
<1>4. Members(appended') \subseteq Members(appended) \union {o}
  BY <1>2, MembersAppend DEF TypeOK
<1>5. Members(appended) \subseteq Op
  BY ElementOfSeq DEF TypeOK, Members
<1>6. \A i, j \in DOMAIN appended' : appended'[i] = appended'[j] => i = j
  <2>1. CASE appended' = appended
    BY <2>1 DEF EntriesInv
  <2>2. CASE appended' = Append(appended, o)
    <3> DEFINE n == Len(appended)
    <3>1. /\ n \in Nat /\ DOMAIN appended = 1..n /\ DOMAIN appended' = 1..(n + 1)
          /\ \A i \in 1..n : appended'[i] = appended[i]
          /\ appended'[n + 1] = o
      <4>1. appended \in Seq(Op)
        BY DEF TypeOK
      <4>2. Append(appended, o) \in Seq(Op) /\ Len(Append(appended, o)) = n + 1
        BY <4>1, AppendProperties
      <4> QED
        BY <2>2, <4>1, <4>2, AppendProperties, LenProperties
    <3>2. \A i \in 1..n : appended[i] # o
      BY <1>1, <3>1 DEF Members
    <3> QED
      BY <3>1, <3>2 DEF EntriesInv
  <2> QED
    BY <1>2, <2>1, <2>2
<1> QED
  BY <1>1, <1>3, <1>4, <1>5, <1>6 DEF EntriesInv

LEMMA EntriesStep ==
  ASSUME TypeOK, InOrder, EntriesInv, [Next]_vars
  PROVE  EntriesInv'
<1> USE DEF bounds
<1>0. Members(appended) \subseteq Op
  BY ElementOfSeq DEF TypeOK, Members
<1>1. ASSUME NEW o \in Op, Request(o)
      PROVE  EntriesInv'
  <2>1. CASE Commit(o)
    BY <1>0, <2>1 DEF Commit, TypeOK, EntriesInv, Members
  <2>2. CASE AppendLocked(o)
    <3>1. HeadOf(log) \in HeadRec
      BY HeadIsLast DEF TypeOK, InOrder
    <3> QED
      BY <2>2, <3>1, EntriesStore DEF AppendLocked
  <2>3. CASE ReadHead(o)
    BY <1>0, <2>3 DEF ReadHead, TypeOK, EntriesInv, Members
  <2>4. CASE Insert(o)
    <3>1. head[o] \in HeadRec
      BY DEF TypeOK
    <3> QED
      BY <2>4, <3>1, EntriesStore DEF Insert
  <2>5. CASE LoseEntry(o)
    BY <1>0, <2>5 DEF LoseEntry, TypeOK, EntriesInv, Members
  <2> QED
    BY <1>1, <2>1, <2>2, <2>3, <2>4, <2>5 DEF Request
<1>2. CASE Crash
  BY <1>0, <1>2 DEF Crash, TypeOK, EntriesInv, Members
<1>3. CASE OutOfBand
  <2>1. UNCHANGED <<backend, pc, head, committed, appended, faults, crashes>>
    BY <1>3, Outside DEF TypeOK
  <2> QED
    BY <2>1 DEF EntriesInv, Members
<1>4. CASE UNCHANGED vars
  BY <1>4 DEF vars, EntriesInv, Members
<1> QED
  BY <1>1, <1>2, <1>3, <1>4 DEF Next

\* No entry tells of an operation that did not happen, and none tells twice.
THEOREM EntriesCorrect == Spec => []EntriesAreTrue
<1> DEFINE Inv == TypeOK /\ InOrder /\ EntriesInv
<1>1. Init => Inv
  BY TypeInit, EntriesInit
<1>2. Inv /\ [Next]_vars => Inv'
  BY TypeStep, EntriesStep
<1>3. Inv => EntriesAreTrue
  <2> SUFFICES ASSUME Inv PROVE EntriesAreTrue
    OBVIOUS
  <2>1. Members(appended) \subseteq Op
    BY ElementOfSeq DEF TypeOK, Members
  <2> QED
    BY <2>1 DEF EntriesInv, EntriesAreTrue
<1> QED
  BY <1>1, <1>2, <1>3, PTL DEF Spec

-----------------------------------------------------------------------------
(* A log nobody touched. *)

LEMMA ChainInit ==
  ASSUME Init
  PROVE  ChainInv
<1>1. /\ DOMAIN log = 1..Len(Legacy) /\ Legacy \in Seq(Op) /\ Len(Legacy) \in Nat
      /\ \A i \in 1..Len(Legacy) :
           /\ log[i].seq = i
           /\ log[i].body = Legacy[i]
           /\ log[i].prev = SubSeq(Legacy, 1, i - 1)
           /\ log[i].hash = SubSeq(Legacy, 1, i)
  BY BackfillRows, AuditAssumption, LenProperties DEF Init
<1>2. ASSUME NEW i \in 1..Len(Legacy) PROVE Verifies(i)
  <2>1. Append(SubSeq(Legacy, 1, i - 1), Legacy[i]) = SubSeq(Legacy, 1, i)
    BY <1>1, PrefixAppend
  <2>2. log[i].hash = Hash(log[i].prev, log[i].body)
    BY <1>1, <2>1 DEF Hash
  <2>3. CASE i = 1
    BY <1>1, <2>2, <2>3, SubSeqEmpty DEF Verifies, Genesis
  <2>4. CASE i # 1
    <3>1. i - 1 \in 1..Len(Legacy)
      BY <1>1, <2>4
    <3> QED
      BY <1>1, <2>2, <2>4, <3>1 DEF Verifies
  <2> QED
    BY <2>3, <2>4
<1>3. \A o \in Op : pc[o] # "insert"
  BY DEF Init
<1> QED
  BY <1>1, <1>2, <1>3 DEF ChainInv

\* In a log nobody touched an entry goes to the end or nowhere.
LEMMA ChainStore ==
  ASSUME TypeOK, InOrder, ChainInv, NEW o \in Op, NEW h \in HeadRec, Store(o, h),
         h.seq \in 0..Len(log),
         h.hash = IF h.seq = 0 THEN Genesis ELSE log[h.seq].hash,
         pc' = [pc EXCEPT ![o] = "done"], head' = head,
         alterations' = alterations, alterations = 0
  PROVE  ChainInv'
<1>0. PICK n \in Nat : n = Len(log)
  BY LenProperties DEF TypeOK
<1>1. /\ n \in Nat /\ DOMAIN log = 1..n
      /\ \A i \in 1..n : log[i].seq = i /\ Verifies(i)
  BY <1>0, LenProperties DEF TypeOK, ChainInv
<1>2. \A q \in Op : pc'[q] = "insert" => pc[q] = "insert"
  BY DEF TypeOK
<1>3. CASE UNCHANGED log
  BY <1>2, <1>3 DEF ChainInv, Verifies
<1>4. CASE /\ \A i \in DOMAIN log : log[i].seq # Entry(h, o).seq
           /\ log' = Place(log, Entry(h, o))
  <2>1. /\ Entry(h, o) \in Row
        /\ Entry(h, o).seq = h.seq + 1
        /\ Entry(h, o).body = o
        /\ Entry(h, o).prev = h.hash
        /\ Entry(h, o).hash = Append(h.hash, o)
    BY EntryType
  <2>2. h.seq = n
    <3>1. h.seq # n => h.seq + 1 \in 1..n
      BY <1>1
    <3> QED
      BY <1>0, <1>1, <1>4, <2>1, <3>1
  <2>3. HeadOf(log).seq = n
    <3>1. CASE log = <<>>
      <4>1. HeadOf(log) = NoHead
        BY <3>1, HeadIsLast DEF TypeOK, InOrder
      <4>2. n = 0
        BY <1>0, <3>1, EmptySeq
      <4> QED
        BY <4>1, <4>2 DEF NoHead
    <3>2. CASE log # <<>>
      BY <1>0, <1>1, <3>2, HeadIsLast DEF TypeOK, InOrder
    <3> QED
      BY <3>1, <3>2
  <2>4. Entry(h, o).seq > HeadOf(log).seq /\ Entry(h, o).seq >= 1
    BY <1>1, <2>1, <2>2, <2>3
  <2>5. /\ log' \in Seq(Row) /\ Len(log') = n + 1 /\ log'[n + 1] = Entry(h, o)
        /\ \A i \in 1..n : log'[i] = log[i]
    <3>1. log \in Seq(Row) /\ Ordered(log)
      BY DEF TypeOK, InOrder
    <3> DEFINE e == Entry(h, o)
    <3>2. e \in Row /\ e.seq >= 1 /\ e.seq > HeadOf(log).seq /\ log' = Place(log, e)
          /\ \A i \in DOMAIN log : log[i].seq # e.seq
      BY <1>4, <2>1, <2>4
    <3> HIDE DEF e
    <3>3. /\ Place(log, e) \in Seq(Row) /\ Len(Place(log, e)) = Len(log) + 1
          /\ Place(log, e)[Len(log) + 1] = e
          /\ \A i \in DOMAIN log : Place(log, e)[i] = log[i]
      BY <3>1, <3>2, Placed
    <3> QED
      BY <1>0, <1>1, <3>2, <3>3 DEF e
  <2>6. DOMAIN log' = 1..(n + 1)
    BY <2>5, LenProperties
  <2>7. ASSUME NEW i \in 1..n PROVE log'[i].seq = i /\ Verifies(i)'
    <3>1. i # 1 => i - 1 \in 1..n
      BY <1>1
    <3> QED
      BY <1>1, <2>5, <3>1 DEF Verifies
  <2>8. log'[n + 1].seq = n + 1 /\ Verifies(n + 1)'
    <3>1. log'[n + 1].seq = n + 1 /\ log'[n + 1].hash = Hash(log'[n + 1].prev, log'[n + 1].body)
      BY <2>1, <2>2, <2>5 DEF Hash
    <3>2. CASE n = 0
      <4>1. log'[n + 1].prev = Genesis /\ n + 1 = 1
        BY <2>1, <2>2, <2>5, <3>2
      <4> QED
        BY <3>1, <4>1 DEF Verifies
    <3>3. CASE n # 0
      <4>1. n \in 1..n /\ (n + 1) - 1 = n /\ n + 1 # 1
        BY <1>1, <3>3
      <4>2. log'[n + 1].prev = log'[(n + 1) - 1].hash
        <5>1. log'[n + 1].prev = h.hash /\ h.hash = log[n].hash
          BY <2>1, <2>2, <2>5, <3>3
        <5> QED
          BY <2>5, <4>1, <5>1
      <4> QED
        BY <3>1, <4>1, <4>2 DEF Verifies
    <3> QED
      BY <3>2, <3>3
  <2>9. ASSUME NEW q \in Op, pc'[q] = "insert"
        PROVE  /\ head'[q].seq \in 0..Len(log')
               /\ head'[q].hash = IF head'[q].seq = 0 THEN Genesis ELSE log'[head'[q].seq].hash
    <3>1. /\ head[q].seq \in 0..n
          /\ head[q].hash = IF head[q].seq = 0 THEN Genesis ELSE log[head[q].seq].hash
      BY <1>0, <1>2, <2>9 DEF ChainInv
    <3>2. head[q].seq # 0 => head[q].seq \in 1..n
      BY <1>1, <3>1
    <3> QED
      BY <1>1, <2>5, <3>1, <3>2
  <2>10. \A i \in 1..(n + 1) : i \in 1..n \/ i = n + 1
    BY <1>1
  <2>11. \A i \in DOMAIN log' : log'[i].seq = i /\ Verifies(i)'
    BY <2>6, <2>7, <2>8, <2>10
  <2> QED
    BY <2>9, <2>11 DEF ChainInv
<1> QED
  BY <1>3, <1>4, Stored DEF TypeOK

LEMMA ChainStep ==
  ASSUME TypeOK, InOrder, ChainInv, [Next]_vars
  PROVE  ChainInv'
<1> USE DEF bounds
<1>1. ASSUME NEW o \in Op, Request(o)
      PROVE  ChainInv'
  <2>0. ASSUME alterations = 0
        PROVE  /\ HeadOf(log) \in HeadRec
               /\ HeadOf(log).seq \in 0..Len(log)
               /\ HeadOf(log).hash = IF HeadOf(log).seq = 0 THEN Genesis
                                     ELSE log[HeadOf(log).seq].hash
    <3>1. log = <<>> => HeadOf(log) = NoHead
      BY HeadIsLast DEF TypeOK, InOrder
    <3>2. log # <<>> => /\ HeadOf(log).seq = Len(log) /\ Len(log) # 0
                        /\ HeadOf(log).hash = log[Len(log)].hash
      BY <2>0, HeadIsLast, LenProperties DEF TypeOK, InOrder, ChainInv
    <3>3. HeadOf(log) \in HeadRec /\ Len(log) \in Nat
      BY HeadIsLast, LenProperties DEF TypeOK, InOrder
    <3> QED
      BY <3>1, <3>2, <3>3 DEF NoHead
  <2>1. CASE Commit(o)
    BY <2>1 DEF Commit, TypeOK, ChainInv, Verifies
  <2>2. CASE AppendLocked(o)
    <3>1. CASE alterations = 0
      BY <2>0, <2>2, <3>1, ChainStore DEF AppendLocked
    <3> QED
      BY <2>2, <3>1 DEF AppendLocked, ChainInv
  <2>3. CASE ReadHead(o)
    <3>1. \A q \in Op : pc'[q] = "insert" =>
             \/ q = o /\ head'[q] = HeadOf(log)
             \/ pc[q] = "insert" /\ head'[q] = head[q]
      BY <2>3 DEF ReadHead, TypeOK
    <3>2. log' = log /\ alterations' = alterations
      BY <2>3 DEF ReadHead
    <3> QED
      BY <2>0, <3>1, <3>2 DEF ChainInv, Verifies
  <2>4. CASE Insert(o)
    <3>1. CASE alterations = 0
      <4>1. /\ head[o] \in HeadRec /\ head[o].seq \in 0..Len(log)
            /\ head[o].hash = IF head[o].seq = 0 THEN Genesis ELSE log[head[o].seq].hash
        BY <2>4, <3>1 DEF Insert, TypeOK, ChainInv
      <4> QED
        BY <2>4, <3>1, <4>1, ChainStore DEF Insert
    <3> QED
      BY <2>4, <3>1 DEF Insert, ChainInv
  <2>5. CASE LoseEntry(o)
    BY <2>5 DEF LoseEntry, TypeOK, ChainInv, Verifies
  <2> QED
    BY <1>1, <2>1, <2>2, <2>3, <2>4, <2>5 DEF Request
<1>2. CASE Crash
  BY <1>2 DEF Crash, TypeOK, ChainInv, Verifies
<1>3. CASE OutOfBand
  <2>1. alterations' = alterations + 1 /\ alterations \in Nat
    BY <1>3, Outside, AuditAssumption DEF TypeOK
  <2>2. alterations' # 0
    BY <2>1
  <2> QED
    BY <2>2 DEF ChainInv
<1>4. CASE UNCHANGED vars
  BY <1>4 DEF vars, ChainInv, Verifies
<1> QED
  BY <1>1, <1>2, <1>3, <1>4 DEF Next

\* A log nobody touched verifies, and its seq has no gap.
THEOREM NoFalseAlarm == Spec => []UntouchedVerifies
<1> DEFINE Inv == TypeOK /\ InOrder /\ ChainInv
<1>1. Init => Inv
  BY TypeInit, ChainInit
<1>2. Inv /\ [Next]_vars => Inv'
  BY TypeStep, ChainStep
<1>3. Inv => UntouchedVerifies
  <2> SUFFICES ASSUME Inv, alterations = 0
               PROVE  VerifyOk /\ \A i \in DOMAIN log : log[i].seq = i
    BY DEF UntouchedVerifies
  <2>1. \A i \in DOMAIN log : log[i].seq = i /\ Verifies(i)
    BY DEF ChainInv
  <2>2. \A i \in DOMAIN log : \A j \in 1..i : j \in DOMAIN log
    BY LenProperties DEF TypeOK
  <2> QED
    BY <2>1, <2>2 DEF VerifyOk, Checked
<1> QED
  BY <1>1, <1>2, <1>3, PTL DEF Spec

-----------------------------------------------------------------------------
(* Answered without an entry. *)

LEMMA LossInit ==
  ASSUME Init
  PROVE  LossInv
<1>1. Unlogged = {}
  BY DEF Init, Unlogged
<1>2. \A o \in Op : pc[o] # "insert"
  BY DEF Init
<1> QED
  BY <1>1, <1>2, FS_EmptySet DEF Init, LossInv

\* No step but a raising append adds to the operations without an entry.
LEMMA LossKept ==
  ASSUME LossInv, Unlogged' \subseteq Unlogged, faults' = faults, faults \in Nat,
         backend' = "sqlite" => backend = "sqlite" /\ \A o \in Op : pc'[o] # "insert"
  PROVE  LossInv'
<1> SUFFICES ASSUME backend' = "sqlite"
             PROVE  /\ \A o \in Op : pc'[o] # "insert"
                    /\ IsFiniteSet(Unlogged') /\ Cardinality(Unlogged') <= faults'
  BY DEF LossInv
<1>1. /\ \A o \in Op : pc'[o] # "insert"
      /\ IsFiniteSet(Unlogged) /\ Cardinality(Unlogged) <= faults
  BY DEF LossInv
<1>2. IsFiniteSet(Unlogged') /\ Cardinality(Unlogged') <= Cardinality(Unlogged)
  BY <1>1, FS_Subset
<1>3. Cardinality(Unlogged') \in Nat /\ Cardinality(Unlogged) \in Nat
  BY <1>1, <1>2, FS_CardinalityType
<1> QED
  BY <1>1, <1>2, <1>3

LEMMA LossStep ==
  ASSUME TypeOK, InOrder, LossInv, [Next]_vars
  PROVE  LossInv'
<1> USE DEF bounds
<1>0. faults \in Nat
  BY AuditAssumption DEF TypeOK
<1>1. ASSUME NEW o \in Op, Request(o)
      PROVE  LossInv'
  <2>1. CASE Commit(o)
    <3>1. Unlogged' \subseteq Unlogged /\ (\A q \in Op : pc'[q] = "insert" => pc[q] = "insert")
      BY <2>1 DEF Commit, TypeOK, Unlogged, Members
    <3> QED
      BY <1>0, <2>1, <3>1, LossKept DEF Commit, LossInv
  <2>2. CASE AppendLocked(o)
    <3>1. HeadOf(log) \in HeadRec /\ log \in Seq(Row) /\ \A i \in DOMAIN log : log[i] \in Row
      BY HeadIsLast, ElementOfSeq DEF TypeOK, InOrder
    <3>2. \A i \in DOMAIN log : log[i].seq <= HeadOf(log).seq
      BY HeadIsLast DEF TypeOK, InOrder
    <3>3. \A i \in DOMAIN log : log[i].seq # HeadOf(log).seq + 1
      BY <3>1, <3>2 DEF HeadRec, Row
    <3>4. appended' = Append(appended, o)
      BY <2>2, <3>3 DEF AppendLocked, Store
    <3>5. Members(appended') = Members(appended) \union {o}
      BY <3>4, MembersAppend DEF TypeOK
    <3>6. pc' = [pc EXCEPT ![o] = "done"]
      BY <2>2 DEF AppendLocked
    <3>7. Unlogged' \subseteq Unlogged
      BY <3>5, <3>6 DEF TypeOK, Unlogged
    <3>8. \A q \in Op : pc'[q] = "insert" => pc[q] = "insert"
      BY <3>6 DEF TypeOK
    <3> QED
      BY <1>0, <2>2, <3>7, <3>8, LossKept DEF AppendLocked, LossInv
  <2>3. CASE ReadHead(o)
    BY <2>3 DEF ReadHead, LossInv
  <2>4. CASE Insert(o)
    BY <2>4 DEF Insert, LossInv
  <2>5. CASE LoseEntry(o)
    <3> SUFFICES ASSUME backend' = "sqlite"
                 PROVE  /\ \A q \in Op : pc'[q] # "insert"
                        /\ IsFiniteSet(Unlogged') /\ Cardinality(Unlogged') <= faults'
      BY DEF LossInv
    <3>1. /\ \A q \in Op : pc[q] # "insert"
          /\ IsFiniteSet(Unlogged) /\ Cardinality(Unlogged) <= faults
      BY <2>5 DEF LoseEntry, LossInv
    <3>2. \A q \in Op : pc'[q] # "insert"
      BY <2>5, <3>1 DEF LoseEntry, TypeOK
    <3>3. Unlogged' \subseteq Unlogged \union {o}
      BY <2>5 DEF LoseEntry, TypeOK, Unlogged, Members
    <3>4. /\ IsFiniteSet(Unlogged \union {o})
          /\ Cardinality(Unlogged \union {o}) <= Cardinality(Unlogged) + 1
      <4>1. Cardinality(Unlogged) \in Nat
        BY <3>1, FS_CardinalityType
      <4>2. /\ IsFiniteSet(Unlogged \union {o})
            /\ Cardinality(Unlogged \union {o}) =
                 IF o \in Unlogged THEN Cardinality(Unlogged) ELSE Cardinality(Unlogged) + 1
        BY <3>1, FS_AddElement
      <4> QED
        BY <4>1, <4>2
    <3>5. IsFiniteSet(Unlogged') /\ Cardinality(Unlogged') <= Cardinality(Unlogged \union {o})
      BY <3>3, <3>4, FS_Subset
    <3>6. /\ Cardinality(Unlogged') \in Nat /\ Cardinality(Unlogged) \in Nat
          /\ Cardinality(Unlogged \union {o}) \in Nat
      BY <3>1, <3>4, <3>5, FS_CardinalityType
    <3>7. faults' = faults + 1
      BY <2>5 DEF LoseEntry
    <3> QED
      BY <1>0, <3>1, <3>2, <3>4, <3>5, <3>6, <3>7
  <2> QED
    BY <1>1, <2>1, <2>2, <2>3, <2>4, <2>5 DEF Request
<1>2. CASE Crash
  <2>1. Unlogged' \subseteq Unlogged /\ (\A q \in Op : pc'[q] = "insert" => pc[q] = "insert")
    BY <1>2 DEF Crash, TypeOK, Unlogged, Members
  <2> QED
    BY <1>0, <1>2, <2>1, LossKept DEF Crash, LossInv
<1>3. CASE OutOfBand
  <2>1. UNCHANGED <<backend, pc, head, committed, appended, faults, crashes>>
    BY <1>3, Outside DEF TypeOK
  <2>2. Unlogged' = Unlogged
    BY <2>1 DEF Unlogged, Members
  <2> QED
    BY <2>1, <2>2 DEF LossInv
<1>4. CASE UNCHANGED vars
  <2>1. Unlogged' = Unlogged
    BY <1>4 DEF vars, Unlogged, Members
  <2> QED
    BY <1>4, <2>1 DEF vars, LossInv
<1> QED
  BY <1>1, <1>2, <1>3, <1>4 DEF Next

\* Under the write lock an operation is answered without its entry only if its
\* append raised.
THEOREM LossExplained == Spec => []LossIsFault
<1> DEFINE Inv == TypeOK /\ InOrder /\ LossInv
<1>1. Init => Inv
  BY TypeInit, LossInit
<1>2. Inv /\ [Next]_vars => Inv'
  BY TypeStep, LossStep
<1>3. Inv => LossIsFault
  BY DEF LossInv, LossIsFault
<1> QED
  BY <1>1, <1>2, <1>3, PTL DEF Spec

-----------------------------------------------------------------------------
(* Changes from outside, where the newest entry stays in place. *)

\* If one of the numbers up to Len(C) is no row's seq, then one of the prefixes
\* of C is no row's hash.
LEMMA FreeSeqLeavesGap ==
  ASSUME NEW rows \in Seq(Row), Ordered(rows), NEW C \in Seq(Body), NEW s \in 1..Len(C),
         \A i \in DOMAIN rows : rows[i].seq \in (1..Len(C)) \ {s}
  PROVE  \E m \in 1..Len(C) : SubSeq(C, 1, m) \notin HashesOf(rows)
<1> DEFINE N == Len(C)
           T == (1..N) \ {s}
           rowOf(m) == CHOOSE i \in DOMAIN rows : rows[i].hash = SubSeq(C, 1, m)
           f == [m \in 1..N |-> rows[rowOf(m)].seq]
<1> SUFFICES ASSUME \A m \in 1..N : SubSeq(C, 1, m) \in HashesOf(rows)
             PROVE  FALSE
  OBVIOUS
<1>1. N \in Nat /\ s \in 1..N
  BY LenProperties
<1>2. \A m \in 1..N : rowOf(m) \in DOMAIN rows /\ rows[rowOf(m)].hash = SubSeq(C, 1, m)
  BY DEF HashesOf
<1> HIDE DEF rowOf
<1>3. f \in [1..N -> T]
  BY <1>2
<1> DEFINE S == 1..N
<1>4. IsFiniteSet(S) /\ Cardinality(S) = N
  <2> HIDE DEF N
  <2>1. 1 \in Int /\ N \in Int /\ ~(1 > N)
    BY <1>1
  <2>2. IsFiniteSet(1..N) /\ Cardinality(1..N) = IF 1 > N THEN 0 ELSE N - 1 + 1
    BY <2>1, FS_Interval
  <2> QED
    BY <1>1, <2>1, <2>2
<1>5. IsFiniteSet(T) /\ Cardinality(T) = N - 1
  BY <1>1, <1>4, FS_RemoveElement
<1>6. PICK x \in 1..N, y \in 1..N : x # y /\ f[x] = f[y]
  <2>1. Cardinality(T) < Cardinality(S)
    BY <1>1, <1>4, <1>5
  <2>2. f \in [S -> T]
    BY <1>3
  <2> HIDE DEF f, T, S
  <2>3. \E x, y \in S : x # y /\ f[x] = f[y]
    BY <1>4, <1>5, <2>1, <2>2, FS_PigeonHole
  <2> QED
    BY <2>3 DEF S
<1>7. rows[rowOf(x)].seq = rows[rowOf(y)].seq
  BY <1>6
<1>8. rowOf(x) = rowOf(y)
  <2>1. rowOf(x) \in 1..Len(rows) /\ rowOf(y) \in 1..Len(rows) /\ Len(rows) \in Nat
    BY <1>2, LenProperties
  <2>2. rows[rowOf(x)].seq \in Nat /\ rows[rowOf(y)].seq \in Nat
    BY <1>1, <1>2
  <2>3. ~(rowOf(x) < rowOf(y)) /\ ~(rowOf(y) < rowOf(x))
    BY <1>2, <1>7, <2>2 DEF Ordered
  <2> QED
    BY <2>1, <2>3
<1>9. SubSeq(C, 1, x) = SubSeq(C, 1, y)
  BY <1>2, <1>8
<1>10. Len(SubSeq(C, 1, x)) = x /\ Len(SubSeq(C, 1, y)) = y
  BY PrefixAppend
<1> QED
  BY <1>6, <1>9, <1>10

LEMMA ChainType ==
  ASSUME TypeOK, InOrder
  PROVE  Chain \in Seq(Body) /\ HeadOf(log) \in HeadRec /\ Len(Chain) \in Nat
<1>1. HeadOf(log) \in HeadRec
  BY HeadIsLast DEF TypeOK, InOrder
<1> QED
  BY <1>1, LenProperties DEF HeadRec, Chain

LEMMA TailInit ==
  ASSUME Init
  PROVE  TailInv
<1>1. /\ log \in Seq(Row) /\ Len(log) = Len(Legacy) /\ DOMAIN log = 1..Len(Legacy)
      /\ Legacy \in Seq(Op) /\ Len(Legacy) \in Nat
      /\ \A i \in 1..Len(Legacy) : log[i].seq = i /\ log[i].hash = SubSeq(Legacy, 1, i)
  BY BackfillRows, AuditAssumption, LenProperties DEF Init
<1>2. HeadOf(log).seq = Len(Legacy) /\ HeadOf(log).hash = Legacy
  <2>1. CASE Len(Legacy) = 0
    <3>1. log = <<>> /\ Legacy = <<>>
      BY <1>1, <2>1, EmptySeq
    <3> QED
      BY <3>1 DEF HeadOf, NoHead, Genesis
  <2>2. CASE Len(Legacy) # 0
    <3>1. log # <<>> /\ Len(Legacy) \in 1..Len(Legacy)
      BY <1>1, <2>2
    <3>2. HeadOf(log) = [seq |-> Len(Legacy), hash |-> SubSeq(Legacy, 1, Len(Legacy))]
      BY <1>1, <3>1 DEF HeadOf
    <3> QED
      BY <1>1, <3>2, SubSeqFull
  <2> QED
    BY <2>1, <2>2
<1>3. log = <<>> => Legacy = <<>>
  BY <1>1, EmptySeq
<1> QED
  BY <1>2, <1>3 DEF Init, TailInv, Chain

\* Where the newest row stays, nothing but the rows before it can change.
LEMMA TailKept ==
  ASSUME TypeOK, InOrder, TailInv,
         HeadOf(log') = HeadOf(log), HashesOf(log') \subseteq HashesOf(log),
         log' = <<>> => log = <<>>, appended' = appended,
         \A o \in Op : pc'[o] = "insert" =>
           \/ pc[o] = "insert" /\ head'[o] = head[o]
           \/ head'[o] = HeadOf(log)
  PROVE  TailInv'
<1>1. Chain' = Chain /\ Chain \in Seq(Body)
  BY ChainType DEF Chain
<1>2. SubSeq(Chain, 1, Len(Chain)) = Chain /\ Len(Chain) \in Nat
  BY <1>1, SubSeqFull, LenProperties
<1>3. \A o \in Op : pc'[o] = "insert" =>
        head'[o].seq <= Len(Chain') /\ head'[o].hash = SubSeq(Chain', 1, head'[o].seq)
  BY <1>1, <1>2 DEF TailInv, Chain
<1>4. Missing => Missing'
  BY <1>1 DEF Missing
<1> QED
  BY <1>1, <1>3, <1>4 DEF TailInv, Members

\* An append goes behind the newest row, or into a gap that verification has to
\* miss.
LEMMA TailStore ==
  ASSUME TypeOK, InOrder, EntriesInv, TailInv,
         NEW o \in Op, NEW h \in HeadRec, Store(o, h), pc[o] # "done",
         h.seq <= Len(Chain), h.hash = SubSeq(Chain, 1, h.seq),
         pc' = [pc EXCEPT ![o] = "done"], head' = head
  PROVE  TailInv'
<1>1. \A q \in Op : pc'[q] = "insert" => pc[q] = "insert" /\ head'[q] = head[q]
  BY DEF TypeOK
<1>2. CASE UNCHANGED <<log, appended>>
  BY <1>1, <1>2, TailKept
<1>3. CASE /\ \A i \in DOMAIN log : log[i].seq # Entry(h, o).seq
           /\ log' = Place(log, Entry(h, o))
           /\ appended' = Append(appended, o)
  <2>1. PICK C \in Seq(Body) : C = Chain
    BY ChainType
  <2>2. PICK N \in Nat : N = Len(C)
    BY LenProperties
  <2>3. PICK e \in Row : e = Entry(h, o)
    BY EntryType
  <2>4. e.seq = h.seq + 1 /\ e.hash = Append(h.hash, o) /\ h.seq \in Nat /\ h.hash \in Seq(Body)
    BY <2>3, EntryType DEF HeadRec
  <2>5. h.seq <= N /\ h.hash = SubSeq(C, 1, h.seq) /\ HeadOf(log).seq = N
    BY <2>1, <2>2 DEF TailInv
  <2>6. /\ log' # <<>>
        /\ HashesOf(log') = HashesOf(log) \union {e.hash}
        /\ e.seq < N => HeadOf(log') = HeadOf(log)
        /\ e.seq > N => HeadOf(log') = [seq |-> e.seq, hash |-> e.hash]
    <3>1. log \in Seq(Row) /\ Ordered(log) /\ e.seq >= 1
          /\ (\A i \in DOMAIN log : log[i].seq # e.seq) /\ log' = Place(log, e)
      BY <1>3, <2>3, <2>4 DEF TypeOK, InOrder
    <3> QED
      BY <2>5, <3>1, Placed
  <2>7. o \in Body /\ o \notin Members(C) /\ Members(C) \subseteq Members(appended)
    BY <2>1 DEF Body, EntriesInv, TailInv
  <2>8. Members(appended') = Members(appended) \union {o}
    BY <1>3, MembersAppend DEF TypeOK
  <2>9. ASSUME NEW q \in Op, pc'[q] = "insert"
        PROVE  /\ head'[q].seq \in Nat /\ head'[q].seq <= N
               /\ head'[q].hash = SubSeq(C, 1, head'[q].seq)
    BY <1>1, <2>1, <2>2, <2>9 DEF TailInv, TypeOK, HeadRec
  <2>10. CASE h.seq = N
    <3>1. h.hash = C
      BY <2>2, <2>5, <2>10, SubSeqFull
    <3>2. PICK D \in Seq(Body) : D = Append(C, o)
      BY <2>7, AppendProperties
    <3>3. Len(D) = N + 1 /\ Members(D) = Members(C) \union {o}
      BY <2>2, <2>7, <3>2, AppendProperties, MembersAppend
    <3>4. HeadOf(log') = [seq |-> N + 1, hash |-> D]
      BY <2>4, <2>6, <2>10, <3>1, <3>2
    <3>5. Chain' = D /\ HeadOf(log').seq = N + 1
      BY <3>4 DEF Chain
    <3>6. \A m \in 0..N : SubSeq(D, 1, m) = SubSeq(C, 1, m)
      BY <2>2, <2>7, <3>2, PrefixOfAppend
    <3>7. \A q \in Op : pc'[q] = "insert" =>
            head'[q].seq <= N + 1 /\ head'[q].hash = SubSeq(D, 1, head'[q].seq)
      BY <2>9, <3>6
    <3>8. Missing => Missing'
      <4> SUFFICES ASSUME Missing PROVE Missing'
        OBVIOUS
      <4>1. PICK m \in 1..N : SubSeq(C, 1, m) \notin HashesOf(log)
        BY <2>1, <2>2 DEF Missing
      <4>2. SubSeq(D, 1, m) = SubSeq(C, 1, m) /\ Len(SubSeq(C, 1, m)) = m
        BY <2>2, <3>6, PrefixAppend
      <4>3. SubSeq(D, 1, m) # D /\ e.hash = D
        <5>1. m # N + 1
          OBVIOUS
        <5>2. Len(SubSeq(D, 1, m)) # Len(D)
          BY <3>3, <4>2, <5>1
        <5> QED
          BY <2>4, <3>1, <3>2, <5>2
      <4>4. SubSeq(D, 1, m) \notin HashesOf(log')
        BY <2>6, <4>1, <4>2, <4>3
      <4>5. m \in 1..Len(D)
        BY <3>3
      <4> QED
        BY <3>5, <4>4, <4>5 DEF Missing
    <3>9. appended = C => appended' = D
      BY <1>3, <3>2
    <3>10. Members(Chain') \subseteq Members(appended')
      BY <2>7, <2>8, <3>3, <3>5
    <3>11. appended' = Chain' \/ Missing'
      BY <2>1, <3>5, <3>8, <3>9 DEF TailInv
    <3>12. HeadOf(log').seq = Len(Chain')
      BY <3>3, <3>5
    <3>13. \A q \in Op : pc'[q] = "insert" =>
            head'[q].seq <= Len(Chain') /\ head'[q].hash = SubSeq(Chain', 1, head'[q].seq)
      BY <3>3, <3>5, <3>7
    <3> QED
      BY <2>6, <3>10, <3>11, <3>12, <3>13 DEF TailInv
  <2>11. CASE h.seq # N
    <3>1. e.seq \in 1..N
      BY <2>4, <2>5, <2>11
    <3>2. /\ N # 0
          /\ \A i \in DOMAIN log : log[i].seq \in (1..N) \ {e.seq}
          /\ \E i \in DOMAIN log : log[i].seq = N
      <4>1. log # <<>>
        BY <2>5, <3>1, HeadIsLast DEF TypeOK, InOrder, NoHead
      <4>2. Len(log) \in DOMAIN log /\ log[Len(log)].seq = N
        BY <2>5, <4>1, HeadIsLast DEF TypeOK, InOrder
      <4>3. \A i \in DOMAIN log : log[i] \in Row /\ log[i].seq >= 1 /\ log[i].seq <= N
        <5>1. log \in Seq(Row) /\ Ordered(log)
          BY DEF TypeOK, InOrder
        <5>2. \A i \in DOMAIN log : log[i].seq <= HeadOf(log).seq
          BY <5>1, HeadIsLast
        <5>3. \A i \in DOMAIN log : log[i] \in Row
          BY <5>1, LenProperties, ElementOfSeq
        <5> QED
          BY <2>5, <5>1, <5>2, <5>3 DEF Ordered
      <4> QED
        BY <1>3, <2>3, <3>1, <4>2, <4>3 DEF Row
    <3>3. e.seq < N
      BY <3>1, <3>2
    <3>4. HeadOf(log') = HeadOf(log) /\ Chain' = C
      BY <2>1, <2>6, <3>3 DEF Chain
    <3>5. PICK m \in 1..N : SubSeq(C, 1, m) \notin HashesOf(log)
      BY <2>2, <3>1, <3>2, FreeSeqLeavesGap DEF TypeOK, InOrder
    <3>6. e.hash # SubSeq(C, 1, m)
      <4>1. Members(e.hash) = Members(h.hash) \union {o}
        <5>1. PICK s \in Seq(Body) : s = h.hash
          BY <2>4
        <5>2. o \in Body
          BY <2>7
        <5>3. Members(Append(s, o)) = Members(s) \union {o}
          BY <5>2, MembersAppend
        <5> QED
          BY <2>4, <5>1, <5>3
      <4>2. Members(SubSeq(C, 1, m)) \subseteq Members(C)
        <5>1. /\ SubSeq(C, 1, m) \in Seq(Body) /\ Len(SubSeq(C, 1, m)) = m
          BY <2>2, PrefixAppend
        <5>2. /\ DOMAIN C = 1..N /\ DOMAIN SubSeq(C, 1, m) = 1..m
              /\ \A i \in 1..m : C[i] \in Body
          BY <2>2, <5>1, LenProperties, ElementOfSeq
        <5>3. \A i \in 1..m : SubSeq(C, 1, m)[i] = C[i]
          BY <5>2, SubSeqProperties
        <5> QED
          BY <5>2, <5>3 DEF Members
      <4> QED
        BY <2>7, <4>1, <4>2
    <3>7. Missing'
      <4>1. SubSeq(C, 1, m) \notin HashesOf(log')
        BY <2>6, <3>5, <3>6
      <4> QED
        BY <2>2, <3>4, <4>1 DEF Missing
    <3>8. Members(Chain') \subseteq Members(appended')
      BY <2>7, <2>8, <3>4
    <3>9. HeadOf(log').seq = Len(Chain')
      BY <2>2, <2>5, <3>4
    <3>10. \A q \in Op : pc'[q] = "insert" =>
            head'[q].seq <= Len(Chain') /\ head'[q].hash = SubSeq(Chain', 1, head'[q].seq)
      BY <2>2, <2>9, <3>4
    <3> QED
      BY <2>6, <3>7, <3>8, <3>9, <3>10 DEF TailInv
  <2> QED
    BY <2>10, <2>11
<1> QED
  BY <1>2, <1>3, Stored DEF TypeOK

LEMMA TailStep ==
  ASSUME TypeOK, InOrder, EntriesInv, TailInv, [Next]_vars, TailAlterations = FALSE
  PROVE  TailInv'
<1> USE DEF bounds
<1>1. ASSUME NEW o \in Op, Request(o)
      PROVE  TailInv'
  <2>0. /\ Chain \in Seq(Body) /\ HeadOf(log) \in HeadRec /\ Len(Chain) \in Nat
        /\ HeadOf(log).seq <= Len(Chain)
        /\ HeadOf(log).hash = SubSeq(Chain, 1, HeadOf(log).seq)
    <3>1. Chain \in Seq(Body) /\ HeadOf(log) \in HeadRec /\ Len(Chain) \in Nat
      BY ChainType
    <3>2. HeadOf(log).seq = Len(Chain) /\ HeadOf(log).hash = Chain
      BY DEF TailInv, Chain
    <3> QED
      BY <3>1, <3>2, SubSeqFull
  <2>1. CASE Commit(o)
    <3>1. \A q \in Op : pc'[q] = "insert" => pc[q] = "insert"
      BY <2>1 DEF Commit, TypeOK
    <3> QED
      BY <2>1, <3>1, TailKept DEF Commit
  <2>2. CASE AppendLocked(o)
    BY <2>0, <2>2, TailStore DEF AppendLocked
  <2>3. CASE ReadHead(o)
    <3>1. \A q \in Op : pc'[q] = "insert" =>
             \/ pc[q] = "insert" /\ head'[q] = head[q]
             \/ head'[q] = HeadOf(log)
      BY <2>3 DEF ReadHead, TypeOK
    <3> QED
      BY <2>3, <3>1, TailKept DEF ReadHead
  <2>4. CASE Insert(o)
    <3>1. /\ head[o] \in HeadRec /\ head[o].seq <= Len(Chain)
          /\ head[o].hash = SubSeq(Chain, 1, head[o].seq)
      BY <2>4 DEF Insert, TypeOK, TailInv
    <3> QED
      BY <2>4, <3>1, TailStore DEF Insert
  <2>5. CASE LoseEntry(o)
    <3>1. \A q \in Op : pc'[q] = "insert" => pc[q] = "insert"
      BY <2>5 DEF LoseEntry, TypeOK
    <3> QED
      BY <2>5, <3>1, TailKept DEF LoseEntry
  <2> QED
    BY <1>1, <2>1, <2>2, <2>3, <2>4, <2>5 DEF Request
<1>2. CASE Crash
  <2>1. \A q \in Op : pc'[q] = "insert" => pc[q] = "insert"
    BY <1>2 DEF Crash, TypeOK
  <2> QED
    BY <1>2, <2>1, TailKept DEF Crash
<1>3. CASE OutOfBand
  <2>1. /\ log' # <<>> /\ HeadOf(log') = HeadOf(log) /\ HashesOf(log') \subseteq HashesOf(log)
        /\ UNCHANGED <<pc, head, appended>>
    BY <1>3, Outside DEF TypeOK
  <2> QED
    BY <2>1, TailKept
<1>4. CASE UNCHANGED vars
  BY <1>4, TailKept DEF vars
<1> QED
  BY <1>1, <1>2, <1>3, <1>4 DEF Next

\* In a log that verifies every row has the contents of the rows up to it as its
\* hash.
LEMMA VerifiedHashes ==
  ASSUME log \in Seq(Row), VerifyOk
  PROVE  /\ Bodies \in Seq(Body) /\ Len(Bodies) = Len(log)
         /\ \A i \in 1..Len(log) : log[i].hash = SubSeq(Bodies, 1, i)
<1>1. Len(log) \in Nat /\ DOMAIN log = 1..Len(log) /\ \A i \in 1..Len(log) : log[i] \in Row
  BY LenProperties, ElementOfSeq
<1>2. Bodies \in Seq(Body) /\ Len(Bodies) = Len(log)
      /\ \A i \in 1..Len(log) : Bodies[i] = log[i].body
  <2>1. Bodies = [i \in 1..Len(log) |-> log[i].body]
    BY <1>1 DEF Bodies
  <2>2. Bodies \in [1..Len(log) -> Body] /\ DOMAIN Bodies = 1..Len(log)
    BY <1>1, <2>1 DEF Row
  <2> QED
    BY <1>1, <2>1, <2>2, SeqDef, LenProperties
<1>3. \A i \in 1..Len(log) : Verifies(i)
  <2> TAKE i \in 1..Len(log)
  <2>1. i \in Checked
    BY <1>1 DEF VerifyOk
  <2>2. i \in 1..i
    BY <1>1
  <2> QED
    BY <2>1, <2>2 DEF Checked
<1> DEFINE T == {i \in 1..Len(log) : log[i].hash # SubSeq(Bodies, 1, i)}
<1>4. ASSUME T # {} PROVE FALSE
  <2>1. PICK i \in T : \A j \in T : i <= j
    <3>1. T \in SUBSET Nat
      BY <1>1
    <3> HIDE DEF T
    <3> QED
      BY <1>4, <3>1, LeastNumber
  <2>2. i \in 1..Len(log) /\ Verifies(i)
    BY <1>3, <2>1
  <2>3. Append(SubSeq(Bodies, 1, i - 1), Bodies[i]) = SubSeq(Bodies, 1, i)
    BY <1>2, <2>2, PrefixAppend
  <2>4. log[i].prev = SubSeq(Bodies, 1, i - 1)
    <3>1. CASE i = 1
      BY <1>2, <2>2, <3>1, SubSeqEmpty DEF Verifies, Genesis
    <3>2. CASE i # 1
      <4>1. i - 1 \in 1..Len(log) /\ ~(i <= i - 1)
        BY <1>1, <2>2, <3>2
      <4>2. log[i - 1].hash = SubSeq(Bodies, 1, i - 1)
        BY <2>1, <4>1
      <4> QED
        BY <2>2, <3>2, <4>2 DEF Verifies
    <3> QED
      BY <3>1, <3>2
  <2>5. log[i].hash = Append(log[i].prev, Bodies[i])
    BY <1>2, <2>2 DEF Verifies, Hash
  <2> QED
    BY <2>1, <2>3, <2>4, <2>5
<1> QED
  BY <1>2, <1>4

\* Any edit, deletion or reordering that leaves the newest entry in place is
\* detected, at once and after any number of later appends.
THEOREM ChangesDetected ==
  ASSUME TailAlterations = FALSE
  PROVE  Spec => []AlterationDetected
<1> DEFINE Inv == TypeOK /\ InOrder /\ EntriesInv /\ TailInv
<1>1. Init => Inv
  BY TypeInit, EntriesInit, TailInit
<1>2. Inv /\ [Next]_vars => Inv'
  BY TypeStep, EntriesStep, TailStep
<1>3. Inv => AlterationDetected
  <2> SUFFICES ASSUME Inv, VerifyOk PROVE Bodies = appended
    BY DEF AlterationDetected
  <2>1. log \in Seq(Row) /\ Ordered(log) /\ Len(log) \in Nat
    BY LenProperties DEF TypeOK, InOrder
  <2>2. /\ Bodies \in Seq(Body) /\ Len(Bodies) = Len(log)
        /\ \A i \in 1..Len(log) : log[i].hash = SubSeq(Bodies, 1, i)
    BY <2>1, VerifiedHashes
  <2>3. CASE log = <<>>
    BY <2>2, <2>3, EmptySeq DEF TailInv
  <2>4. CASE log # <<>>
    <3>1. Len(log) \in DOMAIN log /\ HeadOf(log).hash = log[Len(log)].hash
      BY <2>1, <2>4, HeadIsLast
    <3>2. DOMAIN log = 1..Len(log)
      BY <2>1, LenProperties
    <3>3. Chain = Bodies
      BY <2>2, <3>1, <3>2, SubSeqFull DEF Chain
    <3>4. ~Missing
      BY <2>2, <3>2, <3>3 DEF Missing, HashesOf
    <3> QED
      BY <3>3, <3>4 DEF TailInv
  <2> QED
    BY <2>3, <2>4
<1> QED
  BY <1>1, <1>2, <1>3, PTL DEF Spec

=============================================================================
