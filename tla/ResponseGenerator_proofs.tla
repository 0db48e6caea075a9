------------------------ MODULE ResponseGenerator_proofs ------------------------
(***************************************************************************)
(* The server's generation loop, for any clients, requests, cache hits and   *)
(* sizes of the batch: one inductive invariant, and what follows from it of  *)
(* the active context, the requests in one pair of hands each, the batch and *)
(* its results, the order of the responses, and the types prompts are saved  *)
(* under.                                                                    *)
(*                                                                           *)
(* First what the operators of the loop do: the lists of rows that the batch *)
(* filters, cuts, feeds and joins, the segments of a prompt with their types *)
(* and sums, the line of the requests and the queues of responses.  RowsFor  *)
(* and Total are recursive functions: what they return is shown by induction *)
(* on a set of naturals.                                                     *)
(***************************************************************************)
EXTENDS ResponseGenerator, TLAPS, WellFoundedInduction, NaturalsInduction,
        SequenceTheorems, FiniteSetTheorems

----------------------------------------
(* What the lemmas are about. *)

(* A row of the batch: its request, the tokens of its cache, and the *)
(* segments of the prompt that are left, with their types.           *)
RowRecords ==
  [client : Clients, held : Nat, types : Seq(STRING), left : Seq(Nat \ {0}) \ {<<>>}]

(* No request has two rows in a list. *)
OneRowEach(list) == \A i, j \in DOMAIN list : list[i].client = list[j].client => i = j

(* A request is in a line at most once. *)
Once(list) == \A i, j \in DOMAIN list : list[i] = list[j] => i = j

(* The responses of a queue come in the order context, progress, tokens, *)
(* end or error.                                                         *)
Ordered(box) ==
  \A i, j \in DOMAIN box : i < j =>
    \/ Rank(box[i]) < Rank(box[j])
    \/ box[i] = box[j] /\ box[i] \in {"progress", "token"}

(* A row has the types of the segments that are left of its prompt, the *)
(* first of them cut where the cache ended.                             *)
Upto(segments, k) == Total(SubSeq(segments, 1, k))
Left(segments, k, held) ==
  LastApart(<<Upto(segments, k + 1) - held>> \o SubSeq(segments, k + 2, Len(segments)))

RowTyped(row) ==
  LET segments == ask[row.client].segments
      types    == ask[row.client].types
      n        == Len(segments)
  IN  \/ row.types = <<>> /\ row.left = <<1>>
      \/ \E k \in 0..n - 1 : /\ row.types = SubSeq(types, k + 1, n)
                             /\ row.held < Upto(segments, k + 1)
                             /\ row.left = Left(segments, k, row.held)

(* SavedUnderOwnType for one entry. *)
UnderOwnType(s) ==
  \/ \E i \in DOMAIN ask[s.client].segments :
       /\ s.type = ask[s.client].types[i]
       /\ s.length = IF i = Len(ask[s.client].segments)
                       THEN Upto(ask[s.client].segments, i) - 1
                       ELSE Upto(ask[s.client].segments, i)
  \/ s.type = "assistant" /\ s.length > Total(ask[s.client].segments)

----------------------------------------
(* Induction. *)

(* Induction on the naturals, for a set: the form in which the provers *)
(* can use it.                                                         *)
LEMMA SetInduction ==
  ASSUME NEW S, 0 \in S, \A n \in Nat : n \in S => n + 1 \in S
  PROVE  Nat \subseteq S
<1> SUFFICES ASSUME Nat \ S # {} PROVE FALSE
  OBVIOUS
<1>1. PICK x \in Nat \ S : \A y \in Nat \ S : ~(<<y, x>> \in OpToRel(<, Nat))
  <2>1. Nat \ S \subseteq Nat
    OBVIOUS
  <2> QED BY <2>1, NatLessThanWellFounded, WFMin, Zenon
<1>2. x # 0 /\ x - 1 \in Nat /\ x - 1 < x /\ x - 1 + 1 = x
  BY SMT
<1>3. x - 1 \in S
  <2>1. SUFFICES ASSUME x - 1 \notin S PROVE FALSE
    OBVIOUS
  <2>2. x - 1 \in Nat \ S
    BY <1>2, <2>1
  <2>3. <<x - 1, x>> \in OpToRel(<, Nat)
    <3>1. <<x - 1, x>> \in Nat \X Nat /\ <<x - 1, x>>[1] = x - 1 /\ <<x - 1, x>>[2] = x
      BY <1>2
    <3> QED BY <3>1, <1>2, Zenon DEF OpToRel
  <2> QED BY <1>1, <2>2, <2>3, Zenon
<1> QED BY <1>2, <1>3

(* A set of naturals has a least element. *)
LEMMA LeastOf ==
  ASSUME NEW S \in SUBSET Nat, S # {}
  PROVE  \E x \in S : \A y \in S : x <= y
<1>1. PICK x \in S : \A y \in S : ~(<<y, x>> \in OpToRel(<, Nat))
  BY NatLessThanWellFounded, WFMin, Zenon
<1>2. \A y \in S : <<y, x>> \in Nat \X Nat /\ <<y, x>>[1] = y /\ <<y, x>>[2] = x
  OBVIOUS
<1>3. \A y \in S : ~(y < x)
  BY <1>1, <1>2, Zenon DEF OpToRel
<1>4. \A y \in S : x <= y
  BY <1>3
<1> QED BY <1>4

----------------------------------------
(* Lists of rows. *)

(* The recursive function RowsFor is defined by: the rows of the clients *)
(* among the first i of a list.                                          *)
KeptStep(list, clients, f, i) ==
  IF i = 0 THEN <<>>
  ELSE IF list[i].client \in clients THEN Append(f[i - 1], list[i])
  ELSE f[i - 1]

(* That function exists, for a list of any length: by induction on the *)
(* length.                                                             *)
LEMMA KeptExists ==
  ASSUME NEW list, NEW clients, NEW n \in Nat
  PROVE  \E f : f = [i \in 0..n |-> KeptStep(list, clients, f, i)]
<1> DEFINE Has == {m \in Nat : \E f : f = [i \in 0..m |-> KeptStep(list, clients, f, i)]}
<1>1. 0 \in Has
  <2>1. [j \in 0..0 |-> <<>>] = [i \in 0..0 |-> KeptStep(list, clients, [j \in 0..0 |-> <<>>], i)]
    BY DEF KeptStep
  <2> QED BY <2>1
<1>2. ASSUME NEW m \in Nat, m \in Has PROVE m + 1 \in Has
  <2>1. PICK f : f = [i \in 0..m |-> KeptStep(list, clients, f, i)]
    BY <1>2
  <2> DEFINE g == [i \in 0..m + 1 |-> IF i <= m THEN f[i] ELSE KeptStep(list, clients, f, m + 1)]
  <2>2. ASSUME NEW i \in 0..m + 1 PROVE g[i] = KeptStep(list, clients, g, i)
    <3>1. CASE i = 0
      <4>1. g[i] = f[i] /\ f[i] = KeptStep(list, clients, f, i)
        BY <2>1, <3>1
      <4> QED BY <3>1, <4>1 DEF KeptStep
    <3>2. CASE i # 0
      <4>1. i - 1 \in 0..m /\ g[i - 1] = f[i - 1]
        BY <3>2
      <4>2. KeptStep(list, clients, g, i) = KeptStep(list, clients, f, i)
        BY <3>2, <4>1 DEF KeptStep
      <4>3. g[i] = KeptStep(list, clients, f, i)
        <5>1. CASE i <= m
          <6>1. i \in 0..m /\ g[i] = f[i]
            BY <5>1
          <6>2. f[i] = KeptStep(list, clients, f, i)
            BY <2>1, <6>1
          <6> QED BY <6>1, <6>2
        <5>2. CASE i = m + 1
          BY <5>2
        <5> QED BY <5>1, <5>2
      <4> QED BY <4>2, <4>3
    <3> QED BY <3>1, <3>2
  <2>3. g = [i \in 0..m + 1 |-> KeptStep(list, clients, g, i)]
    <3>1. g = [i \in 0..m + 1 |-> g[i]]
      OBVIOUS
    <3> HIDE DEF g
    <3> QED BY <2>2, <3>1, Zenon
  <2>4. m + 1 \in Nat
    OBVIOUS
  <2> HIDE DEF g
  <2> QED BY <2>3, <2>4, Zenon
<1>3. Nat \subseteq Has
  <2> HIDE DEF Has
  <2> QED BY <1>1, <1>2, SetInduction
<1> QED BY <1>3

(* RowsFor is the last value of that function. *)
LEMMA RowsForFunction ==
  ASSUME NEW list, NEW clients, Len(list) \in Nat
  PROVE  \E f : /\ RowsFor(list, clients) = f[Len(list)]
                /\ \A i \in 0..Len(list) : f[i] = KeptStep(list, clients, f, i)
<1> DEFINE f == CHOOSE f : f = [i \in 0..Len(list) |-> KeptStep(list, clients, f, i)]
<1>1. f = [i \in 0..Len(list) |-> KeptStep(list, clients, f, i)]
  BY KeptExists
<1>2. RowsFor(list, clients) = f[Len(list)]
  BY DEF RowsFor, KeptStep
<1> HIDE DEF f
<1>3. \A i \in 0..Len(list) : f[i] = KeptStep(list, clients, f, i)
  BY <1>1
<1> QED BY <1>2, <1>3

(* RowsFor (the batch's filter of the requests that go on) keeps the rows *)
(* of these clients and no other, each once.                              *)
LEMMA RowsForProperties ==
  ASSUME NEW R, NEW list \in Seq(R), NEW clients
  PROVE  /\ RowsFor(list, clients) \in Seq(R)
         /\ Len(RowsFor(list, clients)) <= Len(list)
         /\ \A j \in DOMAIN RowsFor(list, clients) : \E i \in DOMAIN list :
              RowsFor(list, clients)[j] = list[i] /\ list[i].client \in clients
         /\ OfRows(RowsFor(list, clients)) = OfRows(list) \cap clients
         /\ OneRowEach(list) => OneRowEach(RowsFor(list, clients))
<1>1. Len(list) \in Nat /\ DOMAIN list = 1..Len(list) /\ \A i \in 1..Len(list) : list[i] \in R
  BY LenProperties, ElementOfSeq
<1>2. PICK f : /\ RowsFor(list, clients) = f[Len(list)]
               /\ \A i \in 0..Len(list) : f[i] = KeptStep(list, clients, f, i)
  BY <1>1, RowsForFunction
<1> DEFINE Right(n) ==
      /\ f[n] \in Seq(R)
      /\ Len(f[n]) <= n
      /\ \A j \in 1..Len(f[n]) : \E i \in 1..n : f[n][j] = list[i] /\ list[i].client \in clients
      /\ \A i \in 1..n : list[i].client \in clients => \E j \in 1..Len(f[n]) : f[n][j] = list[i]
      /\ OneRowEach(list) => \A i, j \in 1..Len(f[n]) : f[n][i].client = f[n][j].client => i = j
    Goes == {n \in Nat : n <= Len(list) => Right(n)}
<1>3. 0 \in Goes
  <2>1. f[0] = <<>>
    BY <1>1, <1>2 DEF KeptStep
  <2>2. <<>> \in Seq(R) /\ Len(<<>>) = 0
    BY EmptySeq
  <2>3. 1..Len(f[0]) = {} /\ 1..0 = {}
    BY <2>1, <2>2
  <2>4. Right(0)
    BY <2>1, <2>2, <2>3
  <2> HIDE DEF Right
  <2> QED BY <2>4
<1>4. ASSUME NEW m \in Nat, m \in Goes PROVE m + 1 \in Goes
  <2> SUFFICES ASSUME m + 1 <= Len(list) PROVE Right(m + 1)
    OBVIOUS
  <2>1. Right(m)
    BY <1>1, <1>4
  <2>2. f[m + 1] = IF list[m + 1].client \in clients THEN Append(f[m], list[m + 1]) ELSE f[m]
    <3>1. m + 1 \in 0..Len(list) /\ m + 1 # 0 /\ (m + 1) - 1 = m
      BY <1>1
    <3>2. f[m + 1] = KeptStep(list, clients, f, m + 1)
      BY <1>2, <3>1
    <3> QED BY <3>1, <3>2 DEF KeptStep
  <2>3. list[m + 1] \in R
    BY <1>1
  <2>4. CASE list[m + 1].client \notin clients
    <3>1. f[m + 1] = f[m]
      BY <2>2, <2>4
    <3>2. \A i \in 1..m + 1 : i \in 1..m \/ i = m + 1
      OBVIOUS
    <3>3. 1..m \subseteq 1..m + 1 /\ \A n \in Nat : n <= m => n <= m + 1
      OBVIOUS
    <3>4. Len(f[m]) \in Nat
      BY <2>1, LenProperties
    <3>5. \A i \in 1..m + 1 : list[i].client \in clients =>
            \E j \in 1..Len(f[m]) : f[m][j] = list[i]
      BY <2>1, <2>4, <3>2
    <3>6. \A j \in 1..Len(f[m]) :
            \E i \in 1..m + 1 : f[m][j] = list[i] /\ list[i].client \in clients
      BY <2>1, <3>3
    <3>7. f[m] \in Seq(R) /\ Len(f[m]) <= m + 1
          /\ (OneRowEach(list) =>
                \A i, j \in 1..Len(f[m]) : f[m][i].client = f[m][j].client => i = j)
      BY <2>1, <3>3, <3>4
    <3> QED BY <3>1, <3>5, <3>6, <3>7
  <2>5. CASE list[m + 1].client \in clients
    <3> DEFINE n == Len(f[m])
               k == f[m + 1]
    <3>1. n \in Nat /\ n <= m
      BY <2>1, LenProperties
    <3>2. /\ k \in Seq(R) /\ Len(k) = n + 1
          /\ \A j \in 1..n : k[j] = f[m][j]
          /\ k[n + 1] = list[m + 1]
      BY <2>1, <2>2, <2>3, <2>5, AppendProperties
    <3> HIDE DEF k
    <3>3. \A j \in 1..n + 1 : \E i \in 1..m + 1 : k[j] = list[i] /\ list[i].client \in clients
      <4> SUFFICES ASSUME NEW j \in 1..n + 1
                   PROVE  \E i \in 1..m + 1 : k[j] = list[i] /\ list[i].client \in clients
        OBVIOUS
      <4>1. CASE j = n + 1
        BY <2>5, <3>2, <4>1
      <4>2. CASE j # n + 1
        <5>1. j \in 1..n /\ 1..m \subseteq 1..m + 1
          BY <3>1, <4>2
        <5> QED BY <2>1, <3>2, <5>1
      <4> QED BY <4>1, <4>2
    <3>4. ASSUME NEW i \in 1..m + 1, list[i].client \in clients
          PROVE  \E j \in 1..n + 1 : k[j] = list[i]
      <4>1. CASE i = m + 1
        BY <3>1, <3>2, <4>1
      <4>2. CASE i # m + 1
        <5>1. i \in 1..m /\ 1..n \subseteq 1..n + 1
          BY <3>1, <4>2
        <5>2. PICK j \in 1..n : f[m][j] = list[i]
          BY <2>1, <3>4, <5>1
        <5> QED BY <3>2, <5>1, <5>2
      <4> QED BY <4>1, <4>2
    <3>5. ASSUME OneRowEach(list), NEW i \in 1..n + 1, NEW j \in 1..n + 1,
                 k[i].client = k[j].client
          PROVE  i = j
      <4>1. ASSUME NEW a \in 1..n PROVE k[a].client # list[m + 1].client
        <5>1. PICK b \in 1..m : f[m][a] = list[b]
          BY <2>1
        <5>2. b \in DOMAIN list /\ m + 1 \in DOMAIN list /\ b # m + 1
          BY <1>1
        <5> QED BY <3>2, <3>5, <5>1, <5>2 DEF OneRowEach
      <4>2. CASE i \in 1..n /\ j \in 1..n
        BY <2>1, <3>2, <3>5, <4>2
      <4>3. CASE i = n + 1 /\ j = n + 1
        BY <4>3
      <4>4. CASE i = n + 1 /\ j \in 1..n
        BY <3>2, <3>5, <4>1, <4>4
      <4>5. CASE i \in 1..n /\ j = n + 1
        BY <3>2, <3>5, <4>1, <4>5
      <4>6. \A x \in 1..n + 1 : x \in 1..n \/ x = n + 1
        BY <3>1
      <4> QED BY <4>2, <4>3, <4>4, <4>5, <4>6
    <3>6. k \in Seq(R) /\ Len(k) <= m + 1
      BY <3>1, <3>2
    <3>7. OneRowEach(list) => \A i, j \in 1..n + 1 : k[i].client = k[j].client => i = j
      BY <3>5
    <3>8. \A i \in 1..m + 1 : list[i].client \in clients => \E j \in 1..n + 1 : k[j] = list[i]
      BY <3>4
    <3>9. Len(k) = n + 1
      BY <3>2
    <3> HIDE DEF n
    <3>10. /\ k \in Seq(R) /\ Len(k) <= m + 1
           /\ \A j \in 1..Len(k) : \E i \in 1..m + 1 : k[j] = list[i] /\ list[i].client \in clients
           /\ \A i \in 1..m + 1 : list[i].client \in clients => \E j \in 1..Len(k) : k[j] = list[i]
           /\ OneRowEach(list) => \A i, j \in 1..Len(k) : k[i].client = k[j].client => i = j
      BY <3>3, <3>6, <3>7, <3>8, <3>9
    <3> QED BY <3>10 DEF k
  <2> QED BY <2>4, <2>5
<1>5. Right(Len(list))
  <2> HIDE DEF Right
  <2>1. Nat \subseteq Goes
    <3> HIDE DEF Goes
    <3> QED BY <1>3, <1>4, SetInduction
  <2> QED BY <1>1, <2>1
<1> HIDE DEF Goes
<1> DEFINE k == RowsFor(list, clients)
<1>6. /\ k \in Seq(R) /\ Len(k) <= Len(list)
      /\ \A j \in 1..Len(k) : \E i \in 1..Len(list) : k[j] = list[i] /\ list[i].client \in clients
      /\ \A i \in 1..Len(list) : list[i].client \in clients => \E j \in 1..Len(k) : k[j] = list[i]
      /\ OneRowEach(list) => \A i, j \in 1..Len(k) : k[i].client = k[j].client => i = j
  BY <1>2, <1>5
<1> HIDE DEF k, Right
<1>7. DOMAIN k = 1..Len(k)
  BY <1>6, LenProperties
<1>8. OfRows(k) = OfRows(list) \cap clients
  <2>1. ASSUME NEW c \in OfRows(k) PROVE c \in OfRows(list) /\ c \in clients
    <3>1. PICK j \in 1..Len(k) : k[j].client = c
      BY <1>7 DEF OfRows
    <3>2. PICK i \in 1..Len(list) : k[j] = list[i] /\ list[i].client \in clients
      BY <1>6
    <3> QED BY <1>1, <3>1, <3>2 DEF OfRows
  <2>2. ASSUME NEW c \in OfRows(list), c \in clients PROVE c \in OfRows(k)
    <3>1. PICK i \in 1..Len(list) : list[i].client = c
      BY <1>1 DEF OfRows
    <3>2. PICK j \in 1..Len(k) : k[j] = list[i]
      BY <1>6, <2>2, <3>1
    <3> QED BY <1>7, <3>1, <3>2 DEF OfRows
  <2> QED BY <2>1, <2>2
<1>9. OneRowEach(list) => OneRowEach(k)
  BY <1>6, <1>7 DEF OneRowEach
<1>10. /\ k \in Seq(R)
       /\ Len(k) <= Len(list)
       /\ \A j \in DOMAIN k : \E i \in DOMAIN list : k[j] = list[i] /\ list[i].client \in clients
  BY <1>1, <1>6, <1>7
<1> QED BY <1>8, <1>9, <1>10 DEF k

(* A row put at the end of a list of rows. *)
LEMMA RowAppended ==
  ASSUME NEW list \in Seq(RowRecords), NEW row \in RowRecords, OneRowEach(list),
         row.client \notin OfRows(list)
  PROVE  /\ Append(list, row) \in Seq(RowRecords) /\ OneRowEach(Append(list, row))
         /\ OfRows(Append(list, row)) = OfRows(list) \cup {row.client}
<1> DEFINE n == Len(list)
           t == Append(list, row)
<1>1. n \in Nat /\ DOMAIN list = 1..n
  BY LenProperties
<1>2. t \in Seq(RowRecords) /\ Len(t) = n + 1 /\ (\A i \in 1..n : t[i] = list[i]) /\ t[n + 1] = row
  BY AppendProperties
<1> HIDE DEF t, n
<1>3. DOMAIN t = 1..n + 1
  BY <1>2, LenProperties
<1>4. /\ \A i \in 1..n + 1 : i \in 1..n \/ i = n + 1
      /\ 1..n \subseteq 1..n + 1 /\ n + 1 \in 1..n + 1
  BY <1>1
<1>5. \A i \in 1..n : list[i].client # row.client
  BY <1>1 DEF OfRows
<1>6. OneRowEach(t)
  BY <1>1, <1>2, <1>3, <1>4, <1>5 DEF OneRowEach
<1>7. OfRows(t) = OfRows(list) \cup {row.client}
  <2>1. \A x \in OfRows(t) : x \in OfRows(list) \cup {row.client}
    BY <1>1, <1>2, <1>3, <1>4 DEF OfRows
  <2>2. \A x \in OfRows(list) \cup {row.client} : x \in OfRows(t)
    BY <1>1, <1>2, <1>3, <1>4 DEF OfRows
  <2> QED BY <2>1, <2>2
<1> QED BY <1>2, <1>6, <1>7 DEF t

(* Two lists of rows, one behind the other. *)
LEMMA RowsConcat ==
  ASSUME NEW a \in Seq(RowRecords), NEW b \in Seq(RowRecords)
  PROVE  /\ a \o b \in Seq(RowRecords) /\ OfRows(a \o b) = OfRows(a) \cup OfRows(b)
         /\ Len(a \o b) = Len(a) + Len(b)
         /\ OneRowEach(a) /\ OneRowEach(b) /\ OfRows(a) \cap OfRows(b) = {} =>
              OneRowEach(a \o b)
         /\ \A i \in DOMAIN (a \o b) :
              \/ \E j \in DOMAIN a : (a \o b)[i] = a[j]
              \/ \E j \in DOMAIN b : (a \o b)[i] = b[j]
<1> DEFINE n == Len(a)
           m == Len(b)
           t == a \o b
<1>1. n \in Nat /\ DOMAIN a = 1..n /\ m \in Nat /\ DOMAIN b = 1..m
  BY LenProperties
<1>2. /\ t \in Seq(RowRecords) /\ Len(t) = n + m
      /\ \A i \in 1..n + m : t[i] = IF i <= n THEN a[i] ELSE b[i - n]
  BY ConcatProperties
<1> HIDE DEF t, n, m
<1>3. DOMAIN t = 1..n + m
  BY <1>2, LenProperties
<1>4. \A i \in 1..n + m : \/ i \in 1..n /\ t[i] = a[i]
                          \/ i \notin 1..n /\ i - n \in 1..m /\ t[i] = b[i - n]
  BY <1>1, <1>2
<1>5. /\ \A i \in 1..n : i \in 1..n + m /\ t[i] = a[i]
      /\ \A i \in 1..m : n + i \in 1..n + m /\ t[n + i] = b[i]
  <2>1. ASSUME NEW i \in 1..n PROVE i \in 1..n + m /\ t[i] = a[i]
    BY <1>1, <1>2
  <2>2. ASSUME NEW i \in 1..m PROVE n + i \in 1..n + m /\ t[n + i] = b[i]
    <3>1. n + i \in 1..n + m /\ ~(n + i <= n) /\ n + i - n = i
      BY <1>1
    <3>2. PICK j \in 1..n + m : j = n + i
      BY <3>1
    <3>3. t[j] = IF j <= n THEN a[j] ELSE b[j - n]
      BY <1>2
    <3>4. ~(j <= n) /\ j - n = i
      BY <1>1, <3>2
    <3>5. t[j] = b[i]
      BY <3>3, <3>4
    <3> QED BY <3>2, <3>5
  <2> QED BY <2>1, <2>2
<1>6. OfRows(t) = OfRows(a) \cup OfRows(b)
  <2>1. \A x \in OfRows(t) : x \in OfRows(a) \cup OfRows(b)
    BY <1>1, <1>3, <1>4 DEF OfRows
  <2>2. \A x \in OfRows(a) : x \in OfRows(t)
    BY <1>1, <1>3, <1>5 DEF OfRows
  <2>3. \A x \in OfRows(b) : x \in OfRows(t)
    BY <1>1, <1>3, <1>5 DEF OfRows
  <2> QED BY <2>1, <2>2, <2>3
<1>7. ASSUME OneRowEach(a), OneRowEach(b), OfRows(a) \cap OfRows(b) = {},
             NEW i \in 1..n + m, NEW j \in 1..n + m, t[i].client = t[j].client
      PROVE  i = j
  <2>1. CASE i \in 1..n /\ j \in 1..n
    BY <1>1, <1>5, <1>7, <2>1 DEF OneRowEach
  <2>2. CASE i \notin 1..n /\ j \notin 1..n
    <3>1. i - n \in 1..m /\ j - n \in 1..m /\ b[i - n].client = b[j - n].client
      BY <1>4, <1>7, <2>2
    <3>2. i - n = j - n
      BY <1>1, <1>7, <3>1 DEF OneRowEach
    <3> QED BY <1>1, <3>2
  <2>3. ASSUME NEW k \in 1..n, NEW l \in 1..m PROVE a[k].client # b[l].client
    BY <1>1, <1>7 DEF OfRows
  <2> QED BY <1>4, <1>7, <2>1, <2>2, <2>3
<1>8. OneRowEach(a) /\ OneRowEach(b) /\ OfRows(a) \cap OfRows(b) = {} => OneRowEach(t)
  <2> SUFFICES ASSUME OneRowEach(a), OneRowEach(b), OfRows(a) \cap OfRows(b) = {}
               PROVE  OneRowEach(t)
    OBVIOUS
  <2> QED BY <1>3, <1>7 DEF OneRowEach
<1>9. \A i \in DOMAIN t : \/ \E j \in DOMAIN a : t[i] = a[j]
                          \/ \E j \in DOMAIN b : t[i] = b[j]
  BY <1>1, <1>3, <1>4
<1> QED BY <1>2, <1>6, <1>8, <1>9 DEF t, n, m

(* A list of rows cut in two, as the generator takes prompts from those *)
(* that wait.                                                           *)
LEMMA RowsCut ==
  ASSUME NEW list \in Seq(RowRecords), OneRowEach(list), NEW k \in 0..Len(list)
  PROVE  LET first == SubSeq(list, 1, k)
             rest  == SubSeq(list, k + 1, Len(list))
         IN  /\ first \in Seq(RowRecords) /\ rest \in Seq(RowRecords) /\ Len(first) = k
             /\ OneRowEach(first) /\ OneRowEach(rest)
             /\ OfRows(first) \cup OfRows(rest) = OfRows(list)
             /\ OfRows(first) \cap OfRows(rest) = {}
             /\ \A i \in DOMAIN first : \E j \in DOMAIN list : first[i] = list[j]
             /\ \A i \in DOMAIN rest : \E j \in DOMAIN list : rest[i] = list[j]
<1> DEFINE n     == Len(list)
           first == SubSeq(list, 1, k)
           rest  == SubSeq(list, k + 1, n)
<1>1. n \in Nat /\ DOMAIN list = 1..n
  BY LenProperties
<1>2. /\ first \in Seq(RowRecords) /\ Len(first) = k
      /\ \A i \in 1..k : first[i] = list[i]
  <2>1. 1 \in 1..n + 1 /\ k \in 0..n /\ (1 <= k => 1 \in 1..n)
    BY <1>1
  <2>2. \A i \in 1..k : i \in 1..n
    BY <1>1
  <2>3. /\ SubSeq(list, 1, k) \in Seq(RowRecords)
        /\ Len(SubSeq(list, 1, k)) = (IF 1 <= k THEN k - 1 + 1 ELSE 0)
        /\ \A i \in 1..k - 1 + 1 : SubSeq(list, 1, k)[i] = list[1 + i - 1]
    BY <1>1, <2>1, <2>2, SubSeqProperties, ElementOfSeq
  <2>4. k - 1 + 1 = k /\ (k = 0 \/ 1 <= k) /\ \A i \in 1..k : 1 + i - 1 = i
    BY <1>1
  <2> HIDE DEF first
  <2> QED BY <2>3, <2>4 DEF first
<1>3. /\ rest \in Seq(RowRecords) /\ Len(rest) = n - k
      /\ \A i \in 1..n - k : rest[i] = list[k + i]
  <2>1. k + 1 \in 1..n + 1 /\ n \in 0..n
    BY <1>1
  <2>2. \A i \in k + 1..n : i \in 1..n
    BY <1>1
  <2>3. /\ SubSeq(list, k + 1, n) \in Seq(RowRecords)
        /\ Len(SubSeq(list, k + 1, n)) = (IF k + 1 <= n THEN n - (k + 1) + 1 ELSE 0)
        /\ \A i \in 1..n - (k + 1) + 1 : SubSeq(list, k + 1, n)[i] = list[k + 1 + i - 1]
    BY <1>1, <2>1, <2>2, SubSeqProperties, ElementOfSeq
  <2>4. n - (k + 1) + 1 = n - k /\ (k + 1 <= n \/ n - k = 0)
        /\ \A i \in 1..n - k : k + 1 + i - 1 = k + i
    <3>1. n \in Nat /\ k \in 0..n
      BY <1>1
    <3> HIDE DEF n
    <3> QED BY <3>1
  <2> HIDE DEF n
  <2> QED BY <2>3, <2>4
<1> HIDE DEF n, first, rest
<1>4. DOMAIN first = 1..k /\ DOMAIN rest = 1..n - k
  BY <1>2, <1>3, LenProperties
<1>5. /\ \A i \in 1..k : i \in 1..n
      /\ \A i \in 1..n - k : k + i \in 1..n /\ k + i \notin 1..k
      /\ \A i \in 1..n : i \in 1..k \/ (i - k \in 1..n - k /\ k + (i - k) = i)
  BY <1>1 DEF n
<1>6. OneRowEach(first)
  BY <1>1, <1>2, <1>4, <1>5 DEF OneRowEach
<1>7. OneRowEach(rest)
  <2> SUFFICES ASSUME NEW i \in 1..n - k, NEW j \in 1..n - k, rest[i].client = rest[j].client
               PROVE  i = j
    BY <1>4 DEF OneRowEach
  <2>1. k + i = k + j
    BY <1>1, <1>3, <1>5 DEF OneRowEach
  <2> QED BY <1>1, <2>1
<1>8. \A x \in OfRows(list) : x \in OfRows(first) \cup OfRows(rest)
  <2> SUFFICES ASSUME NEW i \in 1..n PROVE list[i].client \in OfRows(first) \cup OfRows(rest)
    BY <1>1 DEF OfRows
  <2>1. CASE i \in 1..k
    BY <1>2, <1>4, <2>1 DEF OfRows
  <2>2. CASE i - k \in 1..n - k /\ k + (i - k) = i
    <3>1. rest[i - k] = list[i]
      BY <1>3, <2>2
    <3> QED BY <1>4, <2>2, <3>1 DEF OfRows
  <2> QED BY <1>5, <2>1, <2>2
<1>9. \A x \in OfRows(first) \cup OfRows(rest) : x \in OfRows(list)
  <2>1. \A x \in OfRows(first) : x \in OfRows(list)
    BY <1>1, <1>2, <1>4, <1>5 DEF OfRows
  <2>2. \A x \in OfRows(rest) : x \in OfRows(list)
    <3> SUFFICES ASSUME NEW i \in 1..n - k PROVE rest[i].client \in OfRows(list)
      BY <1>4 DEF OfRows
    <3>1. rest[i] = list[k + i] /\ k + i \in 1..n
      BY <1>3, <1>5
    <3> QED BY <1>1, <3>1 DEF OfRows
  <2> QED BY <2>1, <2>2
<1>10. OfRows(first) \cap OfRows(rest) = {}
  <2> SUFFICES ASSUME NEW i \in 1..k, NEW j \in 1..n - k, first[i].client = rest[j].client
               PROVE  FALSE
    BY <1>4 DEF OfRows
  <2>1. list[i].client = list[k + j].client /\ i \in 1..n /\ k + j \in 1..n
    BY <1>2, <1>3, <1>5
  <2>2. i = k + j
    BY <1>1, <2>1 DEF OneRowEach
  <2> QED BY <1>5, <2>2
<1>11. /\ \A i \in DOMAIN first : \E j \in DOMAIN list : first[i] = list[j]
       /\ \A i \in DOMAIN rest : \E j \in DOMAIN list : rest[i] = list[j]
  BY <1>1, <1>2, <1>3, <1>4, <1>5
<1>12. OfRows(first) \cup OfRows(rest) = OfRows(list)
  BY <1>8, <1>9
<1> QED BY <1>2, <1>3, <1>6, <1>7, <1>10, <1>11, <1>12 DEF first, rest, n

(* Feeding the rows of a list keeps their requests. *)
LEMMA RowsFed ==
  ASSUME NEW list \in Seq(RowRecords),
         \A i \in DOMAIN list : Fed(list[i]) \in RowRecords /\ Fed(list[i]).client = list[i].client
  PROVE  /\ [i \in DOMAIN list |-> Fed(list[i])] \in Seq(RowRecords)
         /\ OfRows([i \in DOMAIN list |-> Fed(list[i])]) = OfRows(list)
         /\ OneRowEach(list) => OneRowEach([i \in DOMAIN list |-> Fed(list[i])])
         /\ Len([i \in DOMAIN list |-> Fed(list[i])]) = Len(list)
<1> DEFINE t == [i \in DOMAIN list |-> Fed(list[i])]
           n == Len(list)
<1>1. n \in Nat /\ DOMAIN list = 1..n
  BY LenProperties
<1>2. /\ DOMAIN t = 1..n /\ \A i \in 1..n : t[i] \in RowRecords /\ t[i].client = list[i].client
  BY <1>1
<1>3. t = [i \in 1..n |-> t[i]]
  BY <1>1
<1> HIDE DEF t, n
<1>4. t \in Seq(RowRecords) /\ Len(t) = n
  <2>1. t \in [1..n -> RowRecords]
    BY <1>2, <1>3
  <2> QED BY <1>1, <2>1, SeqDef, LenProperties
<1>5. OfRows(t) = OfRows(list)
  BY <1>1, <1>2 DEF OfRows
<1>6. OneRowEach(list) => OneRowEach(t)
  BY <1>1, <1>2 DEF OneRowEach
<1> QED BY <1>4, <1>5, <1>6 DEF t, n

(* A list of rows is what TypeOK wants of it. *)
LEMMA RowsOkType ==
  ASSUME NEW list \in Seq(RowRecords)
  PROVE  RowsOk(list)
<1>1. \A i \in DOMAIN list : list[i] \in RowRecords
  BY LenProperties, ElementOfSeq
<1> QED BY <1>1 DEF RowsOk, RowRecords

(* A list with one row for each request is as long as there are requests *)
(* in it.                                                                *)
LEMMA CountRows ==
  ASSUME NEW list \in Seq(RowRecords), OneRowEach(list)
  PROVE  Len(list) = Cardinality(OfRows(list))
<1> DEFINE n == Len(list)
           f == [i \in 1..n |-> list[i].client]
<1>1. n \in Nat /\ DOMAIN list = 1..n
  BY LenProperties
<1>2. ExistsBijection(1..n, OfRows(list))
  <2>1. f \in [1..n -> OfRows(list)] /\ \A i \in 1..n : f[i] = list[i].client
    BY <1>1 DEF OfRows
  <2> HIDE DEF f, n
  <2>2. \A i, j \in 1..n : f[i] = f[j] => i = j
    BY <1>1, <2>1 DEF OneRowEach
  <2>3. \A c \in OfRows(list) : \E i \in 1..n : f[i] = c
    BY <1>1, <2>1 DEF OfRows
  <2>4. f \in Bijection(1..n, OfRows(list))
    BY <2>1, <2>2, <2>3 DEF Bijection, Injection, Surjection, IsInjective
  <2> QED BY <2>4 DEF ExistsBijection
<1>3. IsFiniteSet(1..n) /\ Cardinality(1..n) = n
  <2>1. 1 \in Int /\ n \in Int
    BY <1>1
  <2>2. IsFiniteSet(1..n) /\ Cardinality(1..n) = IF 1 > n THEN 0 ELSE n - 1 + 1
    BY <2>1, FS_Interval
  <2> HIDE DEF n
  <2>3. (IF 1 > n THEN 0 ELSE n - 1 + 1) = n
    BY <1>1
  <2> QED BY <2>2, <2>3
<1>4. Cardinality(OfRows(list)) = Cardinality(1..n)
  BY <1>2, <1>3, FS_Bijection
<1> QED BY <1>3, <1>4

----------------------------------------
(* Segments of a prompt, and their types. *)

(* The recursive function Total is defined by: the sum of the first i *)
(* segments.                                                          *)
SumStep(segments, sum, i) == IF i = 0 THEN 0 ELSE sum[i - 1] + segments[i]

(* That function exists, for segments of any number. *)
LEMMA SumExists ==
  ASSUME NEW segments, NEW n \in Nat
  PROVE  \E sum : sum = [i \in 0..n |-> SumStep(segments, sum, i)]
<1> DEFINE Has == {m \in Nat : \E sum : sum = [i \in 0..m |-> SumStep(segments, sum, i)]}
<1>1. 0 \in Has
  <2>1. [j \in 0..0 |-> 0] = [i \in 0..0 |-> SumStep(segments, [j \in 0..0 |-> 0], i)]
    BY DEF SumStep
  <2> QED BY <2>1
<1>2. ASSUME NEW m \in Nat, m \in Has PROVE m + 1 \in Has
  <2>1. PICK f : f = [i \in 0..m |-> SumStep(segments, f, i)]
    BY <1>2
  <2> DEFINE g == [i \in 0..m + 1 |-> IF i <= m THEN f[i] ELSE SumStep(segments, f, m + 1)]
  <2>2. ASSUME NEW i \in 0..m + 1 PROVE g[i] = SumStep(segments, g, i)
    <3>1. CASE i = 0
      <4>1. g[i] = f[i] /\ f[i] = SumStep(segments, f, i)
        BY <2>1, <3>1
      <4> QED BY <3>1, <4>1 DEF SumStep
    <3>2. CASE i # 0
      <4>1. i - 1 \in 0..m /\ g[i - 1] = f[i - 1]
        BY <3>2
      <4>2. SumStep(segments, g, i) = SumStep(segments, f, i)
        BY <3>2, <4>1 DEF SumStep
      <4>3. g[i] = SumStep(segments, f, i)
        <5>1. CASE i <= m
          <6>1. i \in 0..m /\ g[i] = f[i]
            BY <5>1
          <6>2. f[i] = SumStep(segments, f, i)
            BY <2>1, <6>1
          <6> QED BY <6>1, <6>2
        <5>2. CASE i = m + 1
          BY <5>2
        <5> QED BY <5>1, <5>2
      <4> QED BY <4>2, <4>3
    <3> QED BY <3>1, <3>2
  <2>3. g = [i \in 0..m + 1 |-> SumStep(segments, g, i)]
    <3>1. g = [i \in 0..m + 1 |-> g[i]]
      OBVIOUS
    <3> HIDE DEF g
    <3> QED BY <2>2, <3>1, Zenon
  <2>4. m + 1 \in Nat
    OBVIOUS
  <2> HIDE DEF g
  <2> QED BY <2>3, <2>4, Zenon
<1>3. Nat \subseteq Has
  <2> HIDE DEF Has
  <2> QED BY <1>1, <1>2, SetInduction
<1> QED BY <1>3

(* Total is the last value of that function. *)
LEMMA TotalFunction ==
  ASSUME NEW segments, Len(segments) \in Nat
  PROVE  \E sum : /\ Total(segments) = sum[Len(segments)]
                  /\ \A i \in 0..Len(segments) : sum[i] = SumStep(segments, sum, i)
<1> DEFINE f == CHOOSE f : f = [i \in 0..Len(segments) |-> SumStep(segments, f, i)]
<1>1. f = [i \in 0..Len(segments) |-> SumStep(segments, f, i)]
  BY SumExists
<1>2. Total(segments) = f[Len(segments)]
  BY DEF Total, SumStep
<1> HIDE DEF f
<1>3. \A i \in 0..Len(segments) : f[i] = SumStep(segments, f, i)
  BY <1>1
<1> QED BY <1>2, <1>3

(* Total and Upto are its values, naturals that grow by one segment each. *)
LEMMA UptoIsSum ==
  ASSUME NEW segments \in Seq(Nat)
  PROVE  \E sum : /\ sum[0] = 0 /\ Total(segments) = sum[Len(segments)]
                  /\ \A k \in 0..Len(segments) : sum[k] \in Nat /\ Upto(segments, k) = sum[k]
                  /\ \A k \in 1..Len(segments) : sum[k] = sum[k - 1] + segments[k]
<1>1. Len(segments) \in Nat /\ \A i \in 1..Len(segments) : segments[i] \in Nat
  BY LenProperties, ElementOfSeq
<1>2. PICK sum : /\ Total(segments) = sum[Len(segments)]
                 /\ \A i \in 0..Len(segments) : sum[i] = SumStep(segments, sum, i)
  BY <1>1, TotalFunction
<1>3. sum[0] = 0
  BY <1>1, <1>2 DEF SumStep
<1>4. \A k \in 1..Len(segments) : sum[k] = sum[k - 1] + segments[k]
  <2> SUFFICES ASSUME NEW k \in 1..Len(segments) PROVE sum[k] = sum[k - 1] + segments[k]
    OBVIOUS
  <2>1. k \in 0..Len(segments) /\ k # 0
    BY <1>1
  <2>2. sum[k] = SumStep(segments, sum, k)
    BY <1>2, <2>1
  <2> QED BY <2>1, <2>2 DEF SumStep
<1>5. ASSUME NEW k \in 0..Len(segments) PROVE sum[k] \in Nat /\ Upto(segments, k) = sum[k]
  <2> DEFINE part == SubSeq(segments, 1, k)
  <2>1. Len(part) = k /\ k \in Nat /\ \A i \in 1..k : part[i] = segments[i] /\ i \in 1..Len(segments)
    <3>1. \A i \in 1..k : segments[i] \in Nat
      BY <1>1
    <3>2. k \in Nat /\ k <= Len(segments)
      BY <1>1
    <3>3. Len(part) = k /\ \A i \in 1..k : part[i] = segments[i]
      BY <3>1, <3>2, <1>1, SubSeqProperties
    <3> QED BY <3>2, <3>3, <1>1
  <2> HIDE DEF part
  <2>2. PICK own : /\ Total(part) = own[k]
                   /\ \A i \in 0..k : own[i] = SumStep(part, own, i)
    BY <2>1, TotalFunction
  <2> DEFINE Agree == {n \in Nat : n <= k => own[n] = sum[n] /\ sum[n] \in Nat}
  <2>3. 0 \in Agree
    <3>1. 0 \in 0..k
      BY <2>1
    <3>2. own[0] = 0
      BY <2>2, <3>1 DEF SumStep
    <3> QED BY <3>2, <1>3
  <2>4. ASSUME NEW n \in Nat, n \in Agree PROVE n + 1 \in Agree
    <3> SUFFICES ASSUME n + 1 <= k PROVE own[n + 1] = sum[n + 1] /\ sum[n + 1] \in Nat
      OBVIOUS
    <3>1. n + 1 \in 1..k /\ n + 1 \in 0..k /\ n + 1 # 0 /\ n + 1 - 1 = n /\ n <= k
      BY <2>1
    <3>2. own[n + 1] = SumStep(part, own, n + 1)
      BY <2>2, <3>1
    <3>3. own[n + 1] = own[n] + part[n + 1]
      BY <3>1, <3>2 DEF SumStep
    <3>4. part[n + 1] = segments[n + 1] /\ n + 1 \in 1..Len(segments)
      BY <2>1, <3>1
    <3>5. sum[n + 1] = sum[n] + segments[n + 1] /\ segments[n + 1] \in Nat
      BY <1>1, <1>4, <3>1, <3>4
    <3>6. own[n] = sum[n] /\ sum[n] \in Nat
      BY <2>4, <3>1
    <3> QED BY <3>3, <3>4, <3>5, <3>6
  <2>5. k \in Agree
    <3> HIDE DEF Agree
    <3> QED BY <2>1, <2>3, <2>4, SetInduction
  <2> QED BY <2>1, <2>2, <2>5 DEF Upto, part
<1> QED BY <1>2, <1>3, <1>4, <1>5

(* Covered, in _make_batchable_segments: the cache covers a first part of *)
(* the segments, and ends in the next one.                                *)
LEMMA CoveredProperties ==
  ASSUME NEW segments \in Seq(Nat), NEW cached \in Nat, cached < Total(segments)
  PROVE  /\ Covered(segments, cached) \in 0..Len(segments) - 1
         /\ Upto(segments, Covered(segments, cached)) <= cached
         /\ cached < Upto(segments, Covered(segments, cached) + 1)
<1> DEFINE n == Len(segments)
<1>1. n \in Nat /\ \A i \in 1..n : segments[i] \in Nat
  BY LenProperties, ElementOfSeq
<1>2. PICK sum : /\ sum[0] = 0 /\ Total(segments) = sum[n]
                 /\ \A k \in 0..n : sum[k] \in Nat /\ Upto(segments, k) = sum[k]
                 /\ \A k \in 1..n : sum[k] = sum[k - 1] + segments[k]
  BY UptoIsSum
<1> DEFINE Beyond == {i \in Nat : i <= n /\ sum[i] > cached}
<1>3. n \in Beyond
  BY <1>1, <1>2
<1>4. PICK x \in Beyond : \A y \in Beyond : x <= y
  BY <1>3, LeastOf
<1>5. x \in 1..n /\ x - 1 \in 0..n - 1
  BY <1>1, <1>2, <1>4
<1>6. \A i \in 1..x - 1 : sum[i] <= cached
  <2> SUFFICES ASSUME NEW i \in 1..x - 1 PROVE sum[i] <= cached
    OBVIOUS
  <2>1. i \in Nat /\ i <= n /\ i \in 0..n /\ ~(x <= i)
    BY <1>1, <1>5
  <2>2. sum[i] \in Nat /\ i \notin Beyond
    BY <1>2, <1>4, <2>1
  <2> QED BY <2>1, <2>2
<1>7. \A i \in x..n : sum[i] > cached
  <2> DEFINE Goes == {d \in Nat : x + d <= n => sum[x + d] > cached}
  <2>1. 0 \in Goes
    BY <1>4
  <2>2. ASSUME NEW d \in Nat, d \in Goes PROVE d + 1 \in Goes
    <3> SUFFICES ASSUME x + (d + 1) <= n PROVE sum[x + (d + 1)] > cached
      OBVIOUS
    <3>1. x + (d + 1) \in 1..n /\ x + d \in 0..n /\ x + (d + 1) - 1 = x + d /\ x + d <= n
      BY <1>1, <1>5
    <3>2. sum[x + (d + 1)] = sum[x + d] + segments[x + (d + 1)]
      BY <1>2, <3>1
    <3>3. sum[x + d] \in Nat /\ segments[x + (d + 1)] \in Nat /\ sum[x + d] > cached
      BY <1>1, <1>2, <2>2, <3>1
    <3> QED BY <3>2, <3>3
  <2>3. Nat \subseteq Goes
    <3> HIDE DEF Goes
    <3> QED BY <2>1, <2>2, SetInduction
  <2> SUFFICES ASSUME NEW i \in x..n PROVE sum[i] > cached
    OBVIOUS
  <2>4. i - x \in Nat /\ x + (i - x) = i /\ i <= n
    BY <1>1, <1>5
  <2> QED BY <2>3, <2>4
<1>8. {i \in DOMAIN segments : Total(SubSeq(segments, 1, i)) <= cached} = 1..x - 1
  <2>1. DOMAIN segments = 1..n
    BY LenProperties
  <2>2. \A i \in 1..n : Total(SubSeq(segments, 1, i)) = sum[i]
    <3>1. \A i \in 1..n : i \in 0..n
      BY <1>1
    <3> QED BY <1>2, <3>1 DEF Upto
  <2>3. \A i \in 1..n : i \in x..n \/ i \in 1..x - 1
    BY <1>1, <1>5
  <2>4. \A i \in 1..x - 1 : i \in 1..n
    BY <1>1, <1>5
  <2>5. \A i \in 1..n : sum[i] <= cached <=> i \in 1..x - 1
    <3> SUFFICES ASSUME NEW i \in 1..n PROVE sum[i] <= cached <=> i \in 1..x - 1
      OBVIOUS
    <3>1. sum[i] \in Nat
      BY <1>1, <1>2
    <3>2. i \in x..n => sum[i] > cached
      BY <1>7
    <3>3. i \in 1..x - 1 => sum[i] <= cached
      BY <1>6
    <3> QED BY <2>3, <3>1, <3>2, <3>3
  <2> HIDE DEF Beyond, n
  <2> QED BY <2>1, <2>2, <2>4, <2>5
<1>9. Covered(segments, cached) = x - 1
  <2>1. Cardinality(1..x - 1) = x - 1
    <3>1. 1 \in Int /\ x - 1 \in Int /\ (1 > x - 1 => x - 1 = 0)
      BY <1>5
    <3>2. Cardinality(1..x - 1) = IF 1 > x - 1 THEN 0 ELSE x - 1 - 1 + 1
      BY <3>1, FS_Interval
    <3> QED BY <3>1, <3>2
  <2> QED BY <1>8, <2>1 DEF Covered
<1>10. Upto(segments, x - 1) = sum[x - 1] /\ Upto(segments, x - 1 + 1) = sum[x]
  <2>1. x - 1 \in 0..n /\ x \in 0..n /\ x - 1 + 1 = x
    BY <1>1, <1>5
  <2> QED BY <1>2, <2>1
<1>11. sum[x - 1] <= cached /\ cached < sum[x]
  <2>1. sum[x] > cached /\ sum[x] \in Nat
    BY <1>1, <1>2, <1>4, <1>5
  <2>2. CASE x = 1
    BY <1>2, <2>1, <2>2
  <2>3. CASE x # 1
    <3>1. x - 1 \in 1..x - 1
      BY <1>5, <2>3
    <3> QED BY <1>6, <2>1, <3>1
  <2> QED BY <2>2, <2>3
<1> QED BY <1>5, <1>9, <1>10, <1>11

(* LastApart splits the last token of a prompt off, unless it is apart *)
(* already: the batch generator wants it as a segment of its own.      *)
LEMMA LastApartProperties ==
  ASSUME NEW s \in Seq(Nat \ {0}), s # <<>>
  PROVE  /\ LastApart(s) \in Seq(Nat \ {0}) /\ LastApart(s) # <<>>
         /\ s[Len(s)] = 1 => LastApart(s) = s
         /\ s[Len(s)] # 1 => /\ Len(LastApart(s)) = Len(s) + 1
                             /\ LastApart(s)[Len(s)] = s[Len(s)] - 1
                             /\ LastApart(s)[Len(s) + 1] = 1
                             /\ \A i \in 1..Len(s) - 1 : LastApart(s)[i] = s[i]
<1> DEFINE a == LastApart(s)
           L == Len(s)
<1>1. L \in Nat \ {0} /\ \A i \in 1..L : s[i] \in Nat \ {0}
  BY EmptySeq, ElementOfSeq
<1>2. L \in 1..L /\ s[L] \in Nat \ {0} /\ Last(s) = s[L]
  BY <1>1 DEF Last
<1>3. CASE s[L] = 1
  BY <1>2, <1>3 DEF LastApart
<1>4. CASE s[L] # 1
  <2> DEFINE front == SubSeq(s, 1, L - 1)
             cut   == <<s[L] - 1, 1>>
  <2>1. a = front \o cut
    BY <1>2, <1>4 DEF LastApart, Front
  <2>2. front \in Seq(Nat \ {0}) /\ Len(front) = L - 1 /\ \A i \in 1..L - 1 : front[i] = s[i]
    <3>1. \A i \in 1..L - 1 : s[i] \in Nat \ {0}
      BY <1>1
    <3>2. 1 \in Int /\ L - 1 \in Int /\ (1 > L - 1 => L - 1 = 0) /\ L - 1 - 1 + 1 = L - 1
      <4> HIDE DEF L
      <4> QED BY <1>1
    <3>3. /\ front \in Seq(Nat \ {0})
          /\ Len(front) = IF 1 <= L - 1 THEN L - 1 - 1 + 1 ELSE 0
          /\ \A i \in 1..L - 1 - 1 + 1 : front[i] = s[1 + i - 1]
      BY <3>1, <3>2, SubSeqProperties
    <3>4. \A i \in 1..L - 1 : 1 + i - 1 = i
      OBVIOUS
    <3> HIDE DEF front, L
    <3> QED BY <3>2, <3>3, <3>4
  <2>3. cut \in Seq(Nat \ {0}) /\ Len(cut) = 2 /\ cut[1] = s[L] - 1 /\ cut[2] = 1
    BY <1>2, <1>4
  <2> HIDE DEF front, cut
  <2>4. /\ a \in Seq(Nat \ {0}) /\ Len(a) = L - 1 + 2
        /\ \A i \in 1..L - 1 + 2 : a[i] = IF i <= L - 1 THEN front[i] ELSE cut[i - (L - 1)]
    <3>1. front \in Seq(Nat \ {0}) /\ cut \in Seq(Nat \ {0})
      BY <2>2, <2>3
    <3>2. /\ front \o cut \in Seq(Nat \ {0}) /\ Len(front \o cut) = Len(front) + Len(cut)
          /\ \A i \in 1..Len(front) + Len(cut) :
               (front \o cut)[i] = IF i <= Len(front) THEN front[i] ELSE cut[i - Len(front)]
      BY <3>1, ConcatProperties
    <3> HIDE DEF a, L
    <3> QED BY <2>1, <2>2, <2>3, <3>2
  <2> HIDE DEF a
  <2>5. Len(a) = L + 1 /\ a # <<>>
    BY <1>1, <2>4
  <2>6. a[L] = s[L] - 1 /\ a[L + 1] = 1
    <3>1. /\ L \in 1..L - 1 + 2 /\ ~(L <= L - 1) /\ L - (L - 1) = 1
          /\ L + 1 \in 1..L - 1 + 2 /\ ~(L + 1 <= L - 1) /\ L + 1 - (L - 1) = 2
      BY <1>1
    <3> QED BY <2>3, <2>4, <3>1
  <2>7. \A i \in 1..L - 1 : a[i] = s[i]
    <3>1. \A i \in 1..L - 1 : i \in 1..L - 1 + 2 /\ i <= L - 1
      <4> HIDE DEF L
      <4> QED BY <1>1
    <3> HIDE DEF L
    <3> QED BY <2>2, <2>4, <3>1
  <2> HIDE DEF L
  <2> QED BY <1>4, <2>4, <2>5, <2>6, <2>7 DEF a, L
<1> QED BY <1>3, <1>4

(* LastApart touches only the last of several segments. *)
LEMMA LastApartCons ==
  ASSUME NEW x \in Nat \ {0}, NEW rest \in Seq(Nat \ {0})
  PROVE  /\ LastApart(<<x>> \o rest) \in Seq(Nat \ {0}) /\ LastApart(<<x>> \o rest) # <<>>
         /\ rest # <<>> => /\ Head(LastApart(<<x>> \o rest)) = x
                           /\ Tail(LastApart(<<x>> \o rest)) = LastApart(rest)
         /\ rest = <<>> /\ x # 1 => /\ Head(LastApart(<<x>> \o rest)) = x - 1
                                   /\ Tail(LastApart(<<x>> \o rest)) = <<1>>
         /\ rest = <<>> /\ x = 1 => LastApart(<<x>> \o rest) = <<1>>
<1> DEFINE s == <<x>> \o rest
           a == LastApart(s)
           n == Len(rest)
<1>1. /\ n \in Nat /\ s \in Seq(Nat \ {0}) /\ Len(s) = n + 1
      /\ s[1] = x /\ \A i \in 1..n : s[i + 1] = rest[i]
  <2>1. <<x>> \in Seq(Nat \ {0}) /\ Len(<<x>>) = 1 /\ <<x>>[1] = x
    OBVIOUS
  <2>2. n \in Nat
    BY LenProperties
  <2>3. /\ s \in Seq(Nat \ {0}) /\ Len(s) = Len(<<x>>) + n
        /\ \A i \in 1..Len(<<x>>) + n :
             s[i] = IF i <= Len(<<x>>) THEN <<x>>[i] ELSE rest[i - Len(<<x>>)]
    BY <2>1, ConcatProperties
  <2> HIDE DEF s, n
  <2>4. Len(s) = n + 1 /\ \A i \in 1..n + 1 : s[i] = IF i <= 1 THEN x ELSE rest[i - 1]
    BY <2>1, <2>2, <2>3
  <2>5. 1 \in 1..n + 1 /\ \A i \in 1..n : i + 1 \in 1..n + 1 /\ ~(i + 1 <= 1) /\ i + 1 - 1 = i
    BY <2>2
  <2> QED BY <2>2, <2>3, <2>4, <2>5
<1> HIDE DEF s
<1>2. s # <<>>
  BY <1>1, EmptySeq
<1>3. /\ a \in Seq(Nat \ {0}) /\ a # <<>>
      /\ s[n + 1] = 1 => a = s
      /\ s[n + 1] # 1 => /\ Len(a) = n + 2 /\ a[n + 1] = s[n + 1] - 1 /\ a[n + 2] = 1
                         /\ \A i \in 1..n : a[i] = s[i]
  <2>1. /\ a \in Seq(Nat \ {0}) /\ a # <<>>
        /\ s[Len(s)] = 1 => a = s
        /\ s[Len(s)] # 1 => /\ Len(a) = Len(s) + 1 /\ a[Len(s)] = s[Len(s)] - 1
                            /\ a[Len(s) + 1] = 1 /\ \A i \in 1..Len(s) - 1 : a[i] = s[i]
    <3>1. s \in Seq(Nat \ {0})
      BY <1>1
    <3> QED BY <3>1, <1>2, LastApartProperties
  <2>2. n \in Nat /\ Len(s) = n + 1 /\ Len(s) + 1 = n + 2 /\ Len(s) - 1 = n
    <3>1. n \in Nat /\ Len(s) = n + 1
      BY <1>1
    <3> HIDE DEF n
    <3> QED BY <3>1
  <2> HIDE DEF a, n
  <2> QED BY <2>1, <2>2
<1> HIDE DEF a
<1>4. Head(a) = a[1] /\ Tail(a) \in Seq(Nat \ {0}) /\ Len(Tail(a)) = Len(a) - 1
      /\ \A i \in 1..Len(a) - 1 : Tail(a)[i] = a[i + 1]
  BY <1>3, HeadTailProperties
<1>5. CASE rest # <<>>
  <2> DEFINE b == LastApart(rest)
  <2>1. n \in Nat \ {0} /\ s[n + 1] = rest[n] /\ 1 \in 1..n
    <3>1. n \in Nat \ {0}
      BY <1>5, EmptySeq
    <3> HIDE DEF n
    <3> QED BY <1>1, <3>1
  <2>2. /\ b \in Seq(Nat \ {0}) /\ b # <<>>
        /\ rest[n] = 1 => b = rest
        /\ rest[n] # 1 => /\ Len(b) = n + 1 /\ b[n] = rest[n] - 1 /\ b[n + 1] = 1
                          /\ \A i \in 1..n - 1 : b[i] = rest[i]
    BY <1>5, LastApartProperties
  <2> HIDE DEF b
  <2>3. CASE rest[n] = 1
    <3>1. a = s /\ b = rest /\ Len(a) = n + 1
      BY <1>1, <1>3, <2>1, <2>2, <2>3
    <3>2. Len(Tail(a)) = n /\ \A i \in 1..n : Tail(a)[i] = rest[i]
      <4> HIDE DEF n
      <4>1. n + 1 - 1 = n
        BY <1>1
      <4> QED BY <1>1, <1>4, <3>1, <4>1
    <3>3. Tail(a) = b
      BY <1>4, <3>1, <3>2, SeqEqual
    <3>4. a[1] = x /\ Len(a) # 1
      <4>1. n \in Nat \ {0} /\ Len(a) = n + 1 /\ a = s /\ s[1] = x
        BY <1>1, <2>1, <3>1
      <4> HIDE DEF n
      <4> QED BY <4>1
    <3> QED BY <1>3, <1>4, <1>5, <3>3, <3>4 DEF a, s, b
  <2>4. CASE rest[n] # 1
    <3> HIDE DEF n
    <3>1. n \in Nat /\ n + 2 - 1 = n + 1 /\ n + 1 - 1 = n
      BY <1>1
    <3>2. /\ Len(a) = n + 2 /\ a[n + 1] = rest[n] - 1 /\ a[n + 2] = 1
          /\ \A i \in 1..n : a[i] = s[i]
      BY <1>3, <2>1, <2>4
    <3>3. Len(Tail(a)) = n + 1 /\ \A i \in 1..n + 1 : Tail(a)[i] = a[i + 1]
      BY <1>4, <3>1, <3>2
    <3>4. \A i \in 1..n + 1 : Tail(a)[i] = b[i]
      <4> SUFFICES ASSUME NEW i \in 1..n + 1 PROVE Tail(a)[i] = b[i]
        OBVIOUS
      <4>0. Tail(a)[i] = a[i + 1] /\ b[n] = rest[n] - 1 /\ b[n + 1] = 1
        BY <2>2, <2>4, <3>3
      <4>1. CASE i = n + 1
        <5>1. i + 1 = n + 2
          BY <3>1, <4>1
        <5> QED BY <3>2, <4>0, <4>1, <5>1
      <4>2. CASE i = n
        <5>1. i + 1 = n + 1
          BY <4>2
        <5> QED BY <3>2, <4>0, <4>2, <5>1
      <4>3. CASE i \in 1..n - 1
        <5>1. i + 1 \in 1..n /\ i \in 1..n
          BY <1>1, <4>3
        <5>2. a[i + 1] = rest[i]
          BY <1>1, <3>2, <5>1
        <5> QED BY <2>2, <2>4, <3>3, <4>3, <5>2
      <4>4. i = n + 1 \/ i = n \/ i \in 1..n - 1
        BY <3>1
      <4> QED BY <4>1, <4>2, <4>3, <4>4
    <3>5. Tail(a) = b
      <4>1. Len(Tail(a)) = Len(b)
        BY <2>2, <2>4, <3>3
      <4> QED BY <1>4, <2>2, <3>3, <3>4, <4>1, SeqEqual
    <3>6. a[1] = x /\ Len(a) # 1
      BY <1>1, <2>1, <3>2
    <3> QED BY <1>3, <1>4, <1>5, <3>5, <3>6 DEF a, s, b
  <2> QED BY <2>3, <2>4
<1>6. CASE rest = <<>>
  <2>1. n = 0 /\ n + 1 = 1
    BY <1>6, EmptySeq
  <2>2. CASE x = 1
    <3>1. a = s
      BY <1>1, <1>3, <2>1, <2>2
    <3>2. s = <<1>>
      BY <1>6, <2>2, ConcatEmptySeq DEF s
    <3> QED BY <1>3, <1>6, <2>2, <3>1, <3>2 DEF a, s
  <2>3. CASE x # 1
    <3>1. Len(a) = 2 /\ a[1] = x - 1 /\ a[2] = 1
      <4>1. s[n + 1] # 1 /\ s[n + 1] = x /\ n + 2 = 2
        BY <1>1, <2>1, <2>3
      <4> QED BY <1>3, <2>1, <4>1
    <3>2. Len(Tail(a)) = 1 /\ Tail(a)[1] = 1
      <4>1. Len(a) - 1 = 1 /\ 1 \in 1..1 /\ 1 + 1 = 2
        BY <3>1
      <4> QED BY <1>4, <3>1, <4>1
    <3>3. <<1>> \in Seq(Nat \ {0}) /\ Len(<<1>>) = 1 /\ \A i \in 1..1 : <<1>>[i] = 1
      OBVIOUS
    <3>4. Tail(a) = <<1>>
      <4>1. \A i \in 1..Len(Tail(a)) : Tail(a)[i] = <<1>>[i]
        BY <3>2, <3>3
      <4> QED BY <1>4, <3>2, <3>3, <4>1, SeqEqual
    <3>5. a # <<1>>
      BY <3>1, <3>3
    <3> QED BY <1>3, <1>4, <1>6, <2>3, <3>1, <3>4, <3>5 DEF a, s
  <2> QED BY <2>2, <2>3
<1> QED BY <1>5, <1>6

(* A counted token is the first or a later one. *)
LEMMA CountedType ==
  ASSUME tokens \in [Clients -> Nat], NEW c \in Clients
  PROVE  Counted(c) \in Nat \ {0} /\ Counted(c) > 0
<1>1. tokens[c] \in Nat
  OBVIOUS
<1> QED BY <1>1 DEF Counted

(* What KindsAssumption says of one request. *)
LEMMA KindProperties ==
  ASSUME NEW k \in Kinds
  PROVE  /\ k.segments \in Seq(Nat \ {0}) /\ k.segments \in Seq(Nat)
         /\ k.types \in Seq(STRING) /\ Len(k.types) = Len(k.segments)
         /\ Len(k.segments) \in Nat \ {0} /\ DOMAIN k.segments = 1..Len(k.segments)
<1>1. /\ k.segments \in Seq(Nat \ {0}) /\ k.segments # <<>>
      /\ k.types \in Seq(STRING) /\ Len(k.types) = Len(k.segments)
  BY KindsAssumption
<1>2. k.segments \in Seq(Nat)
  BY <1>1, SeqMonotonic
<1> QED BY <1>1, <1>2, EmptySeq, LenProperties

(* The length of a prompt is a natural number. *)
LEMMA TotalType ==
  ASSUME NEW k \in Kinds
  PROVE  Total(k.segments) \in Nat
<1>1. k.segments \in Seq(Nat)
  BY KindProperties
<1>2. PICK sum : /\ Total(k.segments) = sum[Len(k.segments)]
                 /\ \A i \in 0..Len(k.segments) : sum[i] \in Nat
  BY <1>1, UptoIsSum
<1>3. Len(k.segments) \in 0..Len(k.segments)
  BY KindProperties
<1> QED BY <1>2, <1>3

(* What is left of a prompt behind its first k segments: feeding one *)
(* segment leads to the rest of the next.                            *)
LEMMA LeftProperties ==
  ASSUME NEW segments \in Seq(Nat \ {0}), NEW k \in 0..Len(segments) - 1, NEW held \in Nat,
         held < Upto(segments, k + 1)
  PROVE  /\ Left(segments, k, held) \in Seq(Nat \ {0}) \ {<<>>}
         /\ k + 1 < Len(segments) =>
              /\ held + Head(Left(segments, k, held)) = Upto(segments, k + 1)
              /\ Tail(Left(segments, k, held)) = Left(segments, k + 1, Upto(segments, k + 1))
              /\ Upto(segments, k + 1) \in Nat
              /\ Upto(segments, k + 1) < Upto(segments, k + 2)
         /\ k + 1 = Len(segments) /\ Left(segments, k, held) # <<1>> =>
              /\ held + Head(Left(segments, k, held)) = Total(segments) - 1
              /\ held + Head(Left(segments, k, held)) \in Nat
              /\ Tail(Left(segments, k, held)) = <<1>>
<1> DEFINE n    == Len(segments)
           rest == SubSeq(segments, k + 2, n)
           x    == Upto(segments, k + 1) - held
<1>1. n \in Nat \ {0} /\ \A i \in 1..n : segments[i] \in Nat \ {0}
  BY LenProperties, ElementOfSeq
<1>2. PICK sum : /\ sum[0] = 0 /\ Total(segments) = sum[n]
                 /\ \A i \in 0..n : sum[i] \in Nat /\ Upto(segments, i) = sum[i]
                 /\ \A i \in 1..n : sum[i] = sum[i - 1] + segments[i]
  <2>1. segments \in Seq(Nat)
    BY SeqMonotonic
  <2> QED BY <2>1, UptoIsSum
<1>3. k + 1 \in 1..n /\ k + 1 \in 0..n /\ k \in Nat
  BY <1>1
<1>4. x \in Nat \ {0} /\ Upto(segments, k + 1) = sum[k + 1] /\ sum[k + 1] \in Nat
  BY <1>2, <1>3
<1>5. rest \in Seq(Nat \ {0}) /\ Len(rest) = n - (k + 1)
  <2>1. k + 2 \in Int /\ n \in Int /\ \A i \in k + 2..n : segments[i] \in Nat \ {0}
    BY <1>1, <1>3
  <2>2. rest \in Seq(Nat \ {0}) /\ Len(rest) = IF k + 2 <= n THEN n - (k + 2) + 1 ELSE 0
    BY <2>1, SubSeqProperties
  <2> HIDE DEF rest, n
  <2> QED BY <1>1, <1>3, <2>2
<1>6. Left(segments, k, held) = LastApart(<<x>> \o rest)
  BY DEF Left
<1> HIDE DEF rest, x
<1>7. /\ Left(segments, k, held) \in Seq(Nat \ {0}) /\ Left(segments, k, held) # <<>>
      /\ rest # <<>> => /\ Head(Left(segments, k, held)) = x
                        /\ Tail(Left(segments, k, held)) = LastApart(rest)
      /\ rest = <<>> /\ x # 1 => /\ Head(Left(segments, k, held)) = x - 1
                                /\ Tail(Left(segments, k, held)) = <<1>>
      /\ rest = <<>> /\ x = 1 => Left(segments, k, held) = <<1>>
  <2> DEFINE a == LastApart(<<x>> \o rest)
  <2>1. x \in Nat \ {0} /\ rest \in Seq(Nat \ {0})
    BY <1>4, <1>5
  <2>2. /\ a \in Seq(Nat \ {0}) /\ a # <<>>
        /\ rest # <<>> => Head(a) = x /\ Tail(a) = LastApart(rest)
        /\ rest = <<>> /\ x # 1 => Head(a) = x - 1 /\ Tail(a) = <<1>>
        /\ rest = <<>> /\ x = 1 => a = <<1>>
    BY <2>1, LastApartCons
  <2> HIDE DEF a
  <2> QED BY <1>6, <2>2 DEF a
<1>8. CASE k + 1 < n
  <2>1. rest # <<>> /\ k + 2 \in 1..n /\ k + 2 \in 0..n /\ k + 2 - 1 = k + 1
    <3>1. Len(rest) # 0
      <4> HIDE DEF n
      <4> QED BY <1>1, <1>3, <1>5, <1>8
    <3> QED BY <3>1, <1>1, <1>3, <1>8, EmptySeq
  <2>2. sum[k + 2] = sum[k + 1] + segments[k + 2] /\ segments[k + 2] \in Nat \ {0}
    BY <1>1, <1>2, <2>1
  <2>3. Upto(segments, k + 2) = sum[k + 2]
    BY <1>2, <2>1
  <2>4. held + x = Upto(segments, k + 1)
    BY <1>4 DEF x
  <2>5. LastApart(rest) = Left(segments, k + 1, Upto(segments, k + 1))
    <3>1. rest = <<segments[k + 2]>> \o SubSeq(segments, k + 3, n)
      <4>1. k + 2 \in 1..n /\ n \in k + 2..n /\ k + 2 + 1 = k + 3
        BY <1>1, <1>3, <2>1
      <4> QED BY <4>1, SubSeqRecursiveFirst DEF rest
    <3>2. segments[k + 2] = Upto(segments, k + 1 + 1) - Upto(segments, k + 1)
      <4>1. k + 1 + 1 = k + 2
        BY <1>3
      <4> QED BY <1>4, <2>2, <2>3, <4>1
    <3>3. k + 1 + 2 = k + 3
      BY <1>3
    <3> QED BY <3>1, <3>2, <3>3 DEF Left
  <2>6. sum[k + 1] < sum[k + 2]
    BY <1>4, <2>2
  <2>7. held + Head(Left(segments, k, held)) = Upto(segments, k + 1)
    BY <1>7, <2>1, <2>4
  <2>8. k + 1 # n
    BY <1>1, <1>3, <1>8
  <2> HIDE DEF n
  <2> QED BY <1>4, <1>7, <2>1, <2>3, <2>5, <2>6, <2>7, <2>8 DEF n
<1>9. CASE k + 1 = n
  <2>1. rest = <<>>
    <3>1. Len(rest) = 0
      <4> HIDE DEF n
      <4> QED BY <1>1, <1>5, <1>9
    <3> QED BY <1>5, <3>1, EmptySeq
  <2>2. Total(segments) = Upto(segments, k + 1)
    BY <1>2, <1>4, <1>9
  <2>3. x # 1 => held + (x - 1) = Total(segments) - 1 /\ held + (x - 1) \in Nat
    BY <1>4, <2>2 DEF x
  <2> QED BY <1>7, <1>9, <2>1, <2>3
<1>10. k + 1 < n \/ k + 1 = n
  BY <1>1, <1>3
<1> QED BY <1>8, <1>9, <1>10, Zenon

(* The row _make_batchable_segments gives a prompt that the cache does *)
(* not hold as a whole says its types truly.                           *)
LEMMA RowProperties ==
  ASSUME NEW c \in Clients, ask[c] \in Kinds, NEW cached \in Nat,
         cached < Total(ask[c].segments)
  PROVE  /\ Row(c, cached) \in RowRecords
         /\ Row(c, cached).client = c
         /\ RowTyped(Row(c, cached))
<1> DEFINE segments == ask[c].segments
           types    == ask[c].types
           n        == Len(segments)
           k        == Covered(segments, cached)
           left     == SubSeq(segments, k + 1, n)
           whole    == LastApart(Uncovered(segments, cached))
<1>1. /\ segments \in Seq(Nat \ {0}) /\ segments \in Seq(Nat)
      /\ types \in Seq(STRING) /\ Len(types) = n /\ n \in Nat \ {0}
  BY KindProperties
<1>2. k \in 0..n - 1 /\ Upto(segments, k) <= cached /\ cached < Upto(segments, k + 1)
  BY <1>1, CoveredProperties
<1>3. k + 1 \in 1..n /\ k \in Nat /\ k + 1 - 1 = k /\ k \in 0..n /\ k + 1 \in 0..n
      /\ n \in k + 1..n /\ k + 1 + 1 = k + 2
  <2> HIDE DEF k, n
  <2> QED BY <1>1, <1>2
<1>4. Head(left) = segments[k + 1] /\ Tail(left) = SubSeq(segments, k + 2, n)
  <2>1. Head(left) = segments[k + 1] /\ Tail(left) = SubSeq(segments, k + 1 + 1, n)
    <3> HIDE DEF k, segments
    <3> QED BY <1>1, <1>3, HeadTailOfSubSeq
  <2> HIDE DEF k, segments, left, n
  <2> QED BY <2>1, <1>3
<1>5. Upto(segments, k + 1) = Upto(segments, k) + segments[k + 1]
      /\ Upto(segments, k) \in Nat /\ segments[k + 1] \in Nat
  <2>1. PICK sum : /\ \A i \in 0..n : sum[i] \in Nat /\ Upto(segments, i) = sum[i]
                   /\ \A i \in 1..n : sum[i] = sum[i - 1] + segments[i]
    BY <1>1, UptoIsSum
  <2>2. segments[k + 1] \in Nat
    BY <1>1, <1>3, ElementOfSeq
  <2> HIDE DEF k, segments, n
  <2> QED BY <1>3, <2>1, <2>2
<1>6. Head(left) - (cached - Upto(segments, k)) = Upto(segments, k + 1) - cached
  <2> HIDE DEF k, segments, left
  <2> QED BY <1>4, <1>5
<1>7. whole = Left(segments, k, cached)
  <2>1. Uncovered(segments, cached) =
          <<Head(left) - (cached - Upto(segments, k))>> \o Tail(left)
    BY DEF Uncovered, Upto
  <2> HIDE DEF k, segments, left, n
  <2> QED BY <2>1, <1>4, <1>6 DEF Left, n
<1>8. whole \in Seq(Nat \ {0}) \ {<<>>}
  <2> HIDE DEF k, segments, whole
  <2> QED BY <1>1, <1>2, <1>7, LeftProperties
<1>9. SubSeq(types, k + 1, Len(types)) \in Seq(STRING)
  <2>1. \A i \in k + 1..n : types[i] \in STRING
    <3>1. \A i \in k + 1..n : i \in 1..Len(types)
      <4> HIDE DEF k, n
      <4> QED BY <1>1, <1>3
    <3> QED BY <1>1, <3>1, ElementOfSeq
  <2>2. k + 1 \in Int /\ n \in Int
    BY <1>1, <1>3
  <2> HIDE DEF k, types, n
  <2> QED BY <1>1, <2>1, <2>2, SubSeqProperties
<1>10. Row(c, cached) = [client |-> c, held |-> cached,
                         types |-> SubSeq(types, k + 1, Len(types)), left |-> whole]
  BY DEF Row
<1>11. /\ Row(c, cached).client = c /\ Row(c, cached).held = cached
       /\ Row(c, cached).types = SubSeq(types, k + 1, n)
       /\ Row(c, cached).left = whole
  <2>1. Len(types) = n
    BY <1>1
  <2> DEFINE row == Row(c, cached)
             kept == SubSeq(types, k + 1, Len(types))
  <2>2. row = [client |-> c, held |-> cached, types |-> kept, left |-> whole]
    BY <1>10
  <2>3. kept = SubSeq(types, k + 1, n)
    BY <2>1
  <2> HIDE DEF row, kept, whole
  <2>4. row.client = c /\ row.held = cached /\ row.types = kept /\ row.left = whole
    BY <2>2
  <2> QED BY <2>3, <2>4 DEF row
<1>12. Row(c, cached) \in RowRecords
  <2> HIDE DEF k, types, n, whole
  <2> QED BY <1>8, <1>9, <1>10 DEF RowRecords
<1>13. RowTyped(Row(c, cached))
  <2> DEFINE row == Row(c, cached)
  <2>1. \E j \in 0..n - 1 : /\ row.types = SubSeq(types, j + 1, n)
                           /\ row.held < Upto(segments, j + 1)
                           /\ row.left = Left(segments, j, row.held)
    <3> HIDE DEF k, types, n, whole, segments, row
    <3> QED BY <1>2, <1>7, <1>11 DEF row
  <2>2. row.client = c
    BY <1>11
  <2> HIDE DEF row
  <2>3. RowTyped(row)
    BY <2>1, <2>2 DEF RowTyped
  <2> QED BY <2>3 DEF row
<1> QED BY <1>11, <1>12, <1>13

(* Feeding a segment of a row keeps what the row says of its prompt, and *)
(* what is saved with it ends where a segment of that type ends.         *)
LEMMA FedProperties ==
  ASSUME NEW row \in RowRecords, RowTyped(row), row.left # << 1 >>, ask[row.client] \in Kinds
  PROVE  /\ Fed(row) \in RowRecords
         /\ Fed(row).client = row.client
         /\ RowTyped(Fed(row))
         /\ UnderOwnType(Segment(row))
<1> DEFINE c        == row.client
           segments == ask[c].segments
           types    == ask[c].types
           n        == Len(segments)
           fed      == Fed(row)
<1>1. /\ segments \in Seq(Nat \ {0}) /\ segments \in Seq(Nat)
      /\ types \in Seq(STRING) /\ Len(types) = n /\ n \in Nat \ {0}
      /\ DOMAIN segments = 1..n
  BY KindProperties
<1>2. PICK k \in 0..n - 1 : /\ row.types = SubSeq(types, k + 1, n)
                            /\ row.held < Upto(segments, k + 1)
                            /\ row.left = Left(segments, k, row.held)
  BY DEF RowTyped
<1>3. /\ row.held \in Nat /\ row.types \in Seq(STRING) /\ c \in Clients
      /\ row.left \in Seq(Nat \ {0}) /\ row.left # <<>>
      /\ row = [client |-> c, held |-> row.held, types |-> row.types, left |-> row.left]
  BY DEF RowRecords
<1>4. k \in Nat /\ k + 1 \in 1..n /\ n \in k + 1..n /\ k + 1 + 1 = k + 2 /\ n \in Int
  <2> HIDE DEF n
  <2> QED BY <1>1
<1>5. Head(row.types) = types[k + 1] /\ Tail(row.types) = SubSeq(types, k + 2, n)
      /\ row.types # <<>>
  <2>1. Head(row.types) = types[k + 1] /\ Tail(row.types) = SubSeq(types, k + 1 + 1, n)
    <3> HIDE DEF types, n
    <3> QED BY <1>1, <1>2, <1>4, HeadTailOfSubSeq
  <2>2. Len(row.types) = n - (k + 1) + 1
    <3>1. \A i \in k + 1..n : types[i] \in STRING
      <4>1. \A i \in k + 1..n : i \in 1..Len(types)
        <5> HIDE DEF n
        <5> QED BY <1>1, <1>4
      <4> QED BY <1>1, <4>1, ElementOfSeq
    <3>2. k + 1 \in Int /\ k + 1 <= n
      <4> HIDE DEF n
      <4> QED BY <1>4
    <3>3. Len(SubSeq(types, k + 1, n)) = IF k + 1 <= n THEN n - (k + 1) + 1 ELSE 0
      <4> HIDE DEF types, n
      <4> QED BY <1>4, <3>1, <3>2, SubSeqProperties
    <3> QED BY <1>2, <3>2, <3>3
  <2>3. row.types # <<>>
    <3>1. Len(row.types) # 0
      <4> HIDE DEF n
      <4> QED BY <1>1, <1>4, <2>2
    <3> QED BY <3>1, EmptySeq
  <2> HIDE DEF types, n
  <2> QED BY <1>4, <2>1, <2>3
<1>6. Tail(row.types) \in Seq(STRING)
  BY <1>3, <1>5, HeadTailProperties
<1>7. /\ k + 1 < n => /\ row.held + Head(row.left) = Upto(segments, k + 1)
                      /\ Tail(row.left) = Left(segments, k + 1, Upto(segments, k + 1))
                      /\ Upto(segments, k + 1) \in Nat
                      /\ Upto(segments, k + 1) < Upto(segments, k + 2)
      /\ k + 1 = n => /\ row.held + Head(row.left) = Total(segments) - 1
                      /\ row.held + Head(row.left) \in Nat
                      /\ Tail(row.left) = <<1>>
  <2> DEFINE left == Left(segments, k, row.held)
  <2>1. /\ k + 1 < n => /\ row.held + Head(left) = Upto(segments, k + 1)
                        /\ Tail(left) = Left(segments, k + 1, Upto(segments, k + 1))
                        /\ Upto(segments, k + 1) \in Nat
                        /\ Upto(segments, k + 1) < Upto(segments, k + 2)
        /\ k + 1 = n /\ left # <<1>> => /\ row.held + Head(left) = Total(segments) - 1
                                        /\ row.held + Head(left) \in Nat
                                        /\ Tail(left) = <<1>>
    <3> HIDE DEF segments
    <3> QED BY <1>1, <1>2, <1>3, LeftProperties
  <2>2. row.left = left /\ left # <<1>>
    BY <1>2
  <2> HIDE DEF left, n, segments
  <2> QED BY <2>1, <2>2
<1>8. k + 1 < n \/ k + 1 = n
  <2> HIDE DEF n
  <2> QED BY <1>1, <1>4
<1>9. /\ fed = [client |-> c, held |-> row.held + Head(row.left),
                types |-> Tail(row.types), left |-> Tail(row.left)]
      /\ fed.client = c /\ fed.held = row.held + Head(row.left)
      /\ fed.types = Tail(row.types) /\ fed.left = Tail(row.left)
  <2>1. fed = [client |-> c, held |-> row.held + Head(row.left),
               types |-> Tail(row.types), left |-> Tail(row.left)]
    <3>1. fed = [row EXCEPT !.left = Tail(row.left), !.held = row.held + Head(row.left),
                            !.types = Tail(row.types)]
      BY <1>5 DEF Fed
    <3> HIDE DEF fed, c
    <3> QED BY <3>1 DEF RowRecords, c
  <2> QED BY <2>1
<1> HIDE DEF fed
<1>10. CASE k + 1 < n
  <2>1. Tail(row.left) \in Seq(Nat \ {0}) \ {<<>>} /\ row.held + Head(row.left) \in Nat
    <3>1. k + 1 \in 0..n - 1 /\ k + 1 + 1 = k + 2
      <4> HIDE DEF n
      <4> QED BY <1>1, <1>4, <1>10
    <3>2. Left(segments, k + 1, Upto(segments, k + 1)) \in Seq(Nat \ {0}) \ {<<>>}
      <4> HIDE DEF segments
      <4>1. Upto(segments, k + 1) < Upto(segments, k + 1 + 1)
        BY <1>7, <1>10, <3>1
      <4> QED BY <1>1, <1>7, <1>10, <3>1, <4>1, LeftProperties
    <3> QED BY <1>7, <1>10, <3>2
  <2>2. fed \in RowRecords
    BY <1>3, <1>6, <1>9, <2>1 DEF RowRecords
  <2>3. \E j \in 0..n - 1 : /\ fed.types = SubSeq(types, j + 1, n)
                           /\ fed.held < Upto(segments, j + 1)
                           /\ fed.left = Left(segments, j, fed.held)
    <3>1. k + 1 \in 0..n - 1
      <4> HIDE DEF n
      <4> QED BY <1>1, <1>4, <1>10
    <3> HIDE DEF types, segments, n
    <3>2. /\ fed.types = SubSeq(types, k + 1 + 1, n)
          /\ fed.held < Upto(segments, k + 1 + 1)
          /\ fed.left = Left(segments, k + 1, fed.held)
      BY <1>4, <1>5, <1>7, <1>9, <1>10
    <3> QED BY <3>1, <3>2
  <2>4. RowTyped(fed)
    BY <1>9, <2>3 DEF RowTyped
  <2>5. UnderOwnType(Segment(row))
    <3>1. /\ Segment(row).client = c /\ Segment(row).type = types[k + 1]
          /\ Segment(row).length = Upto(segments, k + 1)
      BY <1>5, <1>7, <1>10 DEF Segment
    <3>2. k + 1 # n
      <4> HIDE DEF n
      <4> QED BY <1>1, <1>4, <1>10
    <3> HIDE DEF types
    <3> QED BY <1>1, <1>4, <3>1, <3>2 DEF UnderOwnType, types
  <2> QED BY <1>9, <2>2, <2>4, <2>5 DEF fed
<1>11. CASE k + 1 = n
  <2>1. Tail(row.types) = <<>>
    <3>1. n < k + 2 /\ k + 2 \in Int
      <4> HIDE DEF n
      <4> QED BY <1>1, <1>4, <1>11
    <3> QED BY <1>4, <1>5, <3>1, SubSeqEmpty
  <2>2. fed \in RowRecords
    <3>1. <<1>> \in Seq(Nat \ {0}) \ {<<>>}
      OBVIOUS
    <3> HIDE DEF n
    <3> QED BY <1>3, <1>6, <1>7, <1>9, <1>11, <3>1 DEF RowRecords
  <2>3. RowTyped(fed)
    BY <1>7, <1>9, <1>11, <2>1 DEF RowTyped
  <2>4. UnderOwnType(Segment(row))
    <3>1. /\ Segment(row).client = c /\ Segment(row).type = types[n]
          /\ Segment(row).length = Total(segments) - 1
      BY <1>5, <1>7, <1>11 DEF Segment
    <3>2. Upto(segments, n) = Total(segments)
      BY <1>1, SubSeqFull DEF Upto
    <3>3. n \in DOMAIN segments
      <4> HIDE DEF n
      <4> QED BY <1>1
    <3> HIDE DEF types
    <3> QED BY <3>1, <3>2, <3>3 DEF UnderOwnType, types
  <2> QED BY <1>9, <2>2, <2>3, <2>4 DEF fed
<1> QED BY <1>8, <1>10, <1>11

(* What is saved with the answer of a request ends behind its prompt, and *)
(* is of the assistant.                                                   *)
LEMMA AnswerUnderOwnType ==
  ASSUME NEW c \in Clients, ask[c] \in Kinds, NEW n \in Nat \ {0}
  PROVE  UnderOwnType(Answer(c, n)) /\ Answer(c, n).client = c
<1>1. Total(ask[c].segments) \in Nat
  BY TotalType
<1> QED BY <1>1 DEF UnderOwnType, Answer

----------------------------------------
(* The line of the requests, and the queues of the responses. *)

(* A request that joins the end of a line it is not in. *)
LEMMA LineAppend ==
  ASSUME NEW s \in Seq(Clients), Once(s), NEW c \in Clients, \A i \in DOMAIN s : s[i] # c
  PROVE  /\ Once(Append(s, c))
         /\ {Append(s, c)[i] : i \in DOMAIN Append(s, c)} = {s[i] : i \in DOMAIN s} \cup {c}
<1> DEFINE n == Len(s)
           t == Append(s, c)
<1>1. n \in Nat /\ DOMAIN s = 1..n
  BY LenProperties
<1>2. t \in Seq(Clients) /\ Len(t) = n + 1 /\ (\A i \in 1..n : t[i] = s[i]) /\ t[n + 1] = c
  BY AppendProperties
<1> HIDE DEF t, n
<1>3. DOMAIN t = 1..n + 1
  BY <1>2, LenProperties
<1>4. \A i \in 1..n + 1 : i \in 1..n \/ i = n + 1
  BY <1>1
<1>5. 1..n \subseteq 1..n + 1 /\ n + 1 \in 1..n + 1
  BY <1>1
<1>6. Once(t)
  BY <1>1, <1>2, <1>3, <1>4 DEF Once
<1>7. {t[i] : i \in 1..n + 1} = {s[i] : i \in 1..n} \cup {c}
  <2>1. \A x \in {t[i] : i \in 1..n + 1} : x \in {s[i] : i \in 1..n} \cup {c}
    BY <1>2, <1>4
  <2>2. \A x \in {s[i] : i \in 1..n} \cup {c} : x \in {t[i] : i \in 1..n + 1}
    BY <1>2, <1>5
  <2> QED BY <2>1, <2>2
<1> QED BY <1>1, <1>3, <1>6, <1>7 DEF t

(* The first request of a line leaves it. *)
LEMMA LineTail ==
  ASSUME NEW s \in Seq(Clients), Once(s), s # <<>>
  PROVE  /\ Once(Tail(s))
         /\ {Tail(s)[i] : i \in DOMAIN Tail(s)} = {s[i] : i \in DOMAIN s} \ {Head(s)}
<1> DEFINE n == Len(s)
           t == Tail(s)
<1>1. n \in Nat \ {0} /\ DOMAIN s = 1..n
  BY LenProperties, EmptySeq
<1>2. t \in Seq(Clients) /\ Len(t) = n - 1 /\ (\A i \in 1..n - 1 : t[i] = s[i + 1])
      /\ Head(s) = s[1]
  BY HeadTailProperties
<1> HIDE DEF t, n
<1>3. DOMAIN t = 1..n - 1
  BY <1>2, LenProperties
<1>4. \A i \in 1..n - 1 : i + 1 \in 1..n /\ i + 1 # 1
  BY <1>1
<1>5. Once(t)
  <2> SUFFICES ASSUME NEW i \in 1..n - 1, NEW j \in 1..n - 1, t[i] = t[j] PROVE i = j
    BY <1>3 DEF Once
  <2>1. s[i + 1] = s[j + 1]
    BY <1>2
  <2>2. i + 1 = j + 1
    BY <1>1, <1>4, <2>1 DEF Once
  <2> QED BY <1>1, <2>2
<1>6. \A x \in {t[i] : i \in 1..n - 1} : x \in {s[i] : i \in 1..n} \ {Head(s)}
  <2> SUFFICES ASSUME NEW i \in 1..n - 1 PROVE t[i] \in {s[j] : j \in 1..n} \ {s[1]}
    BY <1>2
  <2>1. t[i] = s[i + 1] /\ i + 1 \in 1..n /\ i + 1 # 1 /\ 1 \in 1..n
    BY <1>1, <1>2, <1>4
  <2> QED BY <1>1, <2>1 DEF Once
<1>7. ASSUME NEW i \in 1..n, s[i] # s[1] PROVE s[i] \in {t[j] : j \in 1..n - 1}
  <2>1. i # 1
    BY <1>7
  <2>2. i - 1 \in 1..n - 1 /\ i - 1 + 1 = i
    BY <1>1, <2>1
  <2>3. t[i - 1] = s[i]
    BY <1>2, <2>2
  <2> QED BY <2>2, <2>3
<1>8. {t[i] : i \in 1..n - 1} = {s[i] : i \in 1..n} \ {Head(s)}
  <2>1. \A x \in {s[i] : i \in 1..n} \ {Head(s)} : x \in {t[i] : i \in 1..n - 1}
    BY <1>2, <1>7
  <2> QED BY <1>6, <2>1
<1> QED BY <1>1, <1>3, <1>5, <1>8 DEF t

(* The ranks of the responses tell them apart. *)
LEMMA RankProperties ==
  /\ Rank("context") = 0 /\ Rank("progress") = 1 /\ Rank("token") = 2
  /\ Rank("end") = 3 /\ Rank("error") = 4
  /\ \A item \in Items : Rank(item) \in 0..4
  /\ \A x, y \in Items : Rank(x) = Rank(y) => x = y
<1>1. /\ Rank("context") = 0 /\ Rank("progress") = 1 /\ Rank("token") = 2
      /\ Rank("end") = 3 /\ Rank("error") = 4
  BY DEF Rank
<1>2. \A item \in Items : item \in {"context", "progress", "token", "end", "error"}
  BY DEF Items
<1> QED BY <1>1, <1>2

(* A queue whose responses rank lower takes another behind them and stays *)
(* in order.                                                              *)
LEMMA OrderedAppend ==
  ASSUME NEW box \in Seq(Items), NEW item \in Items, Ordered(box),
         \A i \in DOMAIN box : \/ Rank(box[i]) < Rank(item)
                               \/ item \in {"progress", "token"} /\ Rank(box[i]) <= Rank(item)
  PROVE  Ordered(Append(box, item))
<1> DEFINE more == Append(box, item)
           n    == Len(box)
<1>1. n \in Nat /\ DOMAIN box = 1..n /\ \A i \in 1..n : box[i] \in Items
  BY LenProperties, ElementOfSeq
<1>2. /\ more \in Seq(Items) /\ Len(more) = n + 1
      /\ \A i \in 1..n : more[i] = box[i]
      /\ more[n + 1] = item
  BY AppendProperties
<1> HIDE DEF more, n
<1>3. DOMAIN more = 1..n + 1
  BY <1>2, LenProperties
<1>4. ASSUME NEW i \in 1..n + 1, NEW j \in 1..n + 1, i < j
      PROVE  \/ Rank(more[i]) < Rank(more[j])
             \/ more[i] = more[j] /\ more[i] \in {"progress", "token"}
  <2>1. i \in 1..n
    BY <1>1, <1>4
  <2>2. CASE j \in 1..n
    BY <1>1, <1>2, <1>4, <2>1, <2>2 DEF Ordered
  <2>3. CASE j = n + 1
    <3>1. Rank(box[i]) \in 0..4 /\ Rank(item) \in 0..4
      BY <1>1, <2>1, RankProperties
    <3>2. Rank(box[i]) = Rank(item) => box[i] = item
      BY <1>1, <2>1, RankProperties
    <3>3. \/ Rank(box[i]) < Rank(item)
          \/ item \in {"progress", "token"} /\ Rank(box[i]) <= Rank(item)
      BY <1>1, <2>1
    <3>4. \/ Rank(box[i]) < Rank(item)
          \/ item \in {"progress", "token"} /\ Rank(box[i]) = Rank(item)
      BY <3>1, <3>3
    <3> QED BY <1>2, <2>1, <2>3, <3>2, <3>4
  <2> QED BY <1>1, <2>2, <2>3
<1> QED BY <1>3, <1>4 DEF Ordered, more

(* A queue whose first response is read stays in order, and a last *)
(* response is still in it.                                        *)
LEMMA OrderedTail ==
  ASSUME NEW box \in Seq(Items), box # <<>>, Ordered(box)
  PROVE  /\ Tail(box) \in Seq(Items) /\ Ordered(Tail(box))
         /\ \A i \in DOMAIN Tail(box) : \E j \in DOMAIN box : Tail(box)[i] = box[j]
         /\ Head(box) = "context" => ~Contains(Tail(box), "context")
         /\ ~Contains(box, "context") => ~Contains(Tail(box), "context")
         /\ Head(box) \notin {"end", "error"} =>
              \A i \in DOMAIN box : box[i] \in {"end", "error"} =>
                \E j \in DOMAIN Tail(box) : Tail(box)[j] \in {"end", "error"}
<1> DEFINE rest == Tail(box)
           n    == Len(box)
<1>1. n \in Nat \ {0} /\ DOMAIN box = 1..n
  BY EmptySeq, LenProperties
<1>2. /\ rest \in Seq(Items) /\ Len(rest) = n - 1 /\ Head(box) = box[1]
      /\ \A i \in 1..n - 1 : rest[i] = box[i + 1]
  BY HeadTailProperties
<1> HIDE DEF rest, n
<1>3. DOMAIN rest = 1..n - 1
  BY <1>2, LenProperties
<1>4. \A i \in 1..n - 1 : i + 1 \in 1..n
  BY <1>1
<1>5. Ordered(rest)
  <2> SUFFICES ASSUME NEW i \in 1..n - 1, NEW j \in 1..n - 1, i < j
               PROVE  \/ Rank(rest[i]) < Rank(rest[j])
                      \/ rest[i] = rest[j] /\ rest[i] \in {"progress", "token"}
    BY <1>3 DEF Ordered
  <2>1. i + 1 \in 1..n /\ j + 1 \in 1..n /\ i + 1 < j + 1
    BY <1>1
  <2>2. rest[i] = box[i + 1] /\ rest[j] = box[j + 1]
    BY <1>2
  <2> QED BY <1>1, <2>1, <2>2 DEF Ordered
<1>6. \A i \in DOMAIN rest : \E j \in DOMAIN box : rest[i] = box[j]
  BY <1>1, <1>2, <1>3, <1>4
<1>7. Head(box) = "context" => ~Contains(rest, "context")
  <2> SUFFICES ASSUME Head(box) = "context", NEW i \in 1..n - 1 PROVE rest[i] # "context"
    BY <1>2 DEF Contains
  <2>1. i + 1 \in 1..n /\ 1 \in 1..n /\ 1 < i + 1 /\ rest[i] = box[i + 1] /\ box[1] = "context"
    BY <1>1, <1>2
  <2>2. Rank(box[1]) < Rank(box[i + 1])
    BY <1>1, <2>1 DEF Ordered
  <2>3. Rank("context") = 0
    BY RankProperties
  <2> QED BY <2>1, <2>2, <2>3
<1>8. ~Contains(box, "context") => ~Contains(rest, "context")
  <2>1. Len(rest) = n - 1 /\ Len(box) = n
    BY <1>2 DEF n
  <2> QED BY <1>2, <1>4, <2>1 DEF Contains
<1>9. ASSUME Head(box) \notin {"end", "error"}, NEW i \in 1..n, box[i] \in {"end", "error"}
      PROVE  \E j \in 1..n - 1 : rest[j] \in {"end", "error"}
  <2>1. i # 1
    BY <1>2, <1>9
  <2>2. i - 1 \in 1..n - 1 /\ i - 1 + 1 = i
    BY <1>1, <2>1
  <2>3. rest[i - 1] = box[i]
    BY <1>2, <2>2
  <2> QED BY <1>9, <2>2, <2>3
<1>10. \A i \in DOMAIN box : Head(box) \notin {"end", "error"} /\ box[i] \in {"end", "error"} =>
         \E j \in DOMAIN rest : rest[j] \in {"end", "error"}
  BY <1>1, <1>3, <1>9
<1> QED BY <1>2, <1>5, <1>6, <1>7, <1>8, <1>10 DEF rest

(* The least of three naturals, as the generator bounds the prompts it *)
(* takes.                                                              *)
LEMMA LeastOfThree ==
  ASSUME NEW a \in Nat, NEW b \in Nat, NEW c \in Nat
  PROVE  /\ Min({a, b, c}) \in Nat
         /\ Min({a, b, c}) <= a /\ Min({a, b, c}) <= b /\ Min({a, b, c}) <= c
<1>1. \E x \in {a, b, c} : \A y \in {a, b, c} : x <= y
  OBVIOUS
<1>2. /\ Min({a, b, c}) \in {a, b, c} /\ \A y \in {a, b, c} : Min({a, b, c}) <= y
  BY <1>1, Zenon DEF Min
<1> QED BY <1>2

----------------------------------------
(* The inductive invariant. *)

(* The generation thread is somewhere, and serves a client when it serves *)
(* one alone.                                                             *)
WorkerInv ==
  /\ worker \in [at : {"loop", "budget", "dead", "stopped"} \cup Alone,
                 client : Clients \cup {None}]
  /\ worker.at \in Alone <=> worker.client # None
ActiveInv == WorkerInv /\ ActiveIsServed

(* What the other variables hold. *)
Models == {k.model : k \in Kinds}
Parts == {"waiting", "prompt", "gen"}

Shapes ==
  /\ ask \in [Clients -> Kinds \cup {None}]
  /\ handler \in [Clients -> Stages]
  /\ online \subseteq Clients /\ stopped \subseteq Clients
  /\ inbox \in [Clients -> Seq(Items)]
  /\ requests \in Seq(Clients) /\ aside \in Seq(Clients) /\ Len(aside) <= 1
  /\ batch \in [open : BOOLEAN, model : Models \cup {None}, drain : BOOLEAN,
                results : SUBSET Clients, doomed : SUBSET Clients]
  /\ rows \in [Parts -> Seq(RowRecords)]
  /\ tokens \in [Clients -> Nat] /\ stop \in BOOLEAN
  /\ \A c \in Clients : handler[c] # "new" => ask[c] \in Kinds

(* The requests of the queue and of those put aside, and the requests *)
(* that are in the batch or served alone.                             *)
InLine == {Waiting[i] : i \in DOMAIN Waiting}
Begun == batch.results \cup ({Serving} \ {None})

(* A request is in line at most once, and then neither in the batch nor *)
(* served alone; nothing is served alone while a batch is open.         *)
Hands ==
  /\ Once(Waiting)
  /\ InLine \cap Begun = {}
  /\ batch.open => worker.at \in {"loop", "budget", "dead"}
  /\ ~batch.open => batch.results = {} /\ rows = NoRows
  /\ \A c \in InLine : handler[c] = "asking" /\ inbox[c] = <<>>
  /\ \A c \in Begun : handler[c] \notin {"new", "submitting"}
  /\ \A c \in batch.results : batch.model = ask[c].model /\ ask[c].batchable
  /\ batch.doomed \subseteq stopped

(* The rows of the batch are its results, each once. *)
RowsAreResults ==
  /\ \A part \in Parts : OneRowEach(rows[part])
  /\ \A p, q \in Parts : p # q => OfRows(rows[p]) \cap OfRows(rows[q]) = {}
  /\ OfRows(rows.waiting) \cup OfRows(rows.prompt) \cup OfRows(rows.gen) = batch.results
  /\ Len(rows.prompt) <= PromptConcurrency

(* The highest rank among the responses a request may have had: the place *)
(* it is at bounds what can be in its queue, and so what may come behind. *)
Highest(c) ==
  IF c \in OfRows(rows.gen) THEN 2
  ELSE IF c \in batch.results THEN 1
  ELSE IF c \in InLine THEN -1
  ELSE IF c # Serving THEN 4
  ELSE IF worker.at = "preparing" THEN -1
  ELSE IF worker.at = "prefill" THEN 0
  ELSE IF worker.at = "saving" THEN 3
  ELSE 2

Boxes ==
  \A c \in Clients :
    /\ Ordered(inbox[c])
    /\ \A i \in DOMAIN inbox[c] : Rank(inbox[c][i]) <= Highest(c)
    /\ handler[c] \notin {"asking", "reading"} => inbox[c] = <<>>
    /\ handler[c] = "asking" /\ inbox[c] # <<>> => Head(inbox[c]) \in {"context", "error"}
    /\ handler[c] = "reading" => ~Contains(inbox[c], "context")

(* What has begun has its context; what has ended its last response. *)
Informed ==
  /\ \A c \in Begun : worker.at # "preparing" /\ handler[c] = "asking" =>
       inbox[c] # <<>> /\ Head(inbox[c]) = "context"
  /\ worker.at = "preparing" => handler[Serving] = "asking"
  /\ worker.at = "saving" /\ handler[Serving] \in {"asking", "reading"} => Final(Serving)
  /\ \A c \in Clients : handler[c] \in {"asking", "reading"} =>
       c \in InLine \cup Begun \/ Final(c) \/ c \in stopped \/ worker.at \in {"dead", "stopped"}

(* Every row, and every saved prompt, says its types truly. *)
Typed ==
  /\ \A part \in Parts : \A i \in DOMAIN rows[part] : RowTyped(rows[part][i])
  /\ worker.at \in {"decided", "ending", "saving"} => tokens[Serving] > 0
  /\ \A s \in saved : s.client \in Clients /\ handler[s.client] # "new"

(* The inductive invariant. *)
IInv ==
  /\ ActiveInv /\ Shapes /\ Hands /\ RowsAreResults /\ Boxes /\ Informed
  /\ Typed /\ SavedUnderOwnType

(* The part of the invariant that is about requests and responses. *)
Core == Shapes /\ Hands /\ RowsAreResults /\ Boxes /\ Informed

----------------------------------------
(* The active context. *)

(* The steps of the handlers, of the main thread and of the queue leave the *)
(* generation thread and the active context alone.                          *)
LEMMA OthersLeaveAlone ==
  ASSUME \/ \E c \in Clients : Handle(c) \/ Disconnect(c) \/ \E k \in MayAsk[c] : Arrive(c, k)
         \/ StopServer
         \/ \E c \in Clients : Refuse(c) \/ OpenBatch(c) \/ Drain(c)
         \/ CloseBatch \/ UNCHANGED vars
  PROVE  UNCHANGED <<worker, active>>
<1>1. ASSUME NEW c \in Clients, Handle(c) PROVE UNCHANGED <<worker, active>>
  BY <1>1 DEF Handle, Submit, GetContext, ReadProgress, ReadToken, ReadEnd, Idled, Proceed
<1>2. ASSUME NEW c \in Clients, \/ Disconnect(c) \/ \E k \in MayAsk[c] : Arrive(c, k)
                                \/ Refuse(c) \/ OpenBatch(c) \/ Drain(c)
      PROVE  UNCHANGED <<worker, active>>
  BY <1>2 DEF Disconnect, Arrive, Refuse, OpenBatch, Drain
<1>3. CASE StopServer \/ CloseBatch \/ UNCHANGED vars
  BY <1>3 DEF StopServer, CloseBatch, vars
<1> QED BY <1>1, <1>2, <1>3

(* The steps outside _serve_single start and end without an active context. *)
LEMMA LoopHasNoContext ==
  ASSUME ActiveInv,
         \/ \E c \in Clients, cached \in Hits : JoinBatch(c, cached)
         \/ \E c \in Clients : ServeAlone(c)
         \/ \E ends \in SUBSET OfRows(rows.gen) : NextCall(ends)
         \/ EndBudget \/ LeaveLoop
  PROVE  ActiveInv'
<1>1. worker.at \in {"loop", "budget"} /\ active' = active
  BY DEF JoinBatch, ServeAlone, NextCall, EndBudget, LeaveLoop, Takes, At
<1>2. active = None /\ worker.client = None
  BY <1>1 DEF ActiveInv, WorkerInv, ActiveIsServed, Alone
<1>3. \/ worker' = worker
      \/ \E at \in {"loop", "budget", "dead", "stopped"} :
           worker' = [at |-> at, client |-> None]
      \/ \E c \in Clients : worker' = [at |-> "preparing", client |-> c]
  BY DEF JoinBatch, ServeAlone, NextCall, EndBudget, LeaveLoop, Idle
<1>4. CASE worker' = worker
  BY <1>1, <1>4 DEF ActiveInv, WorkerInv, ActiveIsServed, Serving
<1>5. ASSUME NEW at \in {"loop", "budget", "dead", "stopped"},
             worker' = [at |-> at, client |-> None]
      PROVE  ActiveInv'
  BY <1>1, <1>2, <1>5 DEF ActiveInv, WorkerInv, ActiveIsServed, Alone
<1>6. ASSUME NEW c \in Clients, worker' = [at |-> "preparing", client |-> c]
      PROVE  ActiveInv'
  <2>1. c # None
    BY SizesAssumption
  <2> QED BY <1>1, <1>2, <1>6, <2>1 DEF ActiveInv, WorkerInv, ActiveIsServed, Alone
<1> QED BY <1>3, <1>4, <1>5, <1>6

(* _serve_single sets the context once it exists, keeps it through every     *)
(* stage and clears it on each way out.                                      *)
LEMMA SingleKeepsContext ==
  ASSUME ActiveInv,
         SingleFails \/ Prepared \/ Prefilled \/ SingleToken \/ Decide \/ SingleEnds
           \/ SingleSaved
  PROVE  ActiveInv'
<1> USE DEF ActiveInv, WorkerInv, ActiveIsServed, Alone, Serving, At
<1>1. CASE SingleFails \/ SingleSaved
  BY <1>1 DEF SingleFails, SingleSaved, Idle
<1>2. CASE Prepared
  BY <1>2 DEF Prepared
<1>3. CASE Prefilled
  BY <1>3 DEF Prefilled
<1>4. CASE SingleToken
  BY <1>4 DEF SingleToken
<1>5. CASE Decide
  BY <1>5 DEF Decide
<1>6. CASE SingleEnds
  BY <1>6 DEF SingleEnds
<1> QED BY <1>1, <1>2, <1>3, <1>4, <1>5, <1>6

(* Every step keeps the active context that of the request served alone. *)
LEMMA ActiveStep == ActiveInv /\ [Next]_vars => ActiveInv'
<1> SUFFICES ASSUME ActiveInv, [Next]_vars PROVE ActiveInv'
  OBVIOUS
<1>1. CASE UNCHANGED <<worker, active>>
  BY <1>1 DEF ActiveInv, WorkerInv, ActiveIsServed, Serving
<1>2. CASE Generate
  BY <1>1, <1>2, OthersLeaveAlone, LoopHasNoContext, SingleKeepsContext DEF Generate, Take
<1> QED BY <1>1, <1>2, OthersLeaveAlone DEF Next

(* ActiveIsServed: ResponseGenerator's _active_context is the context of  *)
(* the request in _serve_single, whatever fails, is cancelled or stops; a *)
(* newer request can neither stop a finished response nor miss a decoding *)
(* one.                                                                   *)
THEOREM ActiveContextServed == Spec => []ActiveIsServed
<1>1. Init => ActiveInv
  BY DEF Init, Idle, ActiveInv, WorkerInv, ActiveIsServed, Alone
<1>2. ActiveInv => ActiveIsServed
  BY DEF ActiveInv
<1> QED BY <1>1, <1>2, ActiveStep, PTL DEF Spec

----------------------------------------
(* Where the requests are. *)

(* The request served alone is a client, and there is one exactly in the *)
(* stages of _serve_single.                                              *)
LEMMA WorkerFacts ==
  ASSUME ActiveInv
  PROVE  /\ worker.at \in {"loop", "budget", "dead", "stopped"} \cup Alone
         /\ Serving \in Clients \cup {None}
         /\ worker.at \in Alone <=> Serving # None
         /\ worker.at \in Alone <=> Serving \in Clients
         /\ None \notin Clients
BY SizesAssumption DEF ActiveInv, WorkerInv, Serving

(* A request served alone is in no batch, and no batch is open. *)
LEMMA AloneIsApart ==
  ASSUME ActiveInv, Hands, worker.at \in Alone
  PROVE  /\ Serving \in Clients /\ ~batch.open /\ batch.results = {} /\ rows = NoRows
         /\ Serving \in Begun /\ Serving \notin InLine /\ OfRows(rows.gen) = {}
<1>1. Serving \in Clients /\ Serving # None
  BY WorkerFacts
<1>2. ~batch.open
  <2>1. worker.at \notin {"loop", "budget", "dead"}
    BY DEF Alone
  <2> QED BY <2>1 DEF Hands
<1>3. batch.results = {} /\ rows = NoRows
  BY <1>2 DEF Hands
<1>4. Serving \in Begun
  BY <1>1 DEF Begun
<1>5. Serving \notin InLine
  BY <1>4 DEF Hands
<1>6. OfRows(rows.gen) = {}
  <2>1. rows.gen = <<>>
    BY <1>3 DEF NoRows
  <2> QED BY <2>1 DEF OfRows
<1> QED BY <1>1, <1>2, <1>3, <1>4, <1>5, <1>6

(* The line of the requests not yet begun. *)
LEMMA WaitingType ==
  ASSUME Shapes
  PROVE  /\ Waiting \in Seq(Clients) /\ Len(Waiting) \in Nat
         /\ InLine = {Waiting[i] : i \in 1..Len(Waiting)} /\ InLine \subseteq Clients
         /\ Waiting # <<>> => Head(Waiting) = Waiting[1] /\ 1 \in 1..Len(Waiting)
                              /\ Head(Waiting) \in InLine
<1>1. Waiting \in Seq(Clients)
  BY ConcatProperties DEF Shapes, Waiting
<1>2. Len(Waiting) \in Nat /\ DOMAIN Waiting = 1..Len(Waiting)
  BY <1>1, LenProperties
<1>3. InLine = {Waiting[i] : i \in 1..Len(Waiting)} /\ InLine \subseteq Clients
  BY <1>1, <1>2, ElementOfSeq DEF InLine
<1>4. Waiting # <<>> => Head(Waiting) = Waiting[1] /\ 1 \in 1..Len(Waiting)
  BY <1>1, EmptySeq
<1> QED BY <1>1, <1>2, <1>3, <1>4

(* What has begun are clients' requests. *)
LEMMA BegunType ==
  ASSUME Shapes, ActiveInv
  PROVE  Begun \subseteq Clients
BY WorkerFacts DEF Begun, Shapes

(* The request that is taken leaves the head of the line. *)
LEMMA LineDequeued ==
  ASSUME Shapes, Once(Waiting), NEW c \in Clients, Waiting # <<>>, c = Head(Waiting), Dequeued
  PROVE  /\ requests' \in Seq(Clients) /\ aside' \in Seq(Clients) /\ Len(aside') <= 1
         /\ Once(Waiting') /\ InLine' = InLine \ {c} /\ c \in InLine
<1>1. /\ requests \in Seq(Clients) /\ aside \in Seq(Clients) /\ Len(aside) <= 1
      /\ Len(aside) \in Nat
  BY LenProperties DEF Shapes
<1>2. Waiting \in Seq(Clients) /\ Len(Waiting) \in Nat /\ c \in InLine
  BY WaitingType
<1>3. CASE aside = <<>>
  <2>1. Waiting = requests
    BY <1>1, <1>3, ConcatEmptySeq DEF Waiting
  <2>2. requests' = Tail(requests) /\ aside' = <<>>
    BY <1>3 DEF Dequeued
  <2>3. requests' \in Seq(Clients)
    BY <1>1, <2>1, <2>2, HeadTailProperties
  <2>4. Waiting' = requests'
    BY <2>2, <2>3, ConcatEmptySeq DEF Waiting
  <2>5. Once(Waiting') /\ {Waiting'[i] : i \in DOMAIN Waiting'} = InLine \ {c}
    BY <1>2, <2>1, <2>2, <2>4, LineTail DEF InLine
  <2> QED BY <1>1, <1>2, <1>3, <2>2, <2>3, <2>5 DEF InLine
<1>4. CASE aside # <<>>
  <2>1. Len(aside) = 1
    <3>1. Len(aside) # 0
      BY <1>1, <1>4, EmptySeq
    <3> DEFINE a == Len(aside)
    <3>2. a \in Nat /\ a <= 1 /\ a # 0
      BY <1>1, <3>1
    <3> HIDE DEF a
    <3>3. a = 1
      BY <3>2
    <3> QED BY <3>3 DEF a
  <2>2. aside' = <<>> /\ requests' = requests
    <3>1. aside' = Front(aside) /\ requests' = requests
      BY <1>4 DEF Dequeued
    <3>2. Front(aside) = <<>>
      <4>1. Len(aside) - 1 < 1 /\ Len(aside) - 1 \in Int /\ 1 \in Int
        BY <2>1
      <4> QED BY <4>1, SubSeqEmpty DEF Front
    <3> QED BY <3>1, <3>2
  <2>3. Waiting' = requests
    BY <1>1, <2>2, ConcatEmptySeq DEF Waiting
  <2>4. Tail(Waiting) = requests
    <3> DEFINE m == Len(requests)
    <3>1. m \in Nat
      BY <1>1, LenProperties
    <3>2. /\ Len(Waiting) = Len(aside) + m
          /\ \A i \in 1..Len(aside) + m :
               Waiting[i] = IF i <= Len(aside) THEN aside[i] ELSE requests[i - Len(aside)]
      BY <1>1, ConcatProperties DEF Waiting
    <3>3. /\ Tail(Waiting) \in Seq(Clients) /\ Len(Tail(Waiting)) = Len(Waiting) - 1
          /\ \A i \in 1..Len(Tail(Waiting)) : Tail(Waiting)[i] = Waiting[i + 1]
      BY <1>2, HeadTailProperties
    <3> HIDE DEF m
    <3>4. Len(Tail(Waiting)) = m
      BY <2>1, <3>1, <3>2, <3>3
    <3>5. \A i \in 1..m : Tail(Waiting)[i] = requests[i]
      <4> SUFFICES ASSUME NEW i \in 1..m PROVE Tail(Waiting)[i] = requests[i]
        OBVIOUS
      <4>1. i + 1 \in 1..1 + m /\ ~(i + 1 <= 1) /\ i + 1 - 1 = i
        BY <3>1
      <4>2. Waiting[i + 1] = requests[i]
        BY <2>1, <3>2, <4>1
      <4> QED BY <3>3, <3>4, <4>2
    <3> QED BY <1>1, <3>3, <3>4, <3>5, SeqEqual DEF m
  <2>5. Once(Waiting') /\ {Waiting'[i] : i \in DOMAIN Waiting'} = InLine \ {c}
    BY <1>2, <2>3, <2>4, LineTail DEF InLine
  <2>6. Len(aside') <= 1 /\ aside' \in Seq(Clients)
    BY <2>2, EmptySeq
  <2> QED BY <1>1, <1>2, <2>2, <2>5, <2>6 DEF InLine
<1> QED BY <1>3, <1>4

(* A request put aside is still the first of the line: the queue cannot *)
(* overtake it.                                                         *)
LEMMA LinePutAside ==
  ASSUME Shapes, NEW c \in Clients, Waiting # <<>>, c = Head(Waiting), PutAside(c)
  PROVE  /\ requests' \in Seq(Clients) /\ aside' \in Seq(Clients) /\ Len(aside') <= 1
         /\ Waiting' = Waiting /\ InLine' = InLine
<1>1. /\ requests \in Seq(Clients) /\ aside \in Seq(Clients) /\ Len(aside) <= 1
  BY DEF Shapes
<1>2. CASE aside # <<>>
  BY <1>1, <1>2 DEF PutAside, Waiting, InLine
<1>3. CASE aside = <<>>
  <2>1. Waiting = requests
    BY <1>1, <1>3, ConcatEmptySeq DEF Waiting
  <2>2. aside' = <<c>> /\ requests' = Tail(requests)
    BY <1>3 DEF PutAside
  <2>3. requests' \in Seq(Clients)
    BY <1>1, <2>1, <2>2, HeadTailProperties
  <2>4. requests = <<Head(requests)>> \o Tail(requests)
    <3>1. Len(requests) \in Nat \ {0}
      BY <1>1, <2>1, EmptySeq
    <3>2. 1 \in 1..Len(requests) /\ Len(requests) \in 1..Len(requests)
      BY <3>1
    <3>3. SubSeq(requests, 1, Len(requests)) = <<requests[1]>> \o SubSeq(requests, 1 + 1, Len(requests))
      BY <1>1, <3>2, SubSeqRecursiveFirst
    <3>4. SubSeq(requests, 1, Len(requests)) = requests
          /\ Tail(requests) = SubSeq(requests, 2, Len(requests))
      BY <1>1, <2>1, SubSeqFull, TailIsSubSeq
    <3> QED BY <3>3, <3>4
  <2>5. Waiting' = Waiting
    BY <2>1, <2>2, <2>4 DEF Waiting
  <2> QED BY <2>2, <2>3, <2>5 DEF InLine
<1> QED BY <1>2, <1>3

(* The lists of rows. *)
LEMMA RowsType ==
  ASSUME Shapes
  PROVE  /\ rows.waiting \in Seq(RowRecords) /\ rows.prompt \in Seq(RowRecords)
         /\ rows.gen \in Seq(RowRecords) /\ DOMAIN rows = Parts
BY DEF Shapes, Parts

(* RowsAreResults, part by part, after a step, *)
LEMMA RowsInParts ==
  ASSUME OneRowEach(rows.waiting)', OneRowEach(rows.prompt)', OneRowEach(rows.gen)',
         OfRows(rows.waiting)' \cap OfRows(rows.prompt)' = {},
         OfRows(rows.waiting)' \cap OfRows(rows.gen)' = {},
         OfRows(rows.prompt)' \cap OfRows(rows.gen)' = {},
         OfRows(rows.waiting)' \cup OfRows(rows.prompt)' \cup OfRows(rows.gen)' = batch'.results,
         Len(rows.prompt)' <= PromptConcurrency
  PROVE  RowsAreResults'
<1>1. ASSUME NEW part \in Parts PROVE OneRowEach(rows[part])'
  BY <1>1 DEF Parts
<1>2. ASSUME NEW p \in Parts, NEW q \in Parts, p # q
      PROVE  OfRows(rows[p])' \cap OfRows(rows[q])' = {}
  <2>1. CASE p = "waiting"
    <3>1. CASE q = "prompt"
      BY <2>1, <3>1
    <3>2. CASE q = "gen"
      BY <2>1, <3>2
    <3> QED BY <1>2, <2>1, <3>1, <3>2 DEF Parts
  <2>2. CASE p = "prompt"
    <3>1. CASE q = "waiting"
      BY <2>2, <3>1
    <3>2. CASE q = "gen"
      BY <2>2, <3>2
    <3> QED BY <1>2, <2>2, <3>1, <3>2 DEF Parts
  <2>3. CASE p = "gen"
    <3>1. CASE q = "waiting"
      BY <2>3, <3>1
    <3>2. CASE q = "prompt"
      BY <2>3, <3>2
    <3> QED BY <1>2, <2>3, <3>1, <3>2 DEF Parts
  <2> QED BY <2>1, <2>2, <2>3 DEF Parts
<1> QED BY <1>1, <1>2 DEF RowsAreResults

(* and before it. *)
LEMMA RowsApart ==
  ASSUME RowsAreResults
  PROVE  /\ OneRowEach(rows.waiting) /\ OneRowEach(rows.prompt) /\ OneRowEach(rows.gen)
         /\ OfRows(rows.waiting) \cap OfRows(rows.prompt) = {}
         /\ OfRows(rows.waiting) \cap OfRows(rows.gen) = {}
         /\ OfRows(rows.prompt) \cap OfRows(rows.gen) = {}
         /\ OfRows(rows.waiting) \cup OfRows(rows.prompt) \cup OfRows(rows.gen) = batch.results
         /\ Len(rows.prompt) <= PromptConcurrency
<1>1. /\ "waiting" \in Parts /\ "prompt" \in Parts /\ "gen" \in Parts
      /\ "waiting" # "prompt" /\ "waiting" # "gen" /\ "prompt" # "gen"
  BY DEF Parts
<1>2. \A part \in Parts : OneRowEach(rows[part])
  BY DEF RowsAreResults
<1>3. \A p, q \in Parts : p # q => OfRows(rows[p]) \cap OfRows(rows[q]) = {}
  BY DEF RowsAreResults
<1>4. OneRowEach(rows.waiting) /\ OneRowEach(rows.prompt) /\ OneRowEach(rows.gen)
  BY <1>1, <1>2, Zenon
<1>5. /\ OfRows(rows.waiting) \cap OfRows(rows.prompt) = {}
      /\ OfRows(rows.waiting) \cap OfRows(rows.gen) = {}
      /\ OfRows(rows.prompt) \cap OfRows(rows.gen) = {}
  BY <1>1, <1>3, Zenon
<1> QED BY <1>4, <1>5 DEF RowsAreResults

(* A step that leaves rows and results alone keeps the one the other. *)
LEMMA RowsKept ==
  ASSUME RowsAreResults, rows' = rows, batch'.results = batch.results
  PROVE  /\ RowsAreResults' /\ OfRows(rows.gen)' = OfRows(rows.gen)
<1>1. \A part : OneRowEach(rows[part]) => OneRowEach(rows[part])'
  BY DEF OneRowEach
<1>2. \A part : OfRows(rows[part])' = OfRows(rows[part])
  BY DEF OfRows
<1>3. /\ OfRows(rows.waiting)' = OfRows(rows.waiting)
      /\ OfRows(rows.prompt)' = OfRows(rows.prompt)
      /\ OfRows(rows.gen)' = OfRows(rows.gen)
  BY DEF OfRows
<1> QED BY <1>1, <1>2, <1>3 DEF RowsAreResults

(* An empty batch has no results. *)
LEMMA NoRowsLeft ==
  ASSUME rows' = NoRows, batch'.results = {}
  PROVE  /\ RowsAreResults' /\ OfRows(rows.gen)' = {}
         /\ rows' \in [Parts -> Seq(RowRecords)]
<1>1. rows'.waiting = <<>> /\ rows'.prompt = <<>> /\ rows'.gen = <<>>
  BY DEF NoRows
<1>2. OfRows(<<>>) = {} /\ OneRowEach(<<>>)
  BY DEF OfRows, OneRowEach
<1>3. Len(<<>>) <= PromptConcurrency
  <2>1. PromptConcurrency \in Nat \ {0}
    BY SizesAssumption
  <2> QED BY <2>1, EmptySeq
<1>4. /\ OfRows(rows.waiting)' = {} /\ OfRows(rows.prompt)' = {} /\ OfRows(rows.gen)' = {}
      /\ OneRowEach(rows.waiting)' /\ OneRowEach(rows.prompt)' /\ OneRowEach(rows.gen)'
      /\ Len(rows.prompt)' <= PromptConcurrency
  BY <1>1, <1>2, <1>3
<1>5. RowsAreResults'
  BY <1>4, RowsInParts
<1>6. rows' \in [Parts -> Seq(RowRecords)]
  <2>1. NoRows = [p \in Parts |-> <<>>]
    BY DEF NoRows, Parts
  <2>2. <<>> \in Seq(RowRecords)
    BY EmptySeq
  <2> QED BY <2>1, <2>2
<1> QED BY <1>4, <1>5, <1>6

----------------------------------------
(* The responses, client by client. *)

(* Boxes for one client. *)
BoxRight(c) ==
  /\ Ordered(inbox[c])
  /\ \A i \in DOMAIN inbox[c] : Rank(inbox[c][i]) <= Highest(c)
  /\ handler[c] \notin {"asking", "reading"} => inbox[c] = <<>>
  /\ handler[c] = "asking" /\ inbox[c] # <<>> => Head(inbox[c]) \in {"context", "error"}
  /\ handler[c] = "reading" => ~Contains(inbox[c], "context")

(* Boxes, client by client. *)
LEMMA BoxesAreRight == Boxes <=> \A c \in Clients : BoxRight(c)
BY DEF Boxes, BoxRight

(* The bound of a queue is a rank, or below all of them. *)
LEMMA HighestType == \A c \in Clients : Highest(c) \in -1..4 /\ Highest(c)' \in -1..4
BY DEF Highest

(* A queue holds responses. *)
LEMMA InboxType ==
  ASSUME Shapes, NEW c \in Clients
  PROVE  /\ inbox[c] \in Seq(Items) /\ Len(inbox[c]) \in Nat
         /\ DOMAIN inbox[c] = 1..Len(inbox[c])
         /\ \A i \in 1..Len(inbox[c]) : inbox[c][i] \in Items
<1>1. inbox[c] \in Seq(Items)
  BY DEF Shapes
<1> QED BY <1>1, LenProperties, ElementOfSeq

(* A response put into the queue of one request, unless its handler has *)
(* returned.                                                            *)
LEMMA SentToOne ==
  ASSUME Shapes, NEW c \in Clients, NEW item \in Items, inbox' = Sent(To(c, <<item>>))
  PROVE  /\ inbox' \in [Clients -> Seq(Items)]
         /\ \A d \in Clients \ {c} : inbox'[d] = inbox[d]
         /\ inbox'[c] = IF handler[c] \in Returned THEN inbox[c] ELSE Append(inbox[c], item)
<1>1. To(c, <<item>>)[c] = <<item>> /\ DOMAIN To(c, <<item>>) = {c}
  BY DEF To
<1>2. \A d \in Clients : inbox[d] \in Seq(Items)
  BY InboxType
<1>3. /\ inbox[c] \o <<item>> = Append(inbox[c], item)
      /\ Append(inbox[c], item) \in Seq(Items)
  BY <1>2, AppendIsConcat, AppendProperties
<1>4. inbox' = [d \in Clients |-> IF handler[d] \in Returned \/ d # c THEN inbox[d]
                                  ELSE Append(inbox[c], item)]
  <2>1. \A d \in Clients : (IF handler[d] \in Returned \/ d \notin DOMAIN To(c, <<item>>)
                              THEN inbox[d] ELSE inbox[d] \o To(c, <<item>>)[d])
                           = IF handler[d] \in Returned \/ d # c THEN inbox[d]
                             ELSE Append(inbox[c], item)
    BY <1>1, <1>3
  <2> QED BY <2>1 DEF Sent
<1> QED BY <1>2, <1>3, <1>4

(* The queue of a client stays as it should be when nothing is sent and *)
(* its request did not go back.                                         *)
LEMMA BoxStays ==
  ASSUME Shapes, NEW c \in Clients, BoxRight(c), inbox'[c] = inbox[c], handler'[c] = handler[c],
         Highest(c) <= Highest(c)' \/ inbox[c] = <<>>
  PROVE  BoxRight(c)'
<1>1. \A i \in DOMAIN inbox[c] : Rank(inbox[c][i]) <= Highest(c)'
  <2> SUFFICES ASSUME NEW i \in DOMAIN inbox[c] PROVE Rank(inbox[c][i]) <= Highest(c)'
    OBVIOUS
  <2>1. inbox[c] # <<>> /\ inbox[c][i] \in Items
    <3>1. i \in 1..Len(inbox[c])
      BY InboxType
    <3>2. Len(inbox[c]) # 0
      BY <3>1, InboxType
    <3> QED BY <3>1, <3>2, InboxType, EmptySeq
  <2>2. Rank(inbox[c][i]) \in 0..4 /\ Rank(inbox[c][i]) <= Highest(c)
    BY <2>1, RankProperties DEF BoxRight
  <2> QED BY <2>1, <2>2, HighestType
<1> QED BY <1>1 DEF BoxRight

(* The queue of a client stays as it should be when a response is sent *)
(* that may come at the place its request is at.                       *)
LEMMA BoxTakes ==
  ASSUME Shapes, NEW c \in Clients, NEW item \in Items, BoxRight(c),
         inbox'[c] = Append(inbox[c], item), handler'[c] = handler[c],
         handler[c] \in {"asking", "reading"},
         \/ Highest(c) < Rank(item)
         \/ item \in {"progress", "token"} /\ Highest(c) <= Rank(item),
         Rank(item) <= Highest(c)',
         item = "context" => handler[c] = "asking",
         handler[c] = "asking" /\ inbox[c] = <<>> => item \in {"context", "error"}
  PROVE  BoxRight(c)'
<1> DEFINE box  == inbox[c]
           more == Append(box, item)
           n    == Len(box)
<1>1. box \in Seq(Items) /\ n \in Nat /\ DOMAIN box = 1..n /\ \A i \in 1..n : box[i] \in Items
  BY InboxType
<1>2. /\ more \in Seq(Items) /\ Len(more) = n + 1 /\ more # <<>>
      /\ \A i \in 1..n : more[i] = box[i]
      /\ more[n + 1] = item
      /\ Head(more) = IF box = <<>> THEN item ELSE Head(box)
  BY <1>1, AppendProperties, HeadTailAppend
<1>3. \A i \in 1..n : Rank(box[i]) \in 0..4 /\ Rank(box[i]) <= Highest(c)
  BY <1>1, RankProperties DEF BoxRight
<1>4. Rank(item) \in 0..4 /\ Highest(c) \in -1..4 /\ Highest(c)' \in -1..4
  BY RankProperties, HighestType
<1>5. \A i \in DOMAIN box : \/ Rank(box[i]) < Rank(item)
                            \/ item \in {"progress", "token"} /\ Rank(box[i]) <= Rank(item)
  <2> HIDE DEF box, n
  <2> QED BY <1>1, <1>3, <1>4
<1>6. Ordered(more)
  BY <1>1, <1>5, OrderedAppend DEF BoxRight
<1> HIDE DEF more, n, box
<1>7. \A i \in DOMAIN more : Rank(more[i]) <= Highest(c)'
  <2> SUFFICES ASSUME NEW i \in 1..n + 1 PROVE Rank(more[i]) <= Highest(c)'
    BY <1>2, LenProperties
  <2>1. CASE i = n + 1
    BY <1>2, <2>1
  <2>2. CASE i \in 1..n
    BY <1>2, <1>3, <1>4, <2>2
  <2> QED BY <1>1, <2>1, <2>2
<1>8. handler[c] = "asking" => Head(more) \in {"context", "error"}
  BY <1>2 DEF BoxRight, box
<1>9. handler[c] = "reading" => ~Contains(more, "context")
  <2> SUFFICES ASSUME handler[c] = "reading", NEW i \in 1..n + 1 PROVE more[i] # "context"
    BY <1>2 DEF Contains
  <2>1. CASE i = n + 1
    BY <1>2, <2>1
  <2>2. CASE i \in 1..n
    BY <1>2, <2>2 DEF BoxRight, Contains, box, n
  <2> QED BY <1>1, <2>1, <2>2
<1>10. inbox'[c] = more
  BY DEF more, box
<1> QED BY <1>6, <1>7, <1>8, <1>9, <1>10 DEF BoxRight

(* The same, whether the handler still reads or has returned. *)
LEMMA BoxTakesOrGone ==
  ASSUME Shapes, Boxes, NEW c \in Clients, NEW item \in Items,
         inbox'[c] = IF handler[c] \in Returned THEN inbox[c] ELSE Append(inbox[c], item),
         handler' = handler, handler[c] \notin {"new", "submitting"},
         \/ Highest(c) < Rank(item)
         \/ item \in {"progress", "token"} /\ Highest(c) <= Rank(item),
         Rank(item) <= Highest(c)',
         item = "context" => handler[c] = "asking",
         handler[c] = "asking" /\ inbox[c] = <<>> => item \in {"context", "error"}
  PROVE  /\ BoxRight(c)'
         /\ handler[c] \in {"asking", "reading"} => inbox'[c] = Append(inbox[c], item)
<1>1. handler[c] \in {"asking", "reading"} \/ handler[c] \in Returned
  BY DEF Shapes, Stages
<1>2. BoxRight(c)
  BY BoxesAreRight
<1>3. CASE handler[c] \in {"asking", "reading"}
  <2>1. handler[c] \notin Returned
    BY <1>3 DEF Returned
  <2>2. inbox'[c] = Append(inbox[c], item) /\ handler'[c] = handler[c]
    BY <2>1
  <2>3. BoxRight(c)'
    BY <1>2, <1>3, <2>2, BoxTakes
  <2> QED BY <2>2, <2>3
<1>4. CASE handler[c] \in Returned
  <2>1. inbox'[c] = inbox[c] /\ handler'[c] = handler[c] /\ handler[c] \notin {"asking", "reading"}
    BY <1>4 DEF Returned
  <2>2. Highest(c) <= Highest(c)'
    BY RankProperties, HighestType
  <2> QED BY <1>2, <2>1, <2>2, BoxStays
<1> QED BY <1>1, <1>3, <1>4

(* The last token of a request of the batch, and its end behind it. *)
LEMMA BoxEnds ==
  ASSUME Shapes, Boxes, NEW c \in Clients, Highest(c) = 2, Highest(c)' = 4,
         handler[c] \in {"asking", "reading"}, handler' = handler,
         inbox'[c] = inbox[c] \o <<"token", "end">>,
         handler[c] = "asking" => inbox[c] # <<>>
  PROVE  BoxRight(c)' /\ Final(c)'
<1> DEFINE box  == inbox[c]
           some == Append(box, "token")
           more == Append(some, "end")
           n    == Len(box)
<1>1. box \in Seq(Items) /\ n \in Nat /\ DOMAIN box = 1..n /\ \A i \in 1..n : box[i] \in Items
  BY InboxType
<1>2. "token" \in Items /\ "end" \in Items
  BY DEF Items
<1>3. /\ some \in Seq(Items) /\ Len(some) = n + 1 /\ some # <<>>
      /\ \A i \in 1..n : some[i] = box[i]
      /\ some[n + 1] = "token"
      /\ Head(some) = IF box = <<>> THEN "token" ELSE Head(box)
  BY <1>1, <1>2, AppendProperties, HeadTailAppend
<1>4. /\ more \in Seq(Items) /\ Len(more) = n + 1 + 1 /\ more # <<>>
      /\ \A i \in 1..n + 1 : more[i] = some[i]
      /\ more[n + 1 + 1] = "end"
      /\ Head(more) = Head(some)
  <2> HIDE DEF some
  <2>1. /\ Append(some, "end") \in Seq(Items) /\ Len(Append(some, "end")) = Len(some) + 1
        /\ Append(some, "end") # <<>>
        /\ \A i \in 1..Len(some) : Append(some, "end")[i] = some[i]
        /\ Append(some, "end")[Len(some) + 1] = "end"
        /\ Head(Append(some, "end")) = IF some = <<>> THEN "end" ELSE Head(some)
    BY <1>2, <1>3, AppendProperties, HeadTailAppend
  <2> QED BY <1>3, <2>1
<1>5. inbox'[c] = more
  <2>1. box \o <<"token", "end">> = Append(Append(box, "token"), "end")
    <3>1. <<"token", "end">> = <<"token">> \o <<"end">>
      OBVIOUS
    <3>2. box \o (<<"token">> \o <<"end">>) = (box \o <<"token">>) \o <<"end">>
      <4>1. <<"token">> \in Seq(Items) /\ <<"end">> \in Seq(Items)
        BY <1>2
      <4> HIDE DEF box
      <4> QED BY <1>1, <4>1, ConcatAssociative
    <3>3. box \o <<"token">> = Append(box, "token")
      BY <1>1, <1>2, AppendIsConcat
    <3>4. Append(box, "token") \o <<"end">> = Append(Append(box, "token"), "end")
      BY <1>2, <1>3, AppendIsConcat
    <3> QED BY <3>1, <3>2, <3>3, <3>4
  <2> QED BY <2>1
<1>6. BoxRight(c)
  BY BoxesAreRight
<1>7. \A i \in 1..n : Rank(box[i]) \in 0..4 /\ Rank(box[i]) <= 2
  BY <1>1, <1>6, RankProperties DEF BoxRight
<1> HIDE DEF box, n
<1>8. Ordered(some)
  <2>1. Ordered(box)
    BY <1>6 DEF BoxRight, box
  <2>2. \A i \in DOMAIN box : \/ Rank(box[i]) < Rank("token")
                              \/ "token" \in {"progress", "token"} /\ Rank(box[i]) <= Rank("token")
    BY <1>1, <1>7, RankProperties
  <2> QED BY <1>1, <1>2, <2>1, <2>2, OrderedAppend
<1> HIDE DEF some
<1>9. DOMAIN some = 1..n + 1 /\ \A i \in 1..n + 1 : Rank(some[i]) \in 0..4 /\ Rank(some[i]) <= 2
  <2>1. DOMAIN some = 1..n + 1
    BY <1>3, LenProperties
  <2>2. \A i \in 1..n + 1 : i \in 1..n \/ i = n + 1
    BY <1>1
  <2> QED BY <1>3, <1>7, <2>1, <2>2, RankProperties
<1>10. Ordered(more)
  <2>1. \A i \in DOMAIN some : \/ Rank(some[i]) < Rank("end")
                               \/ "end" \in {"progress", "token"} /\ Rank(some[i]) <= Rank("end")
    BY <1>9, RankProperties
  <2> QED BY <1>2, <1>3, <1>8, <2>1, OrderedAppend
<1> HIDE DEF more
<1>11. DOMAIN more = 1..n + 1 + 1 /\ \A i \in 1..n + 1 + 1 : i \in 1..n + 1 \/ i = n + 1 + 1
  <2>1. \A i \in 1..n + 1 + 1 : i \in 1..n + 1 \/ i = n + 1 + 1
    BY <1>1
  <2> QED BY <1>4, <2>1, LenProperties
<1>12. \A i \in DOMAIN more : Rank(more[i]) <= 4
  BY <1>4, <1>9, <1>11, RankProperties
<1>13. handler[c] = "asking" => Head(more) \in {"context", "error"}
  BY <1>3, <1>4, <1>6 DEF BoxRight, box
<1>14. handler[c] = "reading" => ~Contains(more, "context")
  <2> SUFFICES ASSUME handler[c] = "reading", NEW i \in 1..n + 1 + 1 PROVE more[i] # "context"
    BY <1>4 DEF Contains
  <2>1. CASE i = n + 1 + 1
    BY <1>4, <2>1
  <2>2. CASE i \in 1..n + 1
    <3>1. more[i] = some[i]
      BY <1>4, <2>2
    <3>2. CASE i = n + 1
      BY <1>3, <3>1, <3>2
    <3>3. CASE i \in 1..n
      BY <1>3, <1>6, <3>1, <3>3 DEF BoxRight, Contains, box, n
    <3> QED BY <1>1, <2>2, <3>2, <3>3
  <2> QED BY <1>11, <2>1, <2>2
<1>15. BoxRight(c)'
  BY <1>5, <1>10, <1>12, <1>13, <1>14 DEF BoxRight
<1>16. Final(c)'
  <2>1. n + 1 + 1 \in DOMAIN more
    BY <1>1, <1>11
  <2> QED BY <1>4, <1>5, <2>1 DEF Final
<1> QED BY <1>15, <1>16

(* A last response stays in the queue, and one that is sent is the last. *)
LEMMA FinalAppend ==
  ASSUME Shapes, NEW c \in Clients, NEW item \in Items, inbox'[c] = Append(inbox[c], item)
  PROVE  /\ Final(c) => Final(c)'
         /\ item \in {"end", "error"} => Final(c)'
         /\ inbox'[c] # <<>>
         /\ inbox[c] # <<>> => Head(inbox'[c]) = Head(inbox[c])
         /\ inbox[c] = <<>> => Head(inbox'[c]) = item
<1> DEFINE n == Len(inbox[c])
           t == Append(inbox[c], item)
<1>1. inbox[c] \in Seq(Items) /\ n \in Nat /\ DOMAIN inbox[c] = 1..n
  BY InboxType
<1>2. t \in Seq(Items) /\ Len(t) = n + 1 /\ (\A i \in 1..n : t[i] = inbox[c][i]) /\ t[n + 1] = item
      /\ t # <<>> /\ Head(t) = IF inbox[c] = <<>> THEN item ELSE Head(inbox[c])
  BY <1>1, AppendProperties, HeadTailAppend
<1> HIDE DEF t, n
<1>3. DOMAIN t = 1..n + 1
  BY <1>2, LenProperties
<1>4. 1..n \subseteq 1..n + 1 /\ n + 1 \in 1..n + 1
  BY <1>1
<1>5. inbox'[c] = t
  BY DEF t
<1> QED BY <1>1, <1>2, <1>3, <1>4, <1>5 DEF Final

(* Informed for one client. *)
Told(c) ==
  /\ c \in Begun /\ ~(c = Serving /\ worker.at = "preparing") /\ handler[c] = "asking" =>
       inbox[c] # <<>> /\ Head(inbox[c]) = "context"
  /\ c = Serving /\ worker.at = "preparing" => handler[c] = "asking"
  /\ c = Serving /\ worker.at = "saving" /\ handler[c] \in {"asking", "reading"} => Final(c)
  /\ handler[c] \in {"asking", "reading"} =>
       c \in InLine \cup Begun \/ Final(c) \/ c \in stopped \/ worker.at \in {"dead", "stopped"}

(* Informed, client by client. *)
LEMMA InformedTold ==
  ASSUME ActiveInv, Shapes, Hands, Informed, NEW c \in Clients
  PROVE  Told(c)
<1>1. worker.at = "preparing" /\ c \in Begun => c = Serving
  <2>1. worker.at = "preparing" => batch.results = {}
    BY AloneIsApart DEF Alone
  <2> QED BY <2>1 DEF Begun
<1> QED BY <1>1 DEF Informed, Told

(* A request that stays where it is, while another one moves. *)
SamePlace(d) ==
  /\ d \in InLine' <=> d \in InLine
  /\ d \in batch'.results <=> d \in batch.results
  /\ d \in OfRows(rows.gen)' <=> d \in OfRows(rows.gen)
  /\ Serving' = d <=> Serving = d
  /\ Serving = d => worker'.at = worker.at
  /\ worker.at \in {"dead", "stopped"} => worker'.at \in {"dead", "stopped"}

(* What holds of its responses holds on. *)
LEMMA OthersKept ==
  ASSUME ActiveInv, Core, handler' = handler, stopped' = stopped, NEW d \in Clients,
         inbox'[d] = inbox[d], SamePlace(d)
  PROVE  BoxRight(d)' /\ Told(d)'
<1>0. Shapes /\ Hands /\ RowsAreResults /\ Boxes /\ Informed
  BY DEF Core
<1>1. Highest(d)' = Highest(d)
  BY DEF SamePlace, Highest
<1>2. Highest(d) <= Highest(d)'
  BY <1>1, HighestType
<1>3. BoxRight(d)'
  BY <1>0, <1>2, BoxesAreRight, BoxStays
<1>4. Told(d)
  BY <1>0, InformedTold
<1>5. d \in Begun' <=> d \in Begun
  BY DEF SamePlace, Begun
<1>6. Final(d)' <=> Final(d)
  BY DEF Final
<1> QED BY <1>3, <1>4, <1>5, <1>6 DEF Told, SamePlace

(* The invariant, client by client. *)
LEMMA CoreFromClients ==
  ASSUME ActiveInv', Shapes', Hands', RowsAreResults',
         \A d \in Clients : BoxRight(d)' /\ Told(d)'
  PROVE  Core'
<1>1. Boxes'
  BY DEF Boxes, BoxRight
<1>2. /\ Serving' \in Clients \cup {None} /\ (worker'.at \in Alone <=> Serving' # None)
      /\ None \notin Clients
  BY SizesAssumption DEF ActiveInv, WorkerInv, Serving
<1>3. Begun' \subseteq Clients
  BY <1>2 DEF Begun, Shapes
<1>4. worker'.at \in {"preparing", "saving"} => Serving' \in Clients
  BY <1>2 DEF Alone
<1>5. Informed'
  BY <1>3, <1>4 DEF Informed, Told
<1> QED BY <1>1, <1>5 DEF Core

(* Nothing a request's place depends on has moved. *)
Still == UNCHANGED <<requests, aside, batch, rows, worker>>

(* Then every request is where it was. *)
LEMMA StillPlaces ==
  ASSUME Still
  PROVE  /\ Waiting' = Waiting /\ InLine' = InLine /\ Begun' = Begun /\ Serving' = Serving
         /\ \A c \in Clients : Highest(c)' = Highest(c)
         /\ RowsAreResults => RowsAreResults'
<1>1. Waiting' = Waiting /\ Serving' = Serving
  BY DEF Still, Waiting, Serving
<1>2. InLine' = InLine /\ Begun' = Begun
  BY <1>1 DEF Still, InLine, Begun
<1>3. \A c \in Clients : Highest(c)' = Highest(c)
  BY <1>1, <1>2 DEF Still, Highest, OfRows
<1>4. RowsAreResults => RowsAreResults'
  <2>1. rows' = rows /\ batch' = batch
    BY DEF Still
  <2>2. \A part : OneRowEach(rows[part]) => OneRowEach(rows[part])'
    BY <2>1 DEF OneRowEach
  <2>3. \A part : OfRows(rows[part])' = OfRows(rows[part])
    BY <2>1 DEF OfRows
  <2>4. /\ OfRows(rows.waiting)' = OfRows(rows.waiting)
        /\ OfRows(rows.prompt)' = OfRows(rows.prompt)
        /\ OfRows(rows.gen)' = OfRows(rows.gen)
    BY <2>1 DEF OfRows
  <2> QED BY <2>1, <2>2, <2>3, <2>4 DEF RowsAreResults
<1> QED BY <1>1, <1>2, <1>3, <1>4

----------------------------------------
(* The handlers. *)

(* A handler reads a response (ReadProgress, ReadToken, ReadEnd and the *)
(* context).                                                            *)
LEMMA ReadKeepsCore ==
  ASSUME ActiveInv, Core, NEW c \in Clients, NEW stage \in {"reading", "done", "failed"},
         NEW stopping \in BOOLEAN, Proceed(c, stage, stopping),
         handler[c] \in {"asking", "reading"}, inbox[c] # <<>>,
         stage = "reading" => /\ Head(inbox[c]) \in Items \ {"end", "error"}
                              /\ handler[c] = "reading" \/ Head(inbox[c]) = "context"
  PROVE  Core'
<1> DEFINE box == inbox[c]
           rest == Tail(inbox[c])
<1> USE DEF Returned
<1>0. Shapes /\ Hands /\ RowsAreResults /\ Boxes /\ Informed
  BY DEF Core
<1>1. Still /\ UNCHANGED <<ask, online, tokens, stop>>
  BY DEF Proceed, Still
<1>2. /\ Waiting' = Waiting /\ InLine' = InLine /\ Begun' = Begun /\ Serving' = Serving
      /\ \A d \in Clients : Highest(d)' = Highest(d)
      /\ RowsAreResults'
  BY <1>0, <1>1, StillPlaces
<1>3. /\ inbox[c] \in Seq(Items) /\ Ordered(inbox[c])
      /\ \A i \in DOMAIN box : Rank(box[i]) <= Highest(c)
  BY <1>0, InboxType DEF Boxes
<1>4. /\ rest \in Seq(Items) /\ Ordered(rest)
      /\ \A i \in DOMAIN rest : \E j \in DOMAIN box : rest[i] = box[j]
      /\ Head(box) = "context" => ~Contains(rest, "context")
      /\ ~Contains(box, "context") => ~Contains(rest, "context")
      /\ Head(box) \notin {"end", "error"} =>
           \A i \in DOMAIN box : box[i] \in {"end", "error"} =>
             \E j \in DOMAIN rest : rest[j] \in {"end", "error"}
  BY <1>3, OrderedTail
<1>5. /\ handler' = [handler EXCEPT ![c] = stage]
      /\ inbox' = [inbox EXCEPT ![c] = IF stage \in Returned THEN <<>> ELSE rest]
      /\ stopped' = IF stopping THEN stopped \cup {c} ELSE stopped
  BY DEF Proceed
<1>6. /\ handler'[c] = stage /\ \A d \in Clients \ {c} : handler'[d] = handler[d]
      /\ inbox'[c] = (IF stage \in Returned THEN <<>> ELSE rest)
      /\ \A d \in Clients \ {c} : inbox'[d] = inbox[d]
      /\ stopped \subseteq stopped' /\ stopped' \subseteq Clients
  BY <1>0, <1>5 DEF Shapes
<1>7. Shapes'
  <2>1. handler' \in [Clients -> Stages]
    BY <1>0, <1>5 DEF Shapes, Stages
  <2>2. inbox' \in [Clients -> Seq(Items)]
    <3>1. (IF stage \in Returned THEN <<>> ELSE rest) \in Seq(Items)
      BY <1>4, EmptySeq
    <3> HIDE DEF rest
    <3> QED BY <1>0, <1>5, <3>1 DEF Shapes
  <2>3. \A d \in Clients : handler'[d] # "new" => ask[d] \in Kinds
    BY <1>0, <1>6 DEF Shapes
  <2> HIDE DEF Returned
  <2> QED BY <1>0, <1>1, <1>6, <2>1, <2>2, <2>3 DEF Shapes, Still
<1>8. c \notin InLine
  BY <1>0 DEF Hands
<1>9. Hands'
  <2>1. \A d \in InLine : handler'[d] = "asking" /\ inbox'[d] = <<>>
    <3>1. InLine \subseteq Clients
      <4>1. Waiting \in Seq(Clients)
        BY <1>0, ConcatProperties DEF Shapes, Waiting
      <4> QED BY <4>1, LenProperties, ElementOfSeq DEF InLine
    <3> QED BY <1>0, <1>6, <1>8, <3>1 DEF Hands
  <2>2. \A d \in Begun : handler'[d] \notin {"new", "submitting"}
    <3>1. Begun \subseteq Clients
      BY <1>0, WorkerFacts DEF Begun, Shapes
    <3> QED BY <1>0, <1>6, <3>1 DEF Hands
  <2> HIDE DEF Returned
  <2> QED BY <1>0, <1>1, <1>2, <1>6, <2>1, <2>2 DEF Hands, Once, Still
<1>10. Boxes'
  <2>1. \A d \in Clients : BoxRight(d)
    BY <1>0, BoxesAreRight
  <2>2. ASSUME NEW d \in Clients PROVE BoxRight(d)'
    <3>1. CASE d # c
      <4>1. Highest(d) <= Highest(d)'
        BY <1>2, HighestType
      <4> QED BY <1>0, <1>6, <2>1, <3>1, <4>1, BoxStays
    <3>2. CASE d = c /\ stage \in Returned
      <4>1. inbox'[c] = <<>> /\ handler'[c] \notin {"asking", "reading"}
        BY <1>6, <3>2
      <4> QED BY <3>2, <4>1 DEF BoxRight, Ordered
    <3>3. CASE d = c /\ stage = "reading"
      <4>1. inbox'[c] = rest /\ handler'[c] = "reading"
        BY <1>6, <3>3
      <4>2. \A i \in DOMAIN rest : Rank(rest[i]) <= Highest(c)'
        BY <1>2, <1>3, <1>4
      <4>3. ~Contains(rest, "context")
        BY <1>0, <1>4, <3>3 DEF Boxes
      <4> HIDE DEF rest
      <4> QED BY <1>4, <3>3, <4>1, <4>2, <4>3 DEF BoxRight
    <3> QED BY <3>1, <3>2, <3>3
  <2> QED BY <2>2, BoxesAreRight DEF Boxes, BoxRight
<1>11. Informed'
  <2>1. worker' = worker
    BY <1>1 DEF Still
  <2>2. Begun \subseteq Clients
    BY <1>0, WorkerFacts DEF Begun, Shapes
  <2>3. stage # "asking" /\ (stage = "reading" \/ stage \in Returned)
    OBVIOUS
  <2>4. ASSUME worker.at = "preparing" PROVE c # Serving
    <3>1. worker.at \in Alone
      BY <2>4 DEF Alone
    <3>2. Highest(Serving) = -1
      BY <2>4, <3>1, <1>0, AloneIsApart DEF Highest
    <3>3. \E i \in DOMAIN inbox[c] : Rank(inbox[c][i]) \in 0..4
      <4>1. 1 \in 1..Len(inbox[c])
        BY <1>3, EmptySeq
      <4> QED BY <4>1, <1>0, InboxType, RankProperties
    <3> QED BY <1>3, <3>2, <3>3
  <2>5. Final(c) /\ stage = "reading" => Final(c)'
    BY <1>4, <1>6 DEF Final
  <2>6. \A d \in Clients \ {c} : Final(d) => Final(d)'
    BY <1>6 DEF Final
  <2>7. \A d \in Begun : worker.at # "preparing" /\ handler'[d] = "asking" =>
          inbox'[d] # <<>> /\ Head(inbox'[d]) = "context"
    BY <1>0, <1>6, <2>2, <2>3 DEF Informed
  <2>8. worker.at = "preparing" => handler'[Serving] = "asking"
    <3>1. worker.at = "preparing" => Serving \in Clients
      BY WorkerFacts DEF Alone
    <3> QED BY <1>0, <1>6, <2>4, <3>1 DEF Informed
  <2>9. worker.at = "saving" /\ handler'[Serving] \in {"asking", "reading"} => Final(Serving)'
    <3>1. worker.at = "saving" => Serving \in Clients
      BY WorkerFacts DEF Alone
    <3>2. worker.at = "saving" /\ handler[Serving] \in {"asking", "reading"} => Final(Serving)
      BY <1>0 DEF Informed
    <3>3. CASE Serving = c
      BY <1>2, <1>6, <2>3, <2>5, <3>2, <3>3
    <3>4. CASE Serving # c
      BY <1>2, <1>6, <2>6, <3>1, <3>2, <3>4
    <3> QED BY <3>3, <3>4
  <2>10. \A d \in Clients : handler'[d] \in {"asking", "reading"} =>
           \/ d \in InLine \cup Begun \/ Final(d)' \/ d \in stopped'
           \/ worker.at \in {"dead", "stopped"}
    <3> SUFFICES ASSUME NEW d \in Clients, handler'[d] \in {"asking", "reading"}
                 PROVE  \/ d \in InLine \cup Begun \/ Final(d)' \/ d \in stopped'
                        \/ worker.at \in {"dead", "stopped"}
      OBVIOUS
    <3>1. handler[d] \in {"asking", "reading"} /\ (d = c => stage = "reading")
      BY <1>6, <2>3
    <3>2. \/ d \in InLine \cup Begun \/ Final(d) \/ d \in stopped
          \/ worker.at \in {"dead", "stopped"}
      BY <1>0, <3>1 DEF Informed
    <3> QED BY <1>6, <2>5, <2>6, <3>1, <3>2
  <2> HIDE DEF Returned
  <2> QED BY <1>2, <2>1, <2>7, <2>8, <2>9, <2>10 DEF Informed
<1> QED BY <1>2, <1>7, <1>9, <1>10, <1>11 DEF Core

(* A step that moves no request and sends nothing: a handler that is not *)
(* yet in line, a lost connection, a context that is stopped, the stop   *)
(* flag.                                                                 *)
LEMMA QuietKeepsCore ==
  ASSUME ActiveInv, Core, Still, Shapes', inbox' = inbox, stopped \subseteq stopped',
         \A c \in Clients : \/ handler'[c] = handler[c]
                            \/ handler[c] = "new" /\ handler'[c] = "submitting",
         \A c \in Clients : handler[c] # "new" => ask'[c] = ask[c]
  PROVE  Core'
<1>0. Shapes /\ Hands /\ RowsAreResults /\ Boxes /\ Informed
  BY DEF Core
<1>1. /\ Waiting' = Waiting /\ InLine' = InLine /\ Begun' = Begun /\ Serving' = Serving
      /\ \A d \in Clients : Highest(d)' = Highest(d)
      /\ RowsAreResults'
  BY <1>0, StillPlaces
<1>2. InLine \subseteq Clients /\ Begun \subseteq Clients /\ batch.results \subseteq Begun
  BY <1>0, WaitingType, BegunType DEF Begun
<1>3. Hands'
  <2>1. \A d \in InLine : handler'[d] = "asking" /\ inbox'[d] = <<>>
    BY <1>0, <1>2 DEF Hands
  <2>2. \A d \in Begun : handler'[d] \notin {"new", "submitting"}
    BY <1>0, <1>2 DEF Hands
  <2>3. \A d \in batch.results : batch.model = ask'[d].model /\ ask'[d].batchable
    BY <1>0, <1>2 DEF Hands
  <2> QED BY <1>0, <1>1, <2>1, <2>2, <2>3 DEF Hands, Once, Still
<1>4. Boxes'
  <2>1. ASSUME NEW d \in Clients PROVE BoxRight(d)'
    <3>1. BoxRight(d)
      BY <1>0, BoxesAreRight
    <3>2. CASE handler'[d] = handler[d]
      <4>1. Highest(d) <= Highest(d)'
        BY <1>1, HighestType
      <4> QED BY <1>0, <3>1, <3>2, <4>1, BoxStays
    <3>3. CASE handler[d] = "new" /\ handler'[d] = "submitting"
      <4>1. inbox'[d] = <<>>
        BY <3>1, <3>3 DEF BoxRight
      <4> QED BY <3>3, <4>1 DEF BoxRight, Ordered
    <3> QED BY <3>2, <3>3
  <2> QED BY <2>1 DEF Boxes, BoxRight
<1>5. Informed'
  <2>1. worker' = worker /\ \A d : Final(d)' = Final(d)
    BY DEF Still, Final
  <2>2. \A d \in Begun : handler'[d] = handler[d]
    BY <1>0, <1>2 DEF Hands
  <2>3. worker.at \in {"preparing", "saving"} => Serving \in Begun
    BY WorkerFacts DEF Alone, Begun
  <2>4. \A d \in Clients : handler'[d] \in {"asking", "reading"} => handler'[d] = handler[d]
    OBVIOUS
  <2> QED BY <1>0, <1>1, <2>1, <2>2, <2>3, <2>4 DEF Informed
<1> QED BY <1>1, <1>3, <1>4, <1>5 DEF Core

(* A handler puts its request into the queue, or finds the server *)
(* stopped.                                                       *)
LEMMA SubmitKeepsCore ==
  ASSUME ActiveInv, Core, NEW c \in Clients, Submit(c)
  PROVE  Core'
<1>0. Shapes /\ Hands /\ RowsAreResults /\ Boxes /\ Informed
  BY DEF Core
<1>1. /\ handler[c] = "submitting" /\ handler' = [handler EXCEPT ![c] = "asking"]
      /\ requests' = Append(requests, c)
      /\ UNCHANGED <<ask, online, inbox, stopped, aside, active, worker, batch, rows, saved, tokens, stop>>
  BY DEF Submit
<1>2. handler'[c] = "asking" /\ \A d \in Clients \ {c} : handler'[d] = handler[d]
  BY <1>0, <1>1 DEF Shapes
<1>3. c \notin InLine /\ c \notin Begun /\ inbox[c] = <<>> /\ inbox'[c] = <<>>
  BY <1>0, <1>1 DEF Hands, Boxes
<1>4. Waiting' = Append(Waiting, c) /\ requests' \in Seq(Clients)
  <2>1. requests \in Seq(Clients) /\ aside \in Seq(Clients) /\ <<c>> \in Seq(Clients)
    BY <1>0 DEF Shapes
  <2>2. requests' = requests \o <<c>> /\ requests' \in Seq(Clients)
    BY <1>1, <2>1, AppendIsConcat, AppendProperties
  <2>3. Waiting' = (aside \o requests) \o <<c>>
    BY <1>1, <2>1, <2>2, ConcatAssociative DEF Waiting
  <2>4. Waiting \in Seq(Clients)
    BY <1>0, WaitingType
  <2> QED BY <2>2, <2>3, <2>4, AppendIsConcat DEF Waiting
<1>5. Once(Waiting') /\ InLine' = InLine \cup {c}
  <2>1. Waiting \in Seq(Clients) /\ \A i \in DOMAIN Waiting : Waiting[i] # c
    BY <1>0, <1>3, WaitingType DEF InLine
  <2>2. Once(Waiting)
    BY <1>0 DEF Hands
  <2>3. Once(Append(Waiting, c))
        /\ {Append(Waiting, c)[i] : i \in DOMAIN Append(Waiting, c)} = InLine \cup {c}
    BY <2>1, <2>2, LineAppend DEF InLine
  <2> QED BY <1>4, <2>3 DEF InLine
<1>6. Serving' = Serving /\ Begun' = Begun /\ batch' = batch /\ rows' = rows /\ worker' = worker
  BY <1>1 DEF Serving, Begun
<1>7. Shapes'
  <2>1. handler' \in [Clients -> Stages]
    BY <1>0, <1>1 DEF Shapes, Stages
  <2>2. \A d \in Clients : handler'[d] # "new" => ask'[d] \in Kinds
    BY <1>0, <1>1, <1>2 DEF Shapes
  <2> QED BY <1>0, <1>1, <1>4, <2>1, <2>2 DEF Shapes
<1>8. Hands'
  <2>1. \A d \in InLine \cup {c} : handler'[d] = "asking" /\ inbox'[d] = <<>>
    <3>1. InLine \subseteq Clients
      BY <1>0, WaitingType
    <3> QED BY <1>0, <1>1, <1>2, <1>3, <3>1 DEF Hands
  <2>2. \A d \in Begun : handler'[d] \notin {"new", "submitting"}
    <3>1. Begun \subseteq Clients
      BY <1>0, BegunType
    <3> QED BY <1>0, <1>2, <1>3, <3>1 DEF Hands
  <2>3. (InLine \cup {c}) \cap Begun = {}
    BY <1>0, <1>3 DEF Hands
  <2> QED BY <1>0, <1>1, <1>5, <1>6, <2>1, <2>2, <2>3 DEF Hands
<1>9. RowsAreResults'
  <2>1. OfRows(rows.waiting)' = OfRows(rows.waiting)
        /\ OfRows(rows.prompt)' = OfRows(rows.prompt)
        /\ OfRows(rows.gen)' = OfRows(rows.gen)
        /\ (\A part : OfRows(rows[part])' = OfRows(rows[part]))
        /\ (\A part : OneRowEach(rows[part]) => OneRowEach(rows[part])')
    BY <1>6 DEF OfRows, OneRowEach
  <2> QED BY <1>0, <1>6, <2>1 DEF RowsAreResults
<1>10. Boxes'
  <2>1. ASSUME NEW d \in Clients \ {c} PROVE BoxRight(d)'
    <3>1. BoxRight(d)
      BY <1>0, BoxesAreRight
    <3>2. d \in InLine' <=> d \in InLine
      BY <1>5
    <3>3. Highest(d)' = Highest(d)
      BY <1>6, <3>2 DEF Highest, OfRows
    <3>4. Highest(d) <= Highest(d)'
      BY <3>3, HighestType
    <3> QED BY <1>0, <1>1, <1>2, <3>1, <3>4, BoxStays
  <2>2. BoxRight(c)'
    BY <1>2, <1>3 DEF BoxRight, Ordered, Contains
  <2>3. \A d \in Clients : BoxRight(d)'
    BY <2>1, <2>2
  <2> QED BY <2>3 DEF Boxes, BoxRight
<1>11. Informed'
  <2>1. \A d : Final(d)' = Final(d)
    BY <1>1 DEF Final
  <2>2. \A d \in Begun : handler'[d] = handler[d]
    BY <1>2, <1>3, <1>0, BegunType
  <2>3. worker.at \in {"preparing", "saving"} => Serving \in Begun
    BY WorkerFacts DEF Alone, Begun
  <2> QED BY <1>0, <1>1, <1>2, <1>5, <1>6, <2>1, <2>2, <2>3 DEF Informed
<1> QED BY <1>7, <1>8, <1>9, <1>10, <1>11 DEF Core

(* Every step of a handler, of its client and of its connection. *)
LEMMA HandlerKeepsCore ==
  ASSUME ActiveInv, Core, NEW c \in Clients,
         Handle(c) \/ Disconnect(c) \/ \E k \in MayAsk[c] : Arrive(c, k)
  PROVE  Core'
<1>0. Shapes /\ Hands /\ RowsAreResults /\ Boxes /\ Informed
  BY DEF Core
<1>1. CASE Submit(c)
  BY <1>1, SubmitKeepsCore
<1>2. ASSUME NEW stage \in {"reading", "done", "failed"}, NEW stopping \in BOOLEAN,
             NEW item \in Items, Reads(c, item),
             Proceed(c, stage, stopping), handler[c] \in {"asking", "reading"},
             stage = "reading" => /\ item \notin {"end", "error"}
                                  /\ handler[c] = "reading" \/ item = "context"
      PROVE  Core'
  <2>1. inbox[c] # <<>> /\ Head(inbox[c]) = item
    BY <1>2 DEF Reads
  <2>2. stage = "reading" => /\ Head(inbox[c]) \in Items \ {"end", "error"}
                             /\ handler[c] = "reading" \/ Head(inbox[c]) = "context"
    BY <1>2, <2>1
  <2> QED BY <1>2, <2>1, <2>2, ReadKeepsCore
<1>i. /\ "context" \in Items /\ "progress" \in Items /\ "token" \in Items /\ "end" \in Items
      /\ "error" \in Items
  BY DEF Items
<1>b. TRUE \in BOOLEAN /\ FALSE \in BOOLEAN /\ WriteFails(c) \in BOOLEAN
  BY DEF WriteFails
<1>3. CASE GetContext(c)
  <2>1. handler[c] = "asking"
    BY <1>3 DEF GetContext
  <2>2. CASE Reads(c, "context") /\ Proceed(c, "reading", FALSE)
    BY <1>2, <1>i, <1>b, <2>1, <2>2
  <2>3. CASE Reads(c, "context") /\ Proceed(c, "done", TRUE)
    BY <1>2, <1>i, <1>b, <2>1, <2>3
  <2>4. CASE Reads(c, "error") /\ Proceed(c, "failed", FALSE)
    BY <1>2, <1>i, <1>b, <2>1, <2>4
  <2> QED BY <1>3, <2>2, <2>3, <2>4 DEF GetContext
<1>4. CASE ReadProgress(c)
  <2>1. handler[c] = "reading" /\ Reads(c, "progress") /\ Proceed(c, "reading", WriteFails(c))
    BY <1>4 DEF ReadProgress
  <2>2. PICK stopping \in BOOLEAN : Proceed(c, "reading", stopping)
    BY <1>b, <2>1
  <2> QED BY <1>2, <1>i, <2>1, <2>2
<1>5. CASE ReadToken(c)
  <2>1. handler[c] = "reading" /\ Reads(c, "token")
    BY <1>5 DEF ReadToken
  <2>2. CASE Proceed(c, "reading", FALSE)
    BY <1>2, <1>i, <1>b, <2>1, <2>2
  <2>3. CASE Proceed(c, "done", TRUE)
    BY <1>2, <1>i, <1>b, <2>1, <2>3
  <2> QED BY <1>5, <2>2, <2>3 DEF ReadToken
<1>6. CASE ReadEnd(c)
  <2>1. handler[c] = "reading"
    BY <1>6 DEF ReadEnd
  <2>2. CASE Reads(c, "end") /\ Proceed(c, "done", TRUE)
    BY <1>2, <1>i, <1>b, <2>1, <2>2
  <2>3. CASE Reads(c, "error") /\ Proceed(c, "failed", TRUE)
    BY <1>2, <1>i, <1>b, <2>1, <2>3
  <2> QED BY <1>6, <2>2, <2>3 DEF ReadEnd
<1>7. CASE Idled(c)
  <2>1. /\ Still /\ inbox' = inbox /\ handler' = handler /\ ask' = ask
        /\ stopped' = stopped \cup {c}
        /\ UNCHANGED <<online, tokens, stop>>
    BY <1>7 DEF Idled, Still, handlers
  <2>2. Shapes'
    BY <1>0, <2>1 DEF Shapes, Still
  <2> QED BY <2>1, <2>2, QuietKeepsCore
<1>8. CASE Disconnect(c)
  <2>1. /\ Still /\ inbox' = inbox /\ handler' = handler /\ ask' = ask
        /\ stopped' = stopped /\ online' = online \ {c} /\ UNCHANGED <<tokens, stop>>
    BY <1>8 DEF Disconnect, Still
  <2>2. Shapes'
    BY <1>0, <2>1 DEF Shapes, Still
  <2> QED BY <2>1, <2>2, QuietKeepsCore
<1>9. ASSUME NEW k \in MayAsk[c], Arrive(c, k) PROVE Core'
  <2>1. /\ Still /\ inbox' = inbox /\ handler[c] = "new"
        /\ ask' = [ask EXCEPT ![c] = k] /\ handler' = [handler EXCEPT ![c] = "submitting"]
        /\ stopped' = IF CancelActive /\ active # None /\ ask[active].vision
                        THEN stopped \cup {active} ELSE stopped
        /\ UNCHANGED <<online, tokens, stop>>
    BY <1>9 DEF Arrive, Still
  <2>2. k \in Kinds
    BY DEF Kinds
  <2>3. stopped \subseteq stopped' /\ stopped' \subseteq Clients
    <3>1. active # None => active \in Clients
      <4>1. active = IF worker.at \in Alone \ {"preparing"} THEN Serving ELSE None
        BY DEF ActiveInv, ActiveIsServed
      <4> QED BY <4>1, WorkerFacts
    <3> QED BY <1>0, <2>1, <3>1 DEF Shapes
  <2>4. /\ ask' \in [Clients -> Kinds \cup {None}] /\ handler' \in [Clients -> Stages]
        /\ \A d \in Clients \ {c} : handler'[d] = handler[d] /\ ask'[d] = ask[d]
        /\ handler'[c] = "submitting" /\ ask'[c] = k
    BY <1>0, <2>1, <2>2 DEF Shapes, Stages
  <2>5. \A d \in Clients : handler'[d] # "new" => ask'[d] \in Kinds
    BY <1>0, <2>2, <2>4 DEF Shapes
  <2>6. Shapes'
    BY <1>0, <2>1, <2>3, <2>4, <2>5 DEF Shapes, Still
  <2>7. /\ \A d \in Clients : \/ handler'[d] = handler[d]
                              \/ handler[d] = "new" /\ handler'[d] = "submitting"
        /\ \A d \in Clients : handler[d] # "new" => ask'[d] = ask[d]
    BY <2>1, <2>4
  <2> QED BY <2>1, <2>3, <2>6, <2>7, QuietKeepsCore
<1> QED BY <1>1, <1>3, <1>4, <1>5, <1>6, <1>7, <1>8, <1>9 DEF Handle

(* The main thread stops the server. *)
LEMMA StopKeepsCore ==
  ASSUME ActiveInv, Core, StopServer
  PROVE  Core'
<1>1. /\ Still /\ inbox' = inbox /\ handler' = handler /\ ask' = ask
      /\ stopped' = stopped /\ stop' = TRUE /\ UNCHANGED <<online, tokens>>
  BY DEF StopServer, Still, handlers
<1>2. Shapes'
  BY <1>1 DEF Core, Shapes, Still
<1> QED BY <1>1, <1>2, QuietKeepsCore

----------------------------------------
(* _generate takes a request, and leaves a batch. *)

(* What _generate knows of the request it takes: it is the first in line, *)
(* its handler waits for the context, and it got no response yet.         *)
LEMMA TakenFacts ==
  ASSUME ActiveInv, Core, NEW c \in Clients, Takes(c)
  PROVE  /\ Waiting # <<>> /\ c = Head(Waiting) /\ c \in InLine /\ worker.at = "loop"
         /\ Serving = None /\ c # None /\ c \notin Begun /\ c \notin batch.results
         /\ handler[c] = "asking" /\ inbox[c] = <<>> /\ ask[c] \in Kinds
         /\ Begun = batch.results /\ c \notin OfRows(rows.gen) /\ Once(Waiting)
         /\ Begun \subseteq Clients /\ InLine \subseteq Clients
         /\ \A d \in Clients : Serving # d
<1>0. Shapes /\ Hands /\ RowsAreResults /\ Boxes /\ Informed
  BY DEF Core
<1>1. Waiting # <<>> /\ c = Head(Waiting) /\ worker.at = "loop"
  BY DEF Takes
<1>2. c \in InLine
  BY <1>0, <1>1, WaitingType
<1>3. Serving = None /\ None \notin Clients
  BY <1>1, WorkerFacts DEF Alone
<1>4. Begun = batch.results
  BY <1>0, <1>3 DEF Begun, Shapes
<1>5. c \notin Begun /\ handler[c] = "asking" /\ inbox[c] = <<>> /\ Once(Waiting)
  BY <1>0, <1>2 DEF Hands
<1>6. ask[c] \in Kinds
  BY <1>0, <1>5 DEF Shapes
<1>7. c \notin OfRows(rows.gen)
  BY <1>0, <1>4, <1>5 DEF RowsAreResults
<1> QED BY <1>0, <1>1, <1>2, <1>3, <1>4, <1>5, <1>6, <1>7, WaitingType, BegunType

(* A request is refused: its segments or its model cannot be had, and an *)
(* error is sent.                                                        *)
LEMMA RefuseKeepsCore ==
  ASSUME ActiveInv, Core, NEW c \in Clients, Refuse(c)
  PROVE  Core'
<1>0. Shapes /\ Hands /\ RowsAreResults /\ Boxes /\ Informed
  BY DEF Core
<1>1. /\ inbox' = Sent(To(c, <<"error">>)) /\ Dequeued /\ Takes(c)
      /\ UNCHANGED <<ask, handler, online, stopped, active, worker, batch, rows, saved, tokens, stop>>
  BY DEF Refuse, handlers
<1>2. /\ Waiting # <<>> /\ c = Head(Waiting) /\ c \in InLine /\ worker.at = "loop"
      /\ Serving = None /\ c # None /\ c \notin Begun /\ c \notin batch.results
      /\ handler[c] = "asking" /\ inbox[c] = <<>> /\ ask[c] \in Kinds
      /\ Begun = batch.results /\ c \notin OfRows(rows.gen) /\ Once(Waiting)
      /\ Begun \subseteq Clients /\ InLine \subseteq Clients
  BY <1>1, TakenFacts
<1>3. /\ requests' \in Seq(Clients) /\ aside' \in Seq(Clients) /\ Len(aside') <= 1
      /\ Once(Waiting') /\ InLine' = InLine \ {c}
  BY <1>0, <1>1, <1>2, LineDequeued
<1>4. /\ inbox' \in [Clients -> Seq(Items)]
      /\ \A d \in Clients \ {c} : inbox'[d] = inbox[d]
      /\ inbox'[c] = Append(inbox[c], "error")
  BY <1>0, <1>1, <1>2, SentToOne DEF Items, Returned
<1>5. Serving' = Serving /\ Begun' = Begun
  BY <1>1 DEF Serving, Begun
<1>6. Shapes'
  BY <1>0, <1>1, <1>3, <1>4 DEF Shapes
<1>7. Hands'
  <2>1. \A d \in InLine' : handler'[d] = "asking" /\ inbox'[d] = <<>>
    BY <1>0, <1>1, <1>2, <1>3, <1>4 DEF Hands
  <2>2. InLine' \cap Begun' = {}
    BY <1>0, <1>3, <1>5 DEF Hands
  <2> QED BY <1>0, <1>1, <1>3, <1>5, <2>1, <2>2 DEF Hands
<1>8. RowsAreResults' /\ OfRows(rows.gen)' = OfRows(rows.gen)
  BY <1>0, <1>1, RowsKept
<1>9. ASSUME NEW d \in Clients PROVE BoxRight(d)' /\ Told(d)'
  <2>1. CASE d # c
    <3>1. SamePlace(d)
      BY <1>1, <1>3, <1>5, <1>8, <2>1 DEF SamePlace
    <3> QED BY <1>1, <1>4, <2>1, <3>1, OthersKept
  <2>2. CASE d = c
    <3>1. Highest(c) = -1 /\ Highest(c)' = 4
      BY <1>1, <1>2, <1>3, <1>5, <1>8 DEF Highest
    <3>2. BoxRight(c)
      BY <1>0, BoxesAreRight
    <3>3. BoxRight(c)'
      <4>1. "error" \in Items /\ Rank("error") = 4 /\ Highest(c) < Rank("error")
            /\ Rank("error") <= Highest(c)'
        BY <3>1, RankProperties DEF Items
      <4>2. /\ handler'[c] = handler[c] /\ handler[c] \in {"asking", "reading"}
            /\ inbox'[c] = Append(inbox[c], "error")
            /\ "error" # "context" /\ "error" \in {"context", "error"}
        BY <1>1, <1>2, <1>4
      <4>3. PICK item \in Items : item = "error"
        BY <4>1
      <4>4. /\ inbox'[c] = Append(inbox[c], item)
            /\ Highest(c) < Rank(item) /\ Rank(item) <= Highest(c)'
            /\ item # "context" /\ item \in {"context", "error"}
        BY <4>1, <4>2, <4>3
      <4>5. \/ Highest(c) < Rank(item)
            \/ item \in {"progress", "token"} /\ Highest(c) <= Rank(item)
        BY <4>4
      <4>6. item = "context" => handler[c] = "asking"
        BY <4>4
      <4>7. handler[c] = "asking" /\ inbox[c] = <<>> => item \in {"context", "error"}
        BY <4>4
      <4>8. Rank(item) <= Highest(c)' /\ inbox'[c] = Append(inbox[c], item) /\ handler'[c] = handler[c]
            /\ handler[c] \in {"asking", "reading"}
        BY <4>2, <4>4
      <4> QED BY <1>0, <3>2, <4>5, <4>6, <4>7, <4>8, BoxTakes, Zenon
    <3>4. Told(c)'
      <4>1. inbox'[c] = <<"error">>
        BY <1>2, <1>4
      <4>2. Final(c)'
        BY <4>1 DEF Final
      <4> QED BY <1>2, <1>5, <4>2 DEF Told
    <3> QED BY <2>2, <3>3, <3>4
  <2> QED BY <2>1, <2>2
<1>10. Boxes'
  BY <1>9 DEF Boxes, BoxRight
<1>11. Informed'
  <2>1. Begun' \subseteq Clients /\ worker'.at = "loop"
    BY <1>1, <1>2, <1>5
  <2>2. \A d \in Clients : Told(d)'
    BY <1>9
  <2> QED BY <2>1, <2>2 DEF Informed, Told
<1> QED BY <1>6, <1>7, <1>8, <1>10, <1>11 DEF Core

(* The request taken from the line opens a batch, or drains the one of *)
(* another model: it is looked at again.                               *)
LEMMA PutAsideKeepsCore ==
  ASSUME ActiveInv, ActiveInv', Core, NEW c \in Clients, OpenBatch(c) \/ Drain(c)
  PROVE  Core'
<1>0. Shapes /\ Hands /\ RowsAreResults /\ Boxes /\ Informed
  BY DEF Core
<1>1. /\ Takes(c) /\ PutAside(c)
      /\ UNCHANGED <<ask, handler, online, inbox, stopped, active, worker, saved, tokens, stop>>
  BY DEF OpenBatch, Drain, handlers
<1>2. /\ Waiting # <<>> /\ c = Head(Waiting) /\ worker.at = "loop" /\ ask[c] \in Kinds
  BY <1>1, TakenFacts
<1>3. /\ requests' \in Seq(Clients) /\ aside' \in Seq(Clients) /\ Len(aside') <= 1
      /\ Waiting' = Waiting /\ InLine' = InLine
  BY <1>0, <1>1, <1>2, LinePutAside
<1>4. /\ rows' = rows /\ batch'.results = batch.results /\ batch'.open
      /\ batch'.doomed \subseteq batch.doomed
      /\ batch' \in [open : BOOLEAN, model : Models \cup {None}, drain : BOOLEAN,
                     results : SUBSET Clients, doomed : SUBSET Clients]
      /\ batch.results = {} \/ batch'.model = batch.model
  <2>1. ask[c].model \in Models
    BY <1>2 DEF Models
  <2>2. CASE OpenBatch(c)
    <3>1. batch' = [open |-> TRUE, model |-> ask[c].model, drain |-> FALSE, results |-> {}, doomed |-> {}]
      BY <2>2 DEF OpenBatch, NoBatch
    <3>2. batch.results = {} /\ rows = NoRows /\ rows' = NoRows
      BY <1>0, <2>2 DEF OpenBatch, Hands
    <3> QED BY <2>1, <3>1, <3>2
  <2>3. CASE Drain(c)
    BY <1>0, <2>3 DEF Drain, Shapes
  <2> QED BY <1>1, <2>2, <2>3 DEF OpenBatch, Drain
<1>5. Serving' = Serving /\ Begun' = Begun
  BY <1>1, <1>4 DEF Serving, Begun
<1>6. Shapes'
  BY <1>0, <1>1, <1>3, <1>4 DEF Shapes
<1>7. Hands'
  <2>1. batch'.open => worker'.at \in {"loop", "budget", "dead"}
    BY <1>1, <1>2
  <2>2. \A d \in batch'.results : batch'.model = ask'[d].model /\ ask'[d].batchable
    BY <1>0, <1>1, <1>4 DEF Hands
  <2> QED BY <1>0, <1>1, <1>3, <1>4, <1>5, <2>1, <2>2 DEF Hands
<1>8. RowsAreResults' /\ OfRows(rows.gen)' = OfRows(rows.gen)
  BY <1>0, <1>4, RowsKept
<1>9. ASSUME NEW d \in Clients PROVE BoxRight(d)' /\ Told(d)'
  <2>1. SamePlace(d)
    BY <1>1, <1>3, <1>4, <1>5, <1>8 DEF SamePlace
  <2> QED BY <1>1, <2>1, OthersKept
<1> QED BY <1>6, <1>7, <1>8, <1>9, CoreFromClients

(* The request taken from the line is served alone. *)
LEMMA ServeAloneKeepsCore ==
  ASSUME ActiveInv, ActiveInv', Core, NEW c \in Clients, ServeAlone(c)
  PROVE  Core'
<1>0. Shapes /\ Hands /\ RowsAreResults /\ Boxes /\ Informed
  BY DEF Core
<1>1. /\ Takes(c) /\ ~batch.open /\ Dequeued /\ worker' = [at |-> "preparing", client |-> c]
      /\ UNCHANGED <<ask, handler, online, inbox, stopped, active, batch, rows, saved, tokens, stop>>
  BY DEF ServeAlone, handlers
<1>2. /\ Waiting # <<>> /\ c = Head(Waiting) /\ c \in InLine /\ worker.at = "loop"
      /\ Serving = None /\ c # None /\ c \notin Begun /\ c \notin batch.results
      /\ handler[c] = "asking" /\ inbox[c] = <<>> /\ ask[c] \in Kinds
      /\ Begun = batch.results /\ c \notin OfRows(rows.gen) /\ Once(Waiting)
      /\ Begun \subseteq Clients /\ InLine \subseteq Clients
  BY <1>1, TakenFacts
<1>3. /\ requests' \in Seq(Clients) /\ aside' \in Seq(Clients) /\ Len(aside') <= 1
      /\ Once(Waiting') /\ InLine' = InLine \ {c}
  BY <1>0, <1>1, <1>2, LineDequeued
<1>4. batch.results = {} /\ Serving' = c /\ Begun' = {c}
  BY <1>0, <1>1, <1>2 DEF Hands, Serving, Begun
<1>5. Shapes'
  BY <1>0, <1>1, <1>3 DEF Shapes
<1>6. Hands'
  BY <1>0, <1>1, <1>2, <1>3, <1>4 DEF Hands
<1>7. RowsAreResults' /\ OfRows(rows.gen)' = OfRows(rows.gen)
  BY <1>0, <1>1, RowsKept
<1>8. ASSUME NEW d \in Clients PROVE BoxRight(d)' /\ Told(d)'
  <2>1. CASE d # c
    <3>1. Serving # d
      BY <1>2, WorkerFacts
    <3>2. SamePlace(d)
      BY <1>1, <1>2, <1>3, <1>4, <1>7, <2>1, <3>1 DEF SamePlace
    <3> QED BY <1>1, <2>1, <3>2, OthersKept
  <2>2. CASE d = c
    <3>1. BoxRight(c)'
      BY <1>1, <1>2 DEF BoxRight, Ordered
    <3>2. Told(c)'
      BY <1>1, <1>2, <1>4 DEF Told
    <3> QED BY <2>2, <3>1, <3>2
  <2> QED BY <2>1, <2>2
<1> QED BY <1>5, <1>6, <1>7, <1>8, CoreFromClients

(* The request taken from the line joins the batch, with its context as *)
(* its first response.                                                  *)
LEMMA JoinKeepsCore ==
  ASSUME ActiveInv, ActiveInv', Core, NEW c \in Clients, NEW cached \in Hits, JoinBatch(c, cached)
  PROVE  Core'
<1> DEFINE row == Row(c, cached)
           joins == cached # Total(ask[c].segments)
<1>0. Shapes /\ Hands /\ RowsAreResults /\ Boxes /\ Informed
  BY DEF Core
<1>1. /\ inbox' = Sent(To(c, <<"context">>)) /\ Dequeued /\ Takes(c) /\ Joins(c)
      /\ cached <= Total(ask[c].segments)
      /\ UNCHANGED <<ask, handler, online, stopped, active, saved, tokens, stop>>
      /\ ~joins => worker' = [at |-> "dead", client |-> None] /\ UNCHANGED <<batch, rows>>
      /\ joins => /\ batch' = [batch EXCEPT !.results = batch.results \cup {c}]
                  /\ rows' = [rows EXCEPT !.waiting = Append(rows.waiting, row)]
                  /\ worker' = worker
  BY DEF JoinBatch, handlers
<1>2. /\ Waiting # <<>> /\ c = Head(Waiting) /\ c \in InLine /\ worker.at = "loop"
      /\ Serving = None /\ c # None /\ c \notin Begun /\ c \notin batch.results
      /\ handler[c] = "asking" /\ inbox[c] = <<>> /\ ask[c] \in Kinds
      /\ Begun = batch.results /\ c \notin OfRows(rows.gen) /\ Once(Waiting)
      /\ Begun \subseteq Clients /\ InLine \subseteq Clients
      /\ \A d \in Clients : Serving # d
  BY <1>1, TakenFacts
<1>3. /\ requests' \in Seq(Clients) /\ aside' \in Seq(Clients) /\ Len(aside') <= 1
      /\ Once(Waiting') /\ InLine' = InLine \ {c}
  BY <1>0, <1>1, <1>2, LineDequeued
<1>4. /\ inbox' \in [Clients -> Seq(Items)]
      /\ \A d \in Clients \ {c} : inbox'[d] = inbox[d]
      /\ inbox'[c] = Append(inbox[c], "context") /\ inbox'[c] = <<"context">>
  <2>1. "context" \in Items /\ handler[c] \notin Returned
    BY <1>2 DEF Items, Returned
  <2>2. /\ inbox' \in [Clients -> Seq(Items)]
        /\ \A d \in Clients \ {c} : inbox'[d] = inbox[d]
        /\ inbox'[c] = Append(inbox[c], "context")
    BY <1>0, <1>1, <2>1, SentToOne
  <2>3. Append(<<>>, "context") = <<"context">>
    OBVIOUS
  <2> QED BY <1>2, <2>2, <2>3
<1>5. batch.open /\ batch.model = ask[c].model /\ ask[c].batchable
  BY <1>1 DEF Joins
<1>6. joins => row \in RowRecords /\ row.client = c
  <2>1. cached \in Nat /\ Total(ask[c].segments) \in Nat
    BY <1>2, SizesAssumption, TotalType
  <2>2. joins => cached < Total(ask[c].segments)
    BY <1>1, <2>1
  <2> QED BY <1>2, <2>1, <2>2, RowProperties
<1>7. joins => /\ rows'.waiting = Append(rows.waiting, row) /\ rows'.prompt = rows.prompt
               /\ rows'.gen = rows.gen
               /\ rows'.waiting \in Seq(RowRecords) /\ rows' \in [Parts -> Seq(RowRecords)]
               /\ OneRowEach(rows'.waiting)
               /\ OfRows(rows'.waiting) = OfRows(rows.waiting) \cup {c}
  <2> SUFFICES ASSUME joins
               PROVE  /\ rows'.waiting = Append(rows.waiting, row) /\ rows'.prompt = rows.prompt
                      /\ rows'.gen = rows.gen
                      /\ rows'.waiting \in Seq(RowRecords) /\ rows' \in [Parts -> Seq(RowRecords)]
                      /\ OneRowEach(rows'.waiting)
                      /\ OfRows(rows'.waiting) = OfRows(rows.waiting) \cup {c}
    OBVIOUS
  <2>1. row \in RowRecords /\ row.client = c /\ rows' = [rows EXCEPT !.waiting = Append(rows.waiting, row)]
    BY <1>1, <1>6
  <2>2. OneRowEach(rows.waiting) /\ rows.waiting \in Seq(RowRecords) /\ c \notin OfRows(rows.waiting)
    BY <1>0, <1>2, RowsApart, RowsType
  <2>3. /\ Append(rows.waiting, row) \in Seq(RowRecords)
        /\ OneRowEach(Append(rows.waiting, row))
        /\ OfRows(Append(rows.waiting, row)) = OfRows(rows.waiting) \cup {c}
    BY <2>1, <2>2, RowAppended
  <2> DEFINE more == Append(rows.waiting, row)
  <2> HIDE DEF more, row, joins
  <2>4. more \in Seq(RowRecords) /\ rows' = [rows EXCEPT !.waiting = more]
    BY <2>1, <2>3 DEF more
  <2>5. rows' \in [Parts -> Seq(RowRecords)] /\ rows'.waiting = more /\ rows'.prompt = rows.prompt
        /\ rows'.gen = rows.gen
    BY <1>0, <2>4 DEF Shapes, Parts
  <2> QED BY <2>3, <2>5 DEF more
<1> HIDE DEF row, joins
<1>8. joins => /\ batch'.results = batch.results \cup {c} /\ batch'.open /\ batch'.model = batch.model
               /\ batch'.doomed = batch.doomed
               /\ batch' \in [open : BOOLEAN, model : Models \cup {None}, drain : BOOLEAN,
                              results : SUBSET Clients, doomed : SUBSET Clients]
  <2> SUFFICES ASSUME joins
               PROVE  /\ batch'.results = batch.results \cup {c} /\ batch'.open
                      /\ batch'.model = batch.model /\ batch'.doomed = batch.doomed
                      /\ batch' \in [open : BOOLEAN, model : Models \cup {None}, drain : BOOLEAN,
                                     results : SUBSET Clients, doomed : SUBSET Clients]
    OBVIOUS
  <2>1. batch' = [batch EXCEPT !.results = batch.results \cup {c}]
    BY <1>1
  <2>2. batch \in [open : BOOLEAN, model : Models \cup {None}, drain : BOOLEAN,
                  results : SUBSET Clients, doomed : SUBSET Clients]
    BY <1>0 DEF Shapes
  <2> QED BY <1>5, <2>1, <2>2
<1>9. Serving' = None /\ (joins => Begun' = Begun \cup {c}) /\ (~joins => Begun' = Begun)
  BY <1>1, <1>2, <1>8 DEF Serving, Begun
<1>10. Shapes'
  <2>1. CASE joins
    BY <1>0, <1>1, <1>3, <1>4, <1>7, <1>8, <2>1 DEF Shapes
  <2>2. CASE ~joins
    BY <1>0, <1>1, <1>3, <1>4, <2>2 DEF Shapes
  <2> QED BY <2>1, <2>2
<1>11. Hands'
  <2>1. \A d \in InLine' : handler'[d] = "asking" /\ inbox'[d] = <<>>
    BY <1>0, <1>1, <1>2, <1>3, <1>4 DEF Hands
  <2>2. InLine' \cap Begun' = {}
    BY <1>0, <1>3, <1>9 DEF Hands
  <2>3. \A d \in Begun' : handler'[d] \notin {"new", "submitting"}
    BY <1>0, <1>1, <1>2, <1>9 DEF Hands
  <2>4. CASE joins
    BY <1>0, <1>1, <1>2, <1>3, <1>5, <1>8, <2>1, <2>2, <2>3, <2>4 DEF Hands
  <2>5. CASE ~joins
    BY <1>0, <1>1, <1>3, <1>5, <2>1, <2>2, <2>3, <2>5 DEF Hands
  <2> QED BY <2>4, <2>5
<1>12. RowsAreResults' /\ OfRows(rows.gen)' = OfRows(rows.gen)
  <2>1. CASE ~joins
    BY <1>0, <1>1, <2>1, RowsKept
  <2>2. CASE joins
    <3>1. /\ OfRows(rows.prompt)' = OfRows(rows.prompt) /\ OfRows(rows.gen)' = OfRows(rows.gen)
          /\ OneRowEach(rows.prompt)' = OneRowEach(rows.prompt)
          /\ OneRowEach(rows.gen)' = OneRowEach(rows.gen)
          /\ Len(rows.prompt)' = Len(rows.prompt)
          /\ OfRows(rows.waiting)' = OfRows(rows.waiting) \cup {c} /\ OneRowEach(rows.waiting)'
      BY <1>7, <2>2
    <3>2. c \notin OfRows(rows.prompt) /\ c \notin OfRows(rows.gen)
      BY <1>0, <1>2, RowsApart
    <3>3. RowsAreResults'
      BY <1>0, <1>8, <2>2, <3>1, <3>2, RowsApart, RowsInParts
    <3> QED BY <3>1, <3>3
  <2> QED BY <2>1, <2>2
<1>13. ASSUME NEW d \in Clients PROVE BoxRight(d)' /\ Told(d)'
  <2>1. CASE d # c
    <3>1. d \in batch'.results <=> d \in batch.results
      BY <1>1, <1>8, <2>1
    <3>2. SamePlace(d)
      BY <1>2, <1>3, <1>9, <1>12, <2>1, <3>1 DEF SamePlace
    <3> QED BY <1>1, <1>4, <2>1, <3>2, OthersKept
  <2>2. CASE d = c
    <3>1. Highest(c) = -1 /\ Highest(c)' \in {1, 4}
      <4>1. Highest(c) = -1
        BY <1>2 DEF Highest
      <4>2. c \notin OfRows(rows.gen)' /\ c \notin InLine' /\ c # Serving'
        BY <1>2, <1>3, <1>9, <1>12
      <4> QED BY <4>1, <4>2 DEF Highest
    <3>2. "context" \in Items /\ Highest(c) < Rank("context") /\ Rank("context") <= Highest(c)'
          /\ handler' = handler /\ handler[c] \notin Returned
      BY <1>1, <1>2, <3>1, RankProperties DEF Items, Returned
    <3>3. inbox'[c] = IF handler[c] \in Returned THEN inbox[c] ELSE Append(inbox[c], "context")
      BY <1>4, <3>2
    <3>4. BoxRight(c)'
      BY <1>0, <1>2, <3>2, <3>3, BoxTakesOrGone
    <3>5. CASE joins
      <4>1. worker'.at = "loop" /\ c \in Begun'
        BY <1>1, <1>2, <1>9, <3>5
      <4>2. <<"context">> # <<>> /\ Head(<<"context">>) = "context"
        OBVIOUS
      <4>3. inbox'[c] # <<>> /\ Head(inbox'[c]) = "context"
        BY <1>4, <4>2
      <4>4. c # Serving' /\ worker'.at \notin {"preparing", "saving"} /\ c \in Begun'
        BY <1>2, <1>9, <4>1
      <4>5. Told(c)'
        BY <4>3, <4>4 DEF Told
      <4> QED BY <2>2, <3>4, <4>5
    <3>6. CASE ~joins
      <4>1. worker'.at = "dead" /\ c \notin Begun'
        BY <1>1, <1>2, <1>9, <3>6
      <4> QED BY <1>2, <1>9, <2>2, <3>2, <3>4, <4>1 DEF Told
    <3> QED BY <3>5, <3>6
  <2> QED BY <2>1, <2>2
<1> QED BY <1>10, <1>11, <1>12, <1>13, CoreFromClients

(* The open batch is given up: it is empty, or the server stops. *)
LEMMA ClosingKeepsCore ==
  ASSUME ActiveInv, ActiveInv', Core, CloseBatch \/ LeaveLoop
  PROVE  Core'
<1>0. Shapes /\ Hands /\ RowsAreResults /\ Boxes /\ Informed
  BY DEF Core
<1>1. /\ batch' = NoBatch /\ rows' = NoRows /\ worker.at = "loop"
      /\ UNCHANGED <<ask, handler, online, inbox, stopped, requests, aside, active, saved, tokens, stop>>
      /\ \/ worker' = worker /\ batch.results = {}
         \/ worker' = [at |-> "stopped", client |-> None]
  BY DEF CloseBatch, LeaveLoop, Closed, handlers, At
<1>2. Serving = None /\ None \notin Clients
  BY <1>1, WorkerFacts DEF Alone
<1>3. /\ batch'.results = {} /\ batch'.doomed = {} /\ ~batch'.open
      /\ batch' \in [open : BOOLEAN, model : Models \cup {None}, drain : BOOLEAN,
                     results : SUBSET Clients, doomed : SUBSET Clients]
  BY <1>1 DEF NoBatch
<1>4. Serving' = None /\ Waiting' = Waiting /\ InLine' = InLine /\ Begun' = {}
  <2>1. Serving' = None /\ Waiting' = Waiting
    BY <1>1, <1>2 DEF Serving, Waiting
  <2> QED BY <1>3, <2>1 DEF InLine, Begun
<1>5. RowsAreResults' /\ OfRows(rows.gen)' = {} /\ rows' \in [Parts -> Seq(RowRecords)]
  BY <1>1, <1>3, NoRowsLeft
<1>6. Shapes'
  BY <1>0, <1>1, <1>3, <1>5 DEF Shapes
<1>7. Hands'
  BY <1>0, <1>1, <1>3, <1>4 DEF Hands
<1>8. ASSUME NEW d \in Clients PROVE BoxRight(d)' /\ Told(d)'
  <2>1. CASE d \notin batch.results
    <3>1. d \notin OfRows(rows.gen)
      BY <1>0, <2>1, RowsApart
    <3>2. SamePlace(d)
      BY <1>1, <1>2, <1>3, <1>4, <1>5, <2>1, <3>1 DEF SamePlace
    <3> QED BY <1>1, <3>2, OthersKept
  <2>2. CASE d \in batch.results
    <3>1. worker'.at = "stopped"
      BY <1>1, <2>2
    <3>2. d \notin InLine
      BY <1>0, <2>2 DEF Hands, Begun
    <3>3. Highest(d)' = 4
      BY <1>2, <1>3, <1>4, <1>5, <3>2 DEF Highest
    <3>4. Highest(d) <= Highest(d)'
      BY <3>3, HighestType
    <3>5. BoxRight(d)'
      BY <1>0, <1>1, <3>4, BoxesAreRight, BoxStays
    <3>6. Told(d)'
      BY <1>2, <1>4, <3>1 DEF Told
    <3> QED BY <3>5, <3>6
  <2> QED BY <2>1, <2>2
<1> QED BY <1>5, <1>6, <1>7, <1>8, CoreFromClients

(* The stopped requests that got a response leave the batch. *)
LEMMA EndBudgetKeepsCore ==
  ASSUME ActiveInv, ActiveInv', Core, EndBudget
  PROVE  Core'
<1> DEFINE stay == batch.results \ batch.doomed
<1>0. Shapes /\ Hands /\ RowsAreResults /\ Boxes /\ Informed
  BY DEF Core
<1>1. /\ worker.at = "budget" /\ worker' = [at |-> "loop", client |-> None]
      /\ batch' = [batch EXCEPT !.results = stay, !.doomed = {}]
      /\ rows' = [stage \in Parts |-> RowsFor(rows[stage], stay)]
      /\ UNCHANGED <<ask, handler, online, inbox, stopped, requests, aside, active, saved, tokens, stop>>
  BY <1>0, RowsType DEF EndBudget, Idle, handlers
<1>2. Serving = None /\ None \notin Clients
  BY <1>1, WorkerFacts DEF Alone
<1>3. /\ batch'.results = stay /\ batch'.doomed = {} /\ batch'.open = batch.open
      /\ batch'.model = batch.model
      /\ batch' \in [open : BOOLEAN, model : Models \cup {None}, drain : BOOLEAN,
                     results : SUBSET Clients, doomed : SUBSET Clients]
  BY <1>0, <1>1 DEF Shapes
<1> HIDE DEF stay
<1>4. Serving' = None /\ Waiting' = Waiting /\ InLine' = InLine /\ Begun' = stay
  <2>1. Serving' = None /\ Waiting' = Waiting
    BY <1>1, <1>2 DEF Serving, Waiting
  <2> QED BY <1>3, <2>1 DEF InLine, Begun
<1>5. stay \subseteq batch.results /\ batch.results \ stay \subseteq stopped
      /\ batch.results \subseteq Begun
  BY <1>0 DEF Hands, stay, Begun
<1>6. ASSUME NEW part \in Parts
      PROVE  /\ rows'[part] \in Seq(RowRecords)
             /\ Len(rows'[part]) <= Len(rows[part])
             /\ OfRows(rows'[part]) = OfRows(rows[part]) \cap stay
             /\ OneRowEach(rows[part]) => OneRowEach(rows'[part])
  <2>1. rows[part] \in Seq(RowRecords) /\ rows'[part] = RowsFor(rows[part], stay)
    BY <1>0, <1>1 DEF Shapes
  <2> QED BY <2>1, RowsForProperties
<1>7. /\ OneRowEach(rows.waiting)' /\ OneRowEach(rows.prompt)' /\ OneRowEach(rows.gen)'
      /\ OfRows(rows.waiting)' = OfRows(rows.waiting) \cap stay
      /\ OfRows(rows.prompt)' = OfRows(rows.prompt) \cap stay
      /\ OfRows(rows.gen)' = OfRows(rows.gen) \cap stay
      /\ Len(rows'.prompt) <= Len(rows.prompt)
  BY <1>0, <1>6, RowsApart DEF Parts
<1>8. RowsAreResults'
  <2>1. Len(rows'.prompt) \in Nat /\ Len(rows.prompt) \in Nat /\ PromptConcurrency \in Nat
        /\ Len(rows.prompt) <= PromptConcurrency
    BY <1>0, <1>6, RowsApart, SizesAssumption, LenProperties, RowsType DEF Parts
  <2>2. Len(rows.prompt)' <= PromptConcurrency
    <3> DEFINE a == Len(rows'.prompt)
               b == Len(rows.prompt)
    <3>1. a \in Nat /\ b \in Nat /\ a <= b /\ b <= PromptConcurrency
      BY <1>7, <2>1
    <3> HIDE DEF a, b
    <3>2. a <= PromptConcurrency
      BY <3>1, <2>1
    <3> QED BY <3>2 DEF a
  <2>3. /\ OfRows(rows.waiting)' \cap OfRows(rows.prompt)' = {}
        /\ OfRows(rows.waiting)' \cap OfRows(rows.gen)' = {}
        /\ OfRows(rows.prompt)' \cap OfRows(rows.gen)' = {}
    BY <1>0, <1>7, RowsApart
  <2>4. OfRows(rows.waiting)' \cup OfRows(rows.prompt)' \cup OfRows(rows.gen)' = batch'.results
    BY <1>0, <1>3, <1>5, <1>7, RowsApart
  <2> QED BY <1>7, <2>2, <2>3, <2>4, RowsInParts
<1>9. Shapes'
  <2>1. rows' \in [Parts -> Seq(RowRecords)]
    BY <1>1, <1>6
  <2> QED BY <1>0, <1>1, <1>3, <2>1 DEF Shapes
<1>10. Hands'
  <2>1. ~batch.open => rows' = NoRows /\ stay = {}
    <3> SUFFICES ASSUME ~batch.open PROVE rows' = NoRows /\ stay = {}
      OBVIOUS
    <3>1. batch.results = {} /\ rows = NoRows
      BY <1>0 DEF Hands
    <3>2. ASSUME NEW part \in Parts PROVE rows'[part] = <<>>
      <4>1. rows[part] = <<>>
        BY <3>1 DEF NoRows, Parts
      <4>2. rows'[part] \in Seq(RowRecords) /\ Len(rows'[part]) <= 0
        BY <1>6, <4>1
      <4> QED BY <4>2, EmptySeq, LenProperties
    <3>3. rows' = [p \in Parts |-> <<>>]
      BY <1>1, <3>2
    <3>4. NoRows = [p \in Parts |-> <<>>]
      BY DEF NoRows, Parts
    <3> QED BY <1>5, <3>1, <3>3, <3>4
  <2> QED BY <1>0, <1>1, <1>3, <1>4, <1>5, <2>1 DEF Hands
<1>11. ASSUME NEW d \in Clients PROVE BoxRight(d)' /\ Told(d)'
  <2>1. CASE d \in batch.results => d \in stay
    <3>1. d \in OfRows(rows.gen)' <=> d \in OfRows(rows.gen)
      BY <1>0, <1>5, <1>7, <2>1, RowsApart
    <3>2. SamePlace(d)
      BY <1>1, <1>2, <1>3, <1>4, <1>5, <2>1, <3>1 DEF SamePlace
    <3> QED BY <1>1, <3>2, OthersKept
  <2>2. CASE d \in batch.results /\ d \notin stay
    <3>1. d \notin InLine
      BY <1>0, <1>5, <2>2 DEF Hands
    <3>2. Highest(d)' = 4
      BY <1>2, <1>3, <1>4, <1>7, <2>2, <3>1 DEF Highest
    <3>3. Highest(d) <= Highest(d)'
      BY <3>2, HighestType
    <3>4. BoxRight(d)'
      BY <1>0, <1>1, <3>3, BoxesAreRight, BoxStays
    <3>5. Told(d)'
      BY <1>1, <1>2, <1>4, <1>5, <2>2 DEF Told
    <3> QED BY <3>4, <3>5
  <2> QED BY <2>1, <2>2
<1> QED BY <1>8, <1>9, <1>10, <1>11, CoreFromClients

----------------------------------------
(* _serve_single. *)

(* _serve_single moves its own request only. *)
LEMMA AloneKeepsCore ==
  ASSUME ActiveInv, ActiveInv', Core, NEW c \in Clients, c = Serving, worker.at \in Alone,
         UNCHANGED <<ask, handler, online, stopped, requests, aside, batch, rows, stop>>,
         tokens' \in [Clients -> Nat], inbox' \in [Clients -> Seq(Items)],
         \A d \in Clients \ {c} : inbox'[d] = inbox[d],
         \/ worker'.at \in Alone /\ worker'.client = worker.client
         \/ worker' = Idle,
         BoxRight(c)', Told(c)'
  PROVE  Core'
<1>0. Shapes /\ Hands /\ RowsAreResults /\ Boxes /\ Informed
  BY DEF Core
<1>1. /\ ~batch.open /\ batch.results = {} /\ rows = NoRows
      /\ c \in Begun /\ c \notin InLine
  BY <1>0, AloneIsApart
<1>2. /\ Waiting' = Waiting /\ InLine' = InLine /\ Begun' \subseteq Begun
      /\ Serving' = c \/ Serving' = None
  <2>1. Waiting' = Waiting
    BY DEF Waiting
  <2>2. Serving' = c \/ Serving' = None
    BY DEF Serving, Idle
  <2> QED BY <1>1, <2>1, <2>2 DEF InLine, Begun
<1>3. Shapes'
  BY <1>0 DEF Shapes
<1>4. Hands'
  <2>1. \A d \in InLine : handler'[d] = "asking" /\ inbox'[d] = <<>>
    BY <1>0, <1>1, WaitingType DEF Hands
  <2> QED BY <1>0, <1>1, <1>2, <2>1 DEF Hands
<1>5. RowsAreResults' /\ OfRows(rows.gen)' = OfRows(rows.gen)
  BY <1>0, RowsKept
<1>6. ASSUME NEW d \in Clients, d # c PROVE BoxRight(d)' /\ Told(d)'
  <2>1. Serving # d /\ Serving' # d
    BY <1>2, <1>6, WorkerFacts
  <2>2. SamePlace(d)
    BY <1>2, <1>5, <2>1 DEF SamePlace, Alone
  <2> QED BY <1>6, <2>2, OthersKept
<1> QED BY <1>3, <1>4, <1>5, <1>6, CoreFromClients

(* The bound of the request served alone, at every stage of *)
(* _serve_single.                                           *)
LEMMA AloneHighest ==
  ASSUME ActiveInv, Core, NEW c \in Clients, c = Serving, worker.at \in Alone,
         UNCHANGED <<requests, aside, batch, rows>>
  PROVE  /\ worker.at = "preparing" => Highest(c) = -1
         /\ worker.at = "prefill" => Highest(c) = 0
         /\ worker.at \in {"decoding", "decided", "ending"} => Highest(c) = 2
         /\ worker.at = "saving" => Highest(c) = 3
         /\ worker' = Idle => Highest(c)' = 4
         /\ worker'.client = c =>
              /\ worker'.at = "preparing" => Highest(c)' = -1
              /\ worker'.at = "prefill" => Highest(c)' = 0
              /\ worker'.at \in {"decoding", "decided", "ending"} => Highest(c)' = 2
              /\ worker'.at = "saving" => Highest(c)' = 3
<1>1. /\ c \notin batch.results /\ c \notin InLine /\ OfRows(rows.gen) = {} /\ c # None
  BY AloneIsApart, WorkerFacts DEF Core
<1>2. InLine' = InLine /\ OfRows(rows.gen)' = OfRows(rows.gen)
  BY DEF InLine, Waiting, OfRows
<1>3. worker' = Idle => Serving' = None
  BY DEF Idle, Serving
<1>4. worker'.client = c => Serving' = c
  BY DEF Serving
<1>5. worker' = Idle => Highest(c)' = 4
  BY <1>1, <1>2, <1>3 DEF Highest
<1> QED BY <1>1, <1>2, <1>4, <1>5 DEF Highest

(* A response of _serve_single. *)
LEMMA AloneSendsKeepsCore ==
  ASSUME ActiveInv, ActiveInv', Core, NEW c \in Clients, c = Serving, worker.at \in Alone,
         UNCHANGED <<ask, handler, online, stopped, requests, aside, batch, rows, stop>>,
         tokens' \in [Clients -> Nat],
         NEW item \in Items, inbox' = Sent(To(c, <<item>>)),
         \/ /\ worker'.at \in Alone \ {"preparing"} /\ worker'.client = worker.client
            /\ item # "error"
         \/ worker' = Idle /\ item = "error",
         \/ Highest(c) < Rank(item)
         \/ item \in {"progress", "token"} /\ Highest(c) <= Rank(item),
         Rank(item) <= Highest(c)',
         item = "context" <=> worker.at = "preparing" /\ item # "error",
         worker'.at = "saving" => item = "end"
  PROVE  Core'
<1>0. Shapes /\ Hands /\ RowsAreResults /\ Boxes /\ Informed
  BY DEF Core
<1>1. /\ inbox' \in [Clients -> Seq(Items)]
      /\ \A d \in Clients \ {c} : inbox'[d] = inbox[d]
      /\ inbox'[c] = IF handler[c] \in Returned THEN inbox[c] ELSE Append(inbox[c], item)
  BY <1>0, SentToOne
<1>2. c \in Begun /\ handler[c] \notin {"new", "submitting"} /\ Told(c) /\ c # None
  BY <1>0, AloneIsApart, InformedTold, WorkerFacts DEF Hands
<1>3. worker.at = "preparing" => handler[c] = "asking" /\ inbox[c] = <<>>
  <2> SUFFICES ASSUME worker.at = "preparing" PROVE handler[c] = "asking" /\ inbox[c] = <<>>
    OBVIOUS
  <2>1. Highest(c) = -1
    BY AloneHighest
  <2>2. handler[c] = "asking"
    BY <1>0 DEF Informed
  <2>3. \A i \in DOMAIN inbox[c] : Rank(inbox[c][i]) <= -1
    BY <1>0, <2>1 DEF Boxes
  <2>4. \A i \in DOMAIN inbox[c] : Rank(inbox[c][i]) \in 0..4
    BY <1>0, InboxType, RankProperties
  <2>5. DOMAIN inbox[c] = {}
    BY <2>3, <2>4
  <2>6. inbox[c] = <<>>
    BY <1>0, <2>5, InboxType, EmptySeq
  <2> QED BY <2>2, <2>6
<1>4. worker.at # "preparing" /\ handler[c] = "asking" =>
        inbox[c] # <<>> /\ Head(inbox[c]) = "context"
  BY <1>2 DEF Told
<1>5. /\ item = "context" => handler[c] = "asking"
      /\ handler[c] = "asking" /\ inbox[c] = <<>> => item \in {"context", "error"}
  BY <1>3, <1>4
<1>6. /\ BoxRight(c)'
      /\ handler[c] \in {"asking", "reading"} => inbox'[c] = Append(inbox[c], item)
  BY <1>0, <1>1, <1>2, <1>5, BoxTakesOrGone
<1>7. Told(c)'
  <2>1. handler[c] \in {"asking", "reading"} =>
          /\ Final(c) => Final(c)'
          /\ item \in {"end", "error"} => Final(c)'
          /\ inbox'[c] # <<>>
          /\ inbox[c] # <<>> => Head(inbox'[c]) = Head(inbox[c])
          /\ inbox[c] = <<>> => Head(inbox'[c]) = item
    BY <1>0, <1>6, FinalAppend
  <2>2. CASE worker' = Idle
    <3>1. Serving' = None
      BY <2>2 DEF Serving, Idle
    <3>2. c \notin Begun'
      BY <1>0, <1>2, <3>1, AloneIsApart DEF Begun
    <3>3. worker'.at \notin {"preparing", "saving"} /\ Serving' # c
      BY <1>2, <2>2, <3>1 DEF Idle
    <3>4. item = "error"
      BY <2>2, <3>1, <1>2 DEF Serving
    <3> QED BY <2>1, <3>2, <3>3, <3>4 DEF Told
  <2>3. CASE /\ worker'.at \in Alone \ {"preparing"} /\ worker'.client = worker.client
             /\ item # "error"
    <3>1. Serving' = c /\ c \in Begun' /\ worker'.at # "preparing"
      BY <1>2, <2>3 DEF Serving, Begun
    <3>2. handler'[c] = "asking" => inbox'[c] # <<>> /\ Head(inbox'[c]) = "context"
      <4> SUFFICES ASSUME handler[c] = "asking"
                   PROVE  inbox'[c] # <<>> /\ Head(inbox'[c]) = "context"
        OBVIOUS
      <4>1. CASE worker.at = "preparing"
        <5>1. item = "context"
          BY <2>3, <4>1
        <5> QED BY <1>3, <2>1, <4>1, <5>1
      <4>2. CASE worker.at # "preparing"
        BY <1>4, <2>1, <4>2
      <4> QED BY <4>1, <4>2
    <3>3. worker'.at = "saving" /\ handler'[c] \in {"asking", "reading"} => Final(c)'
      BY <2>1
    <3> QED BY <3>1, <3>2, <3>3 DEF Told
  <2> QED BY <2>2, <2>3
<1> QED BY <1>1, <1>6, <1>7, AloneKeepsCore

(* Every step of _serve_single. *)
LEMMA SingleKeepsCore ==
  ASSUME ActiveInv, ActiveInv', Core,
         SingleFails \/ Prepared \/ Prefilled \/ SingleToken \/ Decide \/ SingleEnds
           \/ SingleSaved
  PROVE  Core'
<1>0. Shapes /\ Hands /\ RowsAreResults /\ Boxes /\ Informed
  BY DEF Core
<1>1. /\ worker.at \in {"preparing", "prefill", "decoding", "decided", "ending", "saving"}
      /\ UNCHANGED <<ask, handler, online, stopped, requests, aside, batch, rows, stop>>
  BY DEF SingleFails, Prepared, Prefilled, SingleToken, Decide, SingleEnds, SingleSaved, At, handlers
<1>a. worker.at \in Alone /\ Serving \in Clients
  BY <1>1, WorkerFacts DEF Alone
<1>b. PICK c \in Clients : c = Serving
  BY <1>a
<1>2. /\ worker.at \in Alone /\ c \in Clients /\ worker.client = c /\ c = Serving
      /\ worker \in [at : {"loop", "budget", "dead", "stopped"} \cup Alone,
                     client : Clients \cup {None}]
  BY <1>a, <1>b, <1>1, WorkerFacts DEF Alone, Serving, ActiveInv, WorkerInv
<1>3. /\ tokens' \in [Clients -> Nat]
  <2>1. tokens \in [Clients -> Nat]
    BY <1>0 DEF Shapes
  <2>2. Counted(Serving) \in Nat
    BY <1>2, <2>1, CountedType
  <2>3. tokens' = tokens \/ tokens' = [tokens EXCEPT ![Serving] = Counted(Serving)]
    BY DEF SingleFails, Prepared, Prefilled, SingleToken, Decide, SingleEnds, SingleSaved
  <2> QED BY <2>1, <2>2, <2>3
<1>h. /\ worker.at = "preparing" => Highest(c) = -1
      /\ worker.at = "prefill" => Highest(c) = 0
      /\ worker.at \in {"decoding", "decided", "ending"} => Highest(c) = 2
      /\ worker.at = "saving" => Highest(c) = 3
      /\ worker' = Idle => Highest(c)' = 4
      /\ worker'.client = c =>
           /\ worker'.at = "preparing" => Highest(c)' = -1
           /\ worker'.at = "prefill" => Highest(c)' = 0
           /\ worker'.at \in {"decoding", "decided", "ending"} => Highest(c)' = 2
           /\ worker'.at = "saving" => Highest(c)' = 3
  BY <1>1, <1>2, AloneHighest
<1>s. ASSUME NEW item \in Items, inbox' = Sent(To(c, <<item>>)),
             \/ /\ worker'.at \in Alone \ {"preparing"} /\ worker'.client = worker.client
                /\ item # "error"
             \/ worker' = Idle /\ item = "error",
             \/ Highest(c) < Rank(item)
             \/ item \in {"progress", "token"} /\ Highest(c) <= Rank(item),
             Rank(item) <= Highest(c)',
             item = "context" <=> worker.at = "preparing" /\ item # "error",
             worker'.at = "saving" => item = "end"
      PROVE  Core'
  BY <1>1, <1>2, <1>3, <1>s, AloneSendsKeepsCore
<1>4. CASE SingleFails \/ (SingleSaved /\ inbox' = Sent(To(Serving, <<"error">>)))
  <2>1. /\ inbox' = Sent(To(c, <<"error">>)) /\ worker' = Idle /\ "error" \in Items
        /\ Highest(c) < Rank("error") /\ Rank("error") <= Highest(c)' /\ "error" # "context"
        /\ worker'.at # "saving"
    BY <1>1, <1>2, <1>4, <1>h, RankProperties DEF SingleFails, SingleSaved, Items, Idle
  <2> QED BY <2>1, <1>s
<1>5. CASE Prepared
  <2>1. /\ worker.at = "preparing" /\ inbox' = Sent(To(c, <<"context">>))
        /\ worker'.at = "prefill" /\ worker'.client = worker.client
    BY <1>2, <1>5 DEF Prepared, At
  <2>2. /\ "context" \in Items /\ Highest(c) < Rank("context") /\ Rank("context") <= Highest(c)'
        /\ worker'.at \in Alone \ {"preparing"} /\ "context" # "error" /\ worker'.at # "saving"
    BY <1>2, <1>h, <2>1, RankProperties DEF Items, Alone
  <2> QED BY <2>1, <2>2, <1>s
<1>6. CASE Prefilled
  <2>1. /\ worker.at = "prefill" /\ inbox' = Sent(To(c, <<"progress">>))
        /\ worker'.at = "decoding" /\ worker'.client = worker.client
    BY <1>2, <1>6 DEF Prefilled, At
  <2>2. /\ "progress" \in Items /\ Highest(c) < Rank("progress") /\ Rank("progress") <= Highest(c)'
        /\ worker'.at \in Alone \ {"preparing"} /\ "progress" # "error" /\ worker'.at # "saving"
        /\ "progress" # "context" /\ worker.at # "preparing"
    BY <1>2, <1>h, <2>1, RankProperties DEF Items, Alone
  <2> QED BY <2>1, <2>2, <1>s
<1>7. CASE SingleToken
  <2>1. /\ worker.at = "decoding" /\ inbox' = Sent(To(c, <<"token">>))
        /\ worker'.at = "decided" /\ worker'.client = worker.client
    BY <1>2, <1>7 DEF SingleToken, At
  <2>2. /\ "token" \in Items /\ Highest(c) <= Rank("token") /\ Rank("token") <= Highest(c)'
        /\ worker'.at \in Alone \ {"preparing"} /\ "token" # "error" /\ worker'.at # "saving"
        /\ "token" # "context" /\ worker.at # "preparing" /\ "token" \in {"progress", "token"}
    BY <1>2, <1>h, <2>1, RankProperties DEF Items, Alone
  <2> QED BY <2>1, <2>2, <1>s
<1>8. CASE SingleEnds
  <2>1. /\ worker.at = "ending" /\ inbox' = Sent(To(c, <<"end">>))
        /\ worker'.at = "saving" /\ worker'.client = worker.client
    BY <1>2, <1>8 DEF SingleEnds, At
  <2>2. /\ "end" \in Items /\ Highest(c) < Rank("end") /\ Rank("end") <= Highest(c)'
        /\ worker'.at \in Alone \ {"preparing"} /\ "end" # "error"
        /\ "end" # "context" /\ worker.at # "preparing"
    BY <1>2, <1>h, <2>1, RankProperties DEF Items, Alone
  <2> QED BY <2>1, <2>2, <1>s
<1>9. CASE Decide \/ (SingleSaved /\ inbox' = inbox)
  <2>1. inbox' = inbox
    BY <1>9 DEF Decide
  <2>2. \/ /\ worker.at = "decided" /\ worker'.at \in {"decoding", "ending"}
           /\ worker'.client = worker.client
        \/ worker.at = "saving" /\ worker' = Idle
    BY <1>2, <1>9 DEF Decide, SingleSaved, At
  <2>3. Highest(c) <= Highest(c)'
    BY <1>2, <1>h, <2>2
  <2>4. BoxRight(c)'
    BY <1>0, <1>1, <1>2, <2>1, <2>3, BoxesAreRight, BoxStays
  <2>5. Told(c) /\ c \in Begun /\ c # None /\ batch.results = {} /\ Serving = c
    BY <1>0, <1>2, InformedTold, AloneIsApart, WorkerFacts
  <2>6. Final(c)' = Final(c)
    BY <2>1 DEF Final
  <2>7. Told(c)'
    <3>1. CASE worker.at = "decided" /\ worker'.at \in {"decoding", "ending"}
                 /\ worker'.client = worker.client
      <4>1. Serving' = c /\ c \in Begun'
        BY <1>2, <2>5, <3>1 DEF Serving, Begun
      <4> QED BY <1>1, <2>1, <2>5, <3>1, <4>1 DEF Told
    <3>2. CASE worker.at = "saving" /\ worker' = Idle
      <4>1. Serving' = None
        BY <3>2 DEF Serving, Idle
      <4>2. c \notin Begun' /\ worker'.at = "loop" /\ Serving' # c
        BY <1>1, <2>5, <3>2, <4>1 DEF Begun, Idle
      <4> QED BY <1>1, <2>5, <2>6, <3>2, <4>2 DEF Told
    <3> QED BY <2>2, <3>1, <3>2
  <2>8. \/ worker'.at \in Alone /\ worker'.client = worker.client
        \/ worker' = Idle
    BY <2>2 DEF Alone
  <2>9. inbox' \in [Clients -> Seq(Items)] /\ \A d \in Clients \ {c} : inbox'[d] = inbox[d]
    BY <1>0, <2>1 DEF Shapes
  <2> QED BY <1>1, <1>2, <1>3, <2>4, <2>5, <2>7, <2>8, <2>9, AloneKeepsCore
<1>10. SingleSaved => \/ SingleSaved /\ inbox' = inbox
                      \/ SingleSaved /\ inbox' = Sent(To(Serving, <<"error">>))
  BY DEF SingleSaved
<1> QED BY <1>4, <1>5, <1>6, <1>7, <1>8, <1>9, <1>10

----------------------------------------
(* A call of the batch generator. *)

(* The names of NextCall: the requests that decode, those that go on, how *)
(* many prompts are taken, which of them are fed and which are ready to   *)
(* decode.                                                                *)
Decoding == OfRows(rows.gen)
KeptGen(ends) == RowsFor(rows.gen, Decoding \ ends)
Full(ends) == Len(KeptGen(ends)) >= DecodeConcurrency

Room(ends) ==
  Min({PromptConcurrency - Len(rows.prompt), DecodeConcurrency - Len(KeptGen(ends)),
       Len(rows.waiting)})
Prompts(ends) == rows.prompt \o SubSeq(rows.waiting, 1, Room(ends))
Ready(ends) == RowsFor(Prompts(ends), ReadyOf(Prompts(ends)))
FedRows(ends) == RowsFor(Prompts(ends), OfRows(Prompts(ends)) \ ReadyOf(Prompts(ends)))
Prompted(ends) == IF Full(ends) THEN {} ELSE OfRows(Prompts(ends))
RestWaiting(ends) == SubSeq(rows.waiting, Room(ends) + 1, Len(rows.waiting))

(* A call of the batch generator, in these names. *)
LEMMA NextCallSteps ==
  ASSUME NEW ends \in SUBSET OfRows(rows.gen), NextCall(ends)
  PROVE  /\ worker.at \in {"loop", "budget"} /\ batch.open
         /\ ends \subseteq Decoding
         /\ inbox' = Sent([c \in Decoding \cup Prompted(ends) |->
                             IF c \in Prompted(ends) THEN <<"progress">> ELSE Decoded(c, ends)])
         /\ tokens' = [c \in Clients |-> IF c \in Decoding THEN Counted(c) ELSE tokens[c]]
         /\ saved' = saved \cup {Answer(c, Counted(c)) : c \in ends}
                           \cup IF Full(ends) THEN {}
                                ELSE {Segment(row) : row \in {FedRows(ends)[i] :
                                        i \in {i \in DOMAIN FedRows(ends) :
                                                 FedRows(ends)[i].types # <<>>}}}
         /\ Full(ends) => rows' = [rows EXCEPT !.gen = KeptGen(ends)]
         /\ ~Full(ends) =>
              rows' = [waiting |-> RestWaiting(ends),
                       prompt |-> [i \in DOMAIN FedRows(ends) |-> Fed(FedRows(ends)[i])],
                       gen |-> KeptGen(ends) \o Ready(ends)]
         /\ batch' = [batch EXCEPT !.results = @ \ ends,
                        !.doomed = @ \cup (stopped \cap (Decoding \cup Prompted(ends)))]
         /\ worker' = [at |-> "budget", client |-> None]
         /\ UNCHANGED <<ask, handler, online, stopped, requests, aside, active, stop>>
<1> USE DEF Decoding, KeptGen, Full, Room, Prompts, Ready, FedRows, Prompted, RestWaiting
<1>1. /\ worker.at \in {"loop", "budget"} /\ batch.open
      /\ ends \subseteq Decoding
  BY DEF NextCall
<1>2. inbox' = Sent([c \in Decoding \cup Prompted(ends) |->
                       IF c \in Prompted(ends) THEN <<"progress">> ELSE Decoded(c, ends)])
  BY Zenon DEF NextCall
<1>3. tokens' = [c \in Clients |-> IF c \in Decoding THEN Counted(c) ELSE tokens[c]]
  BY Zenon DEF NextCall
<1>4. saved' = saved \cup {Answer(c, Counted(c)) : c \in ends}
                     \cup IF Full(ends) THEN {}
                          ELSE {Segment(row) : row \in {FedRows(ends)[i] :
                                  i \in {i \in DOMAIN FedRows(ends) :
                                           FedRows(ends)[i].types # <<>>}}}
  BY Zenon DEF NextCall
<1>5. rows' = IF Full(ends) THEN [rows EXCEPT !.gen = KeptGen(ends)]
              ELSE [waiting |-> RestWaiting(ends),
                    prompt |-> [i \in DOMAIN FedRows(ends) |-> Fed(FedRows(ends)[i])],
                    gen |-> KeptGen(ends) \o Ready(ends)]
  BY Zenon DEF NextCall
<1>6. batch' = [batch EXCEPT !.results = @ \ ends,
                  !.doomed = @ \cup (stopped \cap (Decoding \cup Prompted(ends)))]
  BY Zenon DEF NextCall
<1>7. /\ worker' = [at |-> "budget", client |-> None]
      /\ UNCHANGED <<ask, handler, online, stopped, requests, aside, active, stop>>
  BY Zenon DEF NextCall, handlers
<1>8. /\ Full(ends) => rows' = [rows EXCEPT !.gen = KeptGen(ends)]
      /\ ~Full(ends) =>
           rows' = [waiting |-> RestWaiting(ends),
                    prompt |-> [i \in DOMAIN FedRows(ends) |-> Fed(FedRows(ends)[i])],
                    gen |-> KeptGen(ends) \o Ready(ends)]
  <2> HIDE DEF Full
  <2> QED BY <1>5, Zenon
<1> QED BY <1>1, <1>2, <1>3, <1>4, <1>6, <1>7, <1>8, Zenon

(* What a call leaves in the batch: one row for each of the results, of *)
(* the types of its prompt.                                             *)
LEMMA NextRows ==
  ASSUME ActiveInv, Core, Typed, NEW ends \in SUBSET OfRows(rows.gen), NextCall(ends)
  PROVE  /\ rows' \in [Parts -> Seq(RowRecords)]
         /\ batch'.results = batch.results \ ends
         /\ RowsAreResults'
         /\ Prompted(ends) \subseteq batch.results \ Decoding
         /\ Decoding \ ends \subseteq OfRows(rows.gen)'
         /\ OfRows(rows.gen)' \subseteq (Decoding \ ends) \cup Prompted(ends)
         /\ \A part \in Parts : \A i \in DOMAIN rows'[part] : RowTyped(rows'[part][i])
         /\ \A s \in saved' \ saved :
              \/ \E c \in ends : s = Answer(c, Counted(c))
              \/ s.client \in batch.results /\ UnderOwnType(s)
<1> DEFINE gen    == KeptGen(ends)
           all    == Prompts(ends)
           ready  == Ready(ends)
           fed    == FedRows(ends)
           wait   == RestWaiting(ends)
           moved  == SubSeq(rows.waiting, 1, Room(ends))
           eaten  == [i \in DOMAIN fed |-> Fed(fed[i])]
<1>0. Shapes /\ Hands /\ RowsAreResults /\ Boxes /\ Informed
  BY DEF Core
<1>1. /\ ends \subseteq Decoding
      /\ Full(ends) => rows' = [rows EXCEPT !.gen = gen]
      /\ ~Full(ends) => rows' = [waiting |-> wait, prompt |-> eaten, gen |-> gen \o ready]
      /\ batch' = [batch EXCEPT !.results = batch.results \ ends,
                     !.doomed = batch.doomed \cup (stopped \cap (Decoding \cup Prompted(ends)))]
      /\ saved' = saved \cup {Answer(c, Counted(c)) : c \in ends}
                        \cup IF Full(ends) THEN {}
                             ELSE {Segment(row) : row \in {fed[i] :
                                     i \in {i \in DOMAIN fed : fed[i].types # <<>>}}}
  BY NextCallSteps
<1>2. /\ rows.waiting \in Seq(RowRecords) /\ rows.prompt \in Seq(RowRecords)
      /\ rows.gen \in Seq(RowRecords) /\ DOMAIN rows = Parts
  BY <1>0, RowsType
<1>3. /\ OneRowEach(rows.waiting) /\ OneRowEach(rows.prompt) /\ OneRowEach(rows.gen)
      /\ OfRows(rows.waiting) \cap OfRows(rows.prompt) = {}
      /\ OfRows(rows.waiting) \cap OfRows(rows.gen) = {}
      /\ OfRows(rows.prompt) \cap OfRows(rows.gen) = {}
      /\ OfRows(rows.waiting) \cup OfRows(rows.prompt) \cup OfRows(rows.gen) = batch.results
      /\ Len(rows.prompt) <= PromptConcurrency
  BY <1>0, RowsApart
<1>4. /\ \A i \in DOMAIN rows.waiting : RowTyped(rows.waiting[i])
      /\ \A i \in DOMAIN rows.prompt : RowTyped(rows.prompt[i])
      /\ \A i \in DOMAIN rows.gen : RowTyped(rows.gen[i])
  BY DEF Typed, Parts
<1>5. /\ gen \in Seq(RowRecords) /\ OneRowEach(gen) /\ OfRows(gen) = Decoding \ ends
      /\ \A i \in DOMAIN gen : RowTyped(gen[i])
  <2>1. /\ gen \in Seq(RowRecords) /\ OfRows(gen) = OfRows(rows.gen) \cap (Decoding \ ends)
        /\ OneRowEach(gen)
        /\ \A j \in DOMAIN gen : \E i \in DOMAIN rows.gen : gen[j] = rows.gen[i]
    <3>1. gen = RowsFor(rows.gen, Decoding \ ends)
      BY DEF KeptGen
    <3> HIDE DEF gen
    <3>2. PICK list \in Seq(RowRecords) : list = rows.gen
      BY <1>2
    <3>3. OneRowEach(list)
      BY <1>3, <3>2
    <3> DEFINE kept == RowsFor(list, Decoding \ ends)
    <3>4. /\ kept \in Seq(RowRecords) /\ OfRows(kept) = OfRows(list) \cap (Decoding \ ends)
          /\ OneRowEach(kept)
          /\ \A j \in DOMAIN kept : \E i \in DOMAIN list :
               kept[j] = list[i] /\ list[i].client \in Decoding \ ends
      BY <3>3, RowsForProperties
    <3> QED BY <3>1, <3>2, <3>4
  <2> HIDE DEF gen
  <2> QED BY <1>4, <2>1 DEF Decoding
<1>6. batch'.results = batch.results \ ends
  BY <1>0, <1>1 DEF Shapes
<1>7. CASE Full(ends)
  <2>1. Prompted(ends) = {}
    BY <1>7 DEF Prompted
  <2> HIDE DEF gen
  <2>2. rows'.waiting = rows.waiting /\ rows'.prompt = rows.prompt /\ rows'.gen = gen
        /\ rows' \in [Parts -> Seq(RowRecords)]
    BY <1>0, <1>1, <1>5, <1>7 DEF Shapes, Parts
  <2>3. OfRows(rows.gen)' = Decoding \ ends
    BY <1>5, <2>2
  <2>4. RowsAreResults'
    <3>1. /\ OneRowEach(rows.waiting)' /\ OneRowEach(rows.prompt)' /\ OneRowEach(rows.gen)'
          /\ OfRows(rows.waiting)' = OfRows(rows.waiting)
          /\ OfRows(rows.prompt)' = OfRows(rows.prompt)
          /\ Len(rows.prompt)' <= PromptConcurrency
      BY <1>3, <1>5, <2>2
    <3>2. OfRows(rows.waiting)' \cup OfRows(rows.prompt)' \cup OfRows(rows.gen)' = batch'.results
      BY <1>1, <1>3, <1>6, <2>3, <3>1 DEF Decoding
    <3>3. /\ OfRows(rows.waiting)' \cap OfRows(rows.prompt)' = {}
          /\ OfRows(rows.waiting)' \cap OfRows(rows.gen)' = {}
          /\ OfRows(rows.prompt)' \cap OfRows(rows.gen)' = {}
      BY <1>3, <2>3, <3>1 DEF Decoding
    <3> QED BY <3>1, <3>2, <3>3, RowsInParts
  <2>5. \A part \in Parts : \A i \in DOMAIN rows'[part] : RowTyped(rows'[part][i])
    BY <1>4, <1>5, <2>2 DEF Parts
  <2>6. \A s \in saved' \ saved : \E c \in ends : s = Answer(c, Counted(c))
    BY <1>1, <1>7
  <2> QED BY <1>6, <2>1, <2>2, <2>3, <2>4, <2>5, <2>6
<1>8. CASE ~Full(ends)
  <2>1. Room(ends) \in 0..Len(rows.waiting) /\ Len(rows.prompt) + Room(ends) <= PromptConcurrency
        /\ Len(rows.prompt) \in Nat /\ Room(ends) \in Nat /\ PromptConcurrency \in Nat
    <3> DEFINE a == Len(rows.prompt)
               b == Len(gen)
               d == Len(rows.waiting)
    <3>1. a \in Nat /\ b \in Nat /\ d \in Nat
      BY <1>2, <1>5, LenProperties
    <3>2. a <= PromptConcurrency /\ ~(b >= DecodeConcurrency)
      BY <1>3, <1>8 DEF Full
    <3>3. PromptConcurrency \in Nat /\ DecodeConcurrency \in Nat
      BY SizesAssumption
    <3>4. Room(ends) = Min({PromptConcurrency - a, DecodeConcurrency - b, d})
      BY DEF Room
    <3> HIDE DEF a, b, d
    <3>5. PromptConcurrency - a \in Nat /\ DecodeConcurrency - b \in Nat
      BY <3>1, <3>2, <3>3
    <3>6. /\ Room(ends) \in Nat /\ Room(ends) <= d /\ Room(ends) <= PromptConcurrency - a
      BY <3>1, <3>4, <3>5, LeastOfThree
    <3>7. Room(ends) \in 0..d /\ a + Room(ends) <= PromptConcurrency
      BY <3>1, <3>3, <3>6
    <3> QED BY <3>1, <3>3, <3>6, <3>7 DEF a, d
  <2>2. /\ moved \in Seq(RowRecords) /\ wait \in Seq(RowRecords) /\ Len(moved) = Room(ends)
        /\ OneRowEach(moved) /\ OneRowEach(wait)
        /\ OfRows(moved) \cup OfRows(wait) = OfRows(rows.waiting)
        /\ OfRows(moved) \cap OfRows(wait) = {}
        /\ \A i \in DOMAIN moved : \E j \in DOMAIN rows.waiting : moved[i] = rows.waiting[j]
        /\ \A i \in DOMAIN wait : \E j \in DOMAIN rows.waiting : wait[i] = rows.waiting[j]
    BY <1>2, <1>3, <2>1, RowsCut DEF RestWaiting
  <2>3. all = rows.prompt \o moved
    BY DEF Prompts
  <2> HIDE DEF moved, wait
  <2>4. /\ all \in Seq(RowRecords) /\ OfRows(all) = OfRows(rows.prompt) \cup OfRows(moved)
        /\ Len(all) = Len(rows.prompt) + Len(moved)
        /\ OneRowEach(all)
        /\ \A i \in DOMAIN all : \/ \E j \in DOMAIN rows.prompt : all[i] = rows.prompt[j]
                                 \/ \E j \in DOMAIN moved : all[i] = moved[j]
    <3>1. OfRows(rows.prompt) \cap OfRows(moved) = {}
      BY <1>3, <2>2
    <3>2. LET more == rows.prompt \o moved
          IN  /\ more \in Seq(RowRecords) /\ OfRows(more) = OfRows(rows.prompt) \cup OfRows(moved)
              /\ Len(more) = Len(rows.prompt) + Len(moved)
              /\ OneRowEach(more)
              /\ \A i \in DOMAIN more : \/ \E j \in DOMAIN rows.prompt : more[i] = rows.prompt[j]
                                        \/ \E j \in DOMAIN moved : more[i] = moved[j]
      BY <1>2, <1>3, <2>2, <3>1, RowsConcat
    <3> HIDE DEF all
    <3> QED BY <2>3, <3>2
  <2>5. \A i \in DOMAIN all : RowTyped(all[i])
    <3> HIDE DEF all
    <3> QED BY <1>4, <2>2, <2>4
  <2>6. /\ ready \in Seq(RowRecords) /\ OneRowEach(ready)
        /\ OfRows(ready) = OfRows(all) \cap ReadyOf(all)
        /\ \A j \in DOMAIN ready : \E i \in DOMAIN all : ready[j] = all[i]
    BY <2>4, RowsForProperties DEF Ready
  <2>7. /\ fed \in Seq(RowRecords) /\ OneRowEach(fed) /\ Len(fed) <= Len(all)
        /\ OfRows(fed) = OfRows(all) \cap (OfRows(all) \ ReadyOf(all))
        /\ \A j \in DOMAIN fed : \E i \in DOMAIN all : fed[j] = all[i]
                                   /\ all[i].client \in OfRows(all) \ ReadyOf(all)
    BY <2>4, RowsForProperties DEF FedRows
  <2> HIDE DEF all, ready, fed, gen
  <2>8. ASSUME NEW j \in DOMAIN fed
        PROVE  /\ fed[j] \in RowRecords /\ Fed(fed[j]) \in RowRecords
               /\ Fed(fed[j]).client = fed[j].client /\ RowTyped(Fed(fed[j]))
               /\ UnderOwnType(Segment(fed[j])) /\ fed[j].client \in batch.results
    <3>1. PICK i \in DOMAIN all : fed[j] = all[i] /\ all[i].client \in OfRows(all) \ ReadyOf(all)
      BY <2>7, <2>8
    <3>2. all[i].left # <<1>>
      BY <3>1 DEF ReadyOf
    <3>3. fed[j] \in RowRecords
      BY <2>7, <2>8, ElementOfSeq, LenProperties
    <3>4. fed[j].client \in batch.results
      BY <1>3, <2>2, <2>4, <3>1
    <3>5. ask[fed[j].client] \in Kinds
      <4>1. fed[j].client \in Begun /\ fed[j].client \in Clients
        BY <1>0, <3>4 DEF Begun, Shapes
      <4> QED BY <1>0, <4>1 DEF Hands, Shapes
    <3>6. /\ Fed(fed[j]) \in RowRecords /\ Fed(fed[j]).client = fed[j].client
          /\ RowTyped(Fed(fed[j])) /\ UnderOwnType(Segment(fed[j]))
      BY <2>5, <3>1, <3>2, <3>3, <3>5, FedProperties
    <3> QED BY <3>3, <3>4, <3>6
  <2>9. /\ eaten \in Seq(RowRecords) /\ OfRows(eaten) = OfRows(fed) /\ OneRowEach(eaten)
        /\ Len(eaten) = Len(fed)
    BY <2>7, <2>8, RowsFed
  <2>10. \A i \in DOMAIN eaten : RowTyped(eaten[i])
    BY <2>8
  <2>11. \A s : s \in {Segment(row) : row \in {fed[i] : i \in {i \in DOMAIN fed : fed[i].types # <<>>}}}
           => s.client \in batch.results /\ UnderOwnType(s)
    <3> SUFFICES ASSUME NEW i \in DOMAIN fed
                 PROVE  Segment(fed[i]).client \in batch.results /\ UnderOwnType(Segment(fed[i]))
      OBVIOUS
    <3>1. Segment(fed[i]).client = fed[i].client
      BY DEF Segment
    <3> QED BY <2>8, <3>1
  <2> HIDE DEF eaten
  <2>12. /\ gen \o ready \in Seq(RowRecords) /\ OneRowEach(gen \o ready)
         /\ OfRows(gen \o ready) = OfRows(gen) \cup OfRows(ready)
         /\ \A i \in DOMAIN (gen \o ready) : \/ \E j \in DOMAIN gen : (gen \o ready)[i] = gen[j]
                                             \/ \E j \in DOMAIN ready : (gen \o ready)[i] = ready[j]
    <3>1. OfRows(gen) \cap OfRows(ready) = {}
      BY <1>3, <1>5, <2>2, <2>4, <2>6 DEF Decoding
    <3> QED BY <1>5, <2>6, <3>1, RowsConcat
  <2>13. rows'.waiting = wait /\ rows'.prompt = eaten /\ rows'.gen = gen \o ready
         /\ rows' = [waiting |-> wait, prompt |-> eaten, gen |-> gen \o ready]
    BY <1>1, <1>8
  <2>14. rows' \in [Parts -> Seq(RowRecords)]
    <3> DEFINE more == gen \o ready
    <3>1. more \in Seq(RowRecords) /\ rows' = [waiting |-> wait, prompt |-> eaten, gen |-> more]
      BY <2>12, <2>13
    <3> HIDE DEF more
    <3> QED BY <2>2, <2>9, <3>1 DEF Parts
  <2>15. Prompted(ends) = OfRows(all)
    BY <1>8 DEF Prompted, all
  <2>16. /\ OfRows(rows.waiting)' = OfRows(wait) /\ OfRows(rows.prompt)' = OfRows(fed)
         /\ OfRows(rows.gen)' = (Decoding \ ends) \cup OfRows(ready)
         /\ OneRowEach(rows.waiting)' /\ OneRowEach(rows.prompt)' /\ OneRowEach(rows.gen)'
    BY <1>5, <2>2, <2>9, <2>12, <2>13
  <2>17. /\ OfRows(fed) \cup OfRows(ready) = OfRows(all) /\ OfRows(fed) \cap OfRows(ready) = {}
    BY <2>6, <2>7
  <2>18. OfRows(all) \cap Decoding = {} /\ OfRows(all) \cap OfRows(wait) = {}
    BY <1>3, <2>2, <2>4 DEF Decoding
  <2>19. RowsAreResults'
    <3>1. /\ OfRows(rows.waiting)' \cap OfRows(rows.prompt)' = {}
          /\ OfRows(rows.waiting)' \cap OfRows(rows.gen)' = {}
          /\ OfRows(rows.prompt)' \cap OfRows(rows.gen)' = {}
      <4>1. OfRows(wait) \cap Decoding = {}
        BY <1>3, <2>2 DEF Decoding
      <4> QED BY <2>16, <2>17, <2>18, <4>1
    <3>2. OfRows(rows.waiting)' \cup OfRows(rows.prompt)' \cup OfRows(rows.gen)' = batch'.results
      <4>1. OfRows(wait) \cup OfRows(all) \cup Decoding = batch.results
        BY <1>3, <2>2, <2>4 DEF Decoding
      <4>2. ends \cap OfRows(wait) = {} /\ ends \cap OfRows(all) = {} /\ ends \subseteq Decoding
        BY <1>1, <1>3, <2>2, <2>18 DEF Decoding
      <4> QED BY <1>6, <2>16, <2>17, <4>1, <4>2
    <3>3. Len(rows.prompt)' <= PromptConcurrency
      <4> DEFINE x == Len(eaten)
                 y == Len(all)
      <4>1. x \in Nat /\ y \in Nat /\ x <= y /\ y = Len(rows.prompt) + Room(ends)
        BY <2>2, <2>4, <2>7, <2>9, LenProperties
      <4> HIDE DEF x, y
      <4>2. x <= PromptConcurrency
        BY <2>1, <4>1
      <4> QED BY <2>13, <4>2 DEF x
    <3> QED BY <2>16, <3>1, <3>2, <3>3, RowsInParts
  <2>20. \A part \in Parts : \A i \in DOMAIN rows'[part] : RowTyped(rows'[part][i])
    <3>1. \A i \in DOMAIN wait : RowTyped(wait[i])
      BY <1>4, <2>2
    <3>2. \A i \in DOMAIN (gen \o ready) : RowTyped((gen \o ready)[i])
      BY <1>5, <2>5, <2>6, <2>12
    <3> QED BY <2>10, <2>13, <3>1, <3>2 DEF Parts
  <2>21. \A s \in saved' \ saved :
           \/ \E c \in ends : s = Answer(c, Counted(c))
           \/ s.client \in batch.results /\ UnderOwnType(s)
    BY <1>1, <1>8, <2>11 DEF fed
  <2>22. Prompted(ends) \subseteq batch.results \ Decoding
    BY <1>3, <2>2, <2>4, <2>15, <2>18
  <2> QED BY <1>6, <2>14, <2>15, <2>16, <2>17, <2>19, <2>20, <2>21, <2>22
<1> QED BY <1>7, <1>8

(* A call of the batch generator, and the responses _generate sends for *)
(* it.                                                                  *)
LEMMA NextKeepsCore ==
  ASSUME ActiveInv, ActiveInv', Core, Typed, NEW ends \in SUBSET OfRows(rows.gen), NextCall(ends)
  PROVE  Core'
<1> DEFINE prompted == Prompted(ends)
           out == [c \in Decoding \cup Prompted(ends) |->
                     IF c \in Prompted(ends) THEN <<"progress">> ELSE Decoded(c, ends)]
<1>0. Shapes /\ Hands /\ RowsAreResults /\ Boxes /\ Informed
  BY DEF Core
<1>1. /\ worker.at \in {"loop", "budget"} /\ batch.open /\ ends \subseteq Decoding
      /\ inbox' = Sent(out)
      /\ tokens' = [c \in Clients |-> IF c \in Decoding THEN Counted(c) ELSE tokens[c]]
      /\ batch' = [batch EXCEPT !.results = @ \ ends,
                     !.doomed = @ \cup (stopped \cap (Decoding \cup Prompted(ends)))]
      /\ worker' = [at |-> "budget", client |-> None]
      /\ UNCHANGED <<ask, handler, online, stopped, requests, aside, active, stop>>
  BY NextCallSteps
<1>2. /\ rows' \in [Parts -> Seq(RowRecords)]
      /\ batch'.results = batch.results \ ends
      /\ RowsAreResults'
      /\ prompted \subseteq batch.results \ Decoding
      /\ Decoding \ ends \subseteq OfRows(rows.gen)'
      /\ OfRows(rows.gen)' \subseteq (Decoding \ ends) \cup prompted
  BY NextRows
<1> HIDE DEF prompted
<1>3. /\ Decoding \subseteq batch.results /\ batch.results \subseteq Clients
      /\ Serving = None /\ None \notin Clients
      /\ batch.results \subseteq Begun
  <2>1. Decoding \subseteq batch.results
    BY <1>0, RowsApart DEF Decoding
  <2>2. worker.at \notin Alone
    BY <1>1 DEF Alone
  <2> QED BY <1>0, <2>1, <2>2, WorkerFacts DEF Shapes, Begun
<1>4. /\ batch'.open /\ batch'.model = batch.model
      /\ batch'.doomed = batch.doomed \cup (stopped \cap (Decoding \cup prompted))
      /\ batch' \in [open : BOOLEAN, model : Models \cup {None}, drain : BOOLEAN,
                     results : SUBSET Clients, doomed : SUBSET Clients]
  <2>1. batch' = [batch EXCEPT !.results = batch.results \ ends,
                    !.doomed = batch.doomed \cup (stopped \cap (Decoding \cup prompted))]
    BY <1>1 DEF prompted
  <2>2. /\ batch \in [open : BOOLEAN, model : Models \cup {None}, drain : BOOLEAN,
                      results : SUBSET Clients, doomed : SUBSET Clients]
        /\ stopped \subseteq Clients
    BY <1>0 DEF Shapes
  <2> QED BY <1>1, <2>1, <2>2
<1>5. Serving' = None /\ Waiting' = Waiting /\ InLine' = InLine /\ Begun' = batch.results \ ends
  <2>1. Serving' = None /\ Waiting' = Waiting
    BY <1>1 DEF Serving, Waiting
  <2> QED BY <1>2, <2>1 DEF InLine, Begun
<1>6. /\ inbox' = [c \in Clients |-> IF handler[c] \in Returned \/ c \notin Decoding \cup prompted
                                     THEN inbox[c] ELSE inbox[c] \o out[c]]
  BY <1>1 DEF Sent, prompted
<1>7. \A c \in Decoding \cup prompted :
        /\ c \in prompted => out[c] = <<"progress">>
        /\ c \in ends => out[c] = <<"token", "end">>
        /\ c \in Decoding \ ends => out[c] = <<"token">>
  BY <1>1, <1>2 DEF Decoded, prompted
<1> HIDE DEF out
<1>8. ASSUME NEW c \in Clients
      PROVE  /\ c \notin Decoding \cup prompted => inbox'[c] = inbox[c]
             /\ c \in prompted =>
                  inbox'[c] = IF handler[c] \in Returned THEN inbox[c] ELSE Append(inbox[c], "progress")
             /\ c \in Decoding \ ends =>
                  inbox'[c] = IF handler[c] \in Returned THEN inbox[c] ELSE Append(inbox[c], "token")
             /\ c \in ends =>
                  inbox'[c] = IF handler[c] \in Returned THEN inbox[c]
                              ELSE inbox[c] \o <<"token", "end">>
             /\ inbox'[c] \in Seq(Items)
  <2>1. inbox[c] \in Seq(Items) /\ "progress" \in Items /\ "token" \in Items /\ "end" \in Items
    BY <1>0, InboxType DEF Items
  <2>2. /\ inbox[c] \o <<"progress">> = Append(inbox[c], "progress")
        /\ inbox[c] \o <<"token">> = Append(inbox[c], "token")
        /\ Append(inbox[c], "progress") \in Seq(Items) /\ Append(inbox[c], "token") \in Seq(Items)
    BY <2>1, AppendIsConcat, AppendProperties
  <2>3. inbox[c] \o <<"token", "end">> \in Seq(Items)
    <3>1. <<"token", "end">> \in Seq(Items)
      BY <2>1
    <3> QED BY <2>1, <3>1, ConcatProperties
  <2>4. inbox'[c] = IF handler[c] \in Returned \/ c \notin Decoding \cup prompted
                      THEN inbox[c] ELSE inbox[c] \o out[c]
    BY <1>6
  <2> QED BY <1>1, <1>7, <2>1, <2>2, <2>3, <2>4
<1>9. inbox' \in [Clients -> Seq(Items)]
  BY <1>6, <1>8
<1>10. Shapes'
  <2>1. tokens' \in [Clients -> Nat]
    <3>1. \A c \in Clients : Counted(c) \in Nat /\ tokens[c] \in Nat
      BY <1>0, CountedType DEF Shapes
    <3> QED BY <1>1, <3>1
  <2> QED BY <1>0, <1>1, <1>2, <1>4, <1>9, <2>1 DEF Shapes
<1>11. Hands'
  <2>1. \A d \in InLine : handler'[d] = "asking" /\ inbox'[d] = <<>>
    <3> SUFFICES ASSUME NEW d \in InLine PROVE handler'[d] = "asking" /\ inbox'[d] = <<>>
      OBVIOUS
    <3>1. d \in Clients /\ d \notin Decoding \cup prompted
      BY <1>0, <1>2, <1>3, WaitingType DEF Hands
    <3>2. inbox'[d] = inbox[d]
      BY <1>8, <3>1
    <3> QED BY <1>0, <1>1, <3>2 DEF Hands
  <2>2. batch'.doomed \subseteq stopped'
    BY <1>0, <1>1, <1>4 DEF Hands
  <2>3. InLine' \cap Begun' = {}
    BY <1>0, <1>3, <1>5 DEF Hands
  <2>4. \A d \in Begun' : handler'[d] \notin {"new", "submitting"}
    BY <1>0, <1>1, <1>3, <1>5 DEF Hands
  <2>5. \A d \in batch'.results : batch'.model = ask'[d].model /\ ask'[d].batchable
    BY <1>0, <1>1, <1>2, <1>4 DEF Hands
  <2>6. Once(Waiting')
    BY <1>0, <1>5 DEF Hands
  <2>7. worker'.at = "budget"
    BY <1>1
  <2> QED BY <1>4, <1>5, <2>1, <2>2, <2>3, <2>4, <2>5, <2>6, <2>7 DEF Hands
<1>12. ASSUME NEW d \in Clients PROVE BoxRight(d)' /\ Told(d)'
  <2>1. CASE d \notin Decoding \cup prompted
    <3>1. SamePlace(d)
      <4>1. d \notin ends /\ d \notin OfRows(rows.gen) /\ d \notin OfRows(rows.gen)'
        BY <1>1, <1>2, <2>1 DEF Decoding
      <4> QED BY <1>1, <1>2, <1>3, <1>5, <4>1 DEF SamePlace
    <3>2. inbox'[d] = inbox[d]
      BY <1>8, <2>1
    <3> QED BY <1>1, <3>1, <3>2, OthersKept
  <2>2. ASSUME d \in Decoding \cup prompted
        PROVE  /\ d \in Begun /\ d \notin InLine /\ d # Serving /\ d # Serving'
               /\ handler[d] \notin {"new", "submitting"} /\ handler' = handler
               /\ handler[d] = "asking" => inbox[d] # <<>> /\ Head(inbox[d]) = "context"
               /\ handler[d] \in {"asking", "reading"} \/ handler[d] \in Returned
    <3>1. d \in Begun /\ d # Serving /\ d # Serving'
      BY <1>2, <1>3, <1>5, <2>2
    <3>2. Told(d)
      BY <1>0, InformedTold
    <3>3. d \notin InLine /\ handler[d] \notin {"new", "submitting"}
      BY <1>0, <3>1 DEF Hands
    <3>4. handler[d] \in {"asking", "reading"} \/ handler[d] \in Returned
      BY <1>0, <3>3 DEF Shapes, Stages
    <3> QED BY <1>1, <3>1, <3>2, <3>3, <3>4 DEF Told
  <2>3. ASSUME NEW item \in {"progress", "token"},
               d \in (Decoding \ ends) \cup prompted,
               inbox'[d] = IF handler[d] \in Returned THEN inbox[d] ELSE Append(inbox[d], item),
               Highest(d) <= Rank(item), Rank(item) <= Highest(d)'
        PROVE  BoxRight(d)' /\ Told(d)'
    <3>1. /\ d \in Begun /\ d \notin InLine /\ d # Serving /\ d # Serving'
          /\ handler[d] \notin {"new", "submitting"} /\ handler' = handler
          /\ handler[d] = "asking" => inbox[d] # <<>> /\ Head(inbox[d]) = "context"
          /\ handler[d] \in {"asking", "reading"} \/ handler[d] \in Returned
      BY <2>2, <2>3
    <3>2. item \in Items /\ item # "context"
      BY DEF Items
    <3>3. /\ BoxRight(d)'
          /\ handler[d] \in {"asking", "reading"} => inbox'[d] = Append(inbox[d], item)
      BY <1>0, <2>3, <3>1, <3>2, BoxTakesOrGone
    <3>4. d \in Begun'
      BY <1>1, <1>2, <1>3, <1>5, <2>3
    <3>5. handler[d] = "asking" => inbox'[d] # <<>> /\ Head(inbox'[d]) = "context"
      BY <1>0, <3>1, <3>2, <3>3, FinalAppend
    <3> QED BY <3>1, <3>3, <3>4, <3>5 DEF Told
  <2>4. CASE d \in prompted
    <3>1. Highest(d) = 1
      BY <1>2, <2>4 DEF Highest, Decoding
    <3>2. Highest(d)' \in {1, 2}
      <4>1. d \in batch'.results
        BY <1>1, <1>2, <2>4
      <4> QED BY <4>1 DEF Highest
    <3>3. Highest(d) <= Rank("progress") /\ Rank("progress") <= Highest(d)'
      BY <3>1, <3>2, RankProperties
    <3> QED BY <1>8, <2>3, <2>4, <3>3
  <2>5. CASE d \in Decoding \ ends
    <3>1. Highest(d) = 2 /\ Highest(d)' = 2
      BY <1>2, <2>5 DEF Highest, Decoding
    <3>2. Highest(d) <= Rank("token") /\ Rank("token") <= Highest(d)'
      BY <3>1, RankProperties
    <3> QED BY <1>8, <2>3, <2>5, <3>2
  <2>6. CASE d \in ends
    <3>1. /\ d \in Begun /\ d \notin InLine /\ d # Serving /\ d # Serving'
          /\ handler[d] \notin {"new", "submitting"} /\ handler' = handler
          /\ handler[d] = "asking" => inbox[d] # <<>> /\ Head(inbox[d]) = "context"
          /\ handler[d] \in {"asking", "reading"} \/ handler[d] \in Returned
      BY <1>1, <2>2, <2>6
    <3>2. d \notin OfRows(rows.gen)' /\ d \notin batch'.results /\ d \notin InLine' /\ d \notin Begun'
      BY <1>1, <1>2, <1>5, <2>6, <3>1
    <3>3. Highest(d) = 2 /\ Highest(d)' = 4
      <4>1. Highest(d) = 2
        BY <1>1, <2>6 DEF Highest, Decoding
      <4>2. Highest(d)' = 4
        BY <3>1, <3>2 DEF Highest
      <4> QED BY <4>1, <4>2
    <3>4. CASE handler[d] \in Returned
      <4>1. inbox'[d] = inbox[d] /\ handler[d] \notin {"asking", "reading"}
        BY <1>8, <2>6, <3>4 DEF Returned
      <4>2. BoxRight(d)'
        BY <1>0, <3>1, <3>3, <4>1, BoxesAreRight, BoxStays
      <4> QED BY <3>1, <3>2, <4>1, <4>2 DEF Told
    <3>5. CASE handler[d] \in {"asking", "reading"}
      <4>1. handler[d] \notin Returned
        BY <3>5 DEF Returned
      <4>2. inbox'[d] = inbox[d] \o <<"token", "end">>
        BY <1>8, <2>6, <4>1
      <4>3. BoxRight(d)' /\ Final(d)'
        BY <1>0, <3>1, <3>3, <3>5, <4>2, BoxEnds
      <4> QED BY <3>1, <3>2, <4>3 DEF Told
    <3> QED BY <3>1, <3>4, <3>5
  <2> QED BY <2>1, <2>4, <2>5, <2>6
<1> QED BY <1>2, <1>10, <1>11, <1>12, CoreFromClients

----------------------------------------
(* The types prompts are saved under. *)

(* SavedUnderOwnType, entry by entry. *)
LEMMA SavedByEntry == SavedUnderOwnType <=> \A s \in saved : UnderOwnType(s)
BY DEF SavedUnderOwnType, UnderOwnType, Upto

(* Once a request is made it stays what it is, *)
AskKept ==
  \A c \in Clients : handler[c] # "new" => ask'[c] = ask[c] /\ handler'[c] # "new"

(* whatever step is taken. *)
LEMMA AskStays ==
  ASSUME Shapes, [Next]_vars
  PROVE  AskKept
<1> USE DEF AskKept
<1>1. CASE handler' = handler /\ ask' = ask
  BY <1>1
<1>2. ASSUME NEW c \in Clients, NEW stage, stage # "new", ask' = ask,
             handler' = [handler EXCEPT ![c] = stage]
      PROVE  AskKept
  BY <1>2 DEF Shapes
<1>3. ASSUME NEW c \in Clients, NEW k \in MayAsk[c], Arrive(c, k) PROVE AskKept
  BY <1>3 DEF Arrive, Shapes
<1>4. ASSUME NEW c \in Clients, Handle(c) PROVE AskKept
  <2>1. CASE Submit(c)
    <3>1. ask' = ask /\ handler' = [handler EXCEPT ![c] = "asking"] /\ "asking" # "new"
      BY <2>1 DEF Submit
    <3> QED BY <1>2, <3>1
  <2>2. CASE Idled(c)
    BY <1>1, <2>2 DEF Idled, handlers
  <2>3. ASSUME NEW stage \in {"reading", "done", "failed"}, NEW stopping, Proceed(c, stage, stopping)
        PROVE  AskKept
    <3>1. ask' = ask /\ handler' = [handler EXCEPT ![c] = stage] /\ stage # "new"
      BY <2>3 DEF Proceed
    <3> QED BY <1>2, <3>1
  <2> QED BY <1>4, <2>1, <2>2, <2>3 DEF Handle, GetContext, ReadProgress, ReadToken, ReadEnd
<1>5. CASE Generate
  <2>1. UNCHANGED handlers
    BY <1>5 DEF Generate, Take, Refuse, OpenBatch, Drain, ServeAlone, JoinBatch, CloseBatch,
         EndBudget, LeaveLoop, NextCall, SingleFails, Prepared, Prefilled, SingleToken, Decide,
         SingleEnds, SingleSaved
  <2> QED BY <1>1, <2>1 DEF handlers
<1>6. CASE StopServer \/ UNCHANGED vars \/ \E c \in Clients : Disconnect(c)
  BY <1>1, <1>6 DEF StopServer, vars, Disconnect, handlers
<1> QED BY <1>3, <1>4, <1>5, <1>6 DEF Next

(* So a row, and an entry that was saved, go on saying the same of a *)
(* request that is made.                                             *)
LEMMA RequestsSaySo ==
  ASSUME Shapes, AskKept, NEW c \in Clients, handler[c] # "new"
  PROVE  /\ \A row : row.client = c /\ RowTyped(row) => RowTyped(row)'
         /\ \A s : s.client = c /\ UnderOwnType(s) => UnderOwnType(s)'
<1>1. ask'[c] = ask[c]
  BY DEF AskKept
<1>2. ASSUME NEW row, row.client = c, RowTyped(row) PROVE RowTyped(row)'
  <2>1. ask'[row.client] = ask[row.client]
    BY <1>1, <1>2
  <2> QED BY <1>2, <2>1 DEF RowTyped
<1>3. ASSUME NEW s, s.client = c, UnderOwnType(s) PROVE UnderOwnType(s)'
  <2>1. ask'[s.client] = ask[s.client]
    BY <1>1, <1>3
  <2> QED BY <1>3, <2>1 DEF UnderOwnType
<1> QED BY <1>2, <1>3

(* What a step leaves in the batch and adds to the saved prompts. *)
LEMMA TypedFrom ==
  ASSUME ActiveInv, Core, Core', Typed, SavedUnderOwnType, AskKept,
         \A part \in Parts : \A i \in DOMAIN rows'[part] :
           \/ \E q \in Parts : \E j \in DOMAIN rows[q] : rows'[part][i] = rows[q][j]
           \/ RowTyped(rows'[part][i]) /\ rows'[part][i].client \in InLine \cup Begun,
         \A s \in saved' \ saved : s.client \in Begun /\ UnderOwnType(s),
         worker'.at \in {"decided", "ending", "saving"} => tokens'[Serving'] > 0
  PROVE  Typed' /\ SavedUnderOwnType'
<1>0. Shapes /\ Hands /\ RowsAreResults /\ InLine \subseteq Clients /\ Begun \subseteq Clients
  BY WaitingType, BegunType DEF Core
<1>1. \A c \in InLine \cup Begun : handler[c] # "new"
  BY <1>0 DEF Hands
<1>2. ASSUME NEW q \in Parts, NEW j \in DOMAIN rows[q]
      PROVE  RowTyped(rows[q][j]) /\ rows[q][j].client \in Begun
  <2>1. RowTyped(rows[q][j])
    BY DEF Typed
  <2>2. rows[q][j].client \in OfRows(rows[q])
    BY DEF OfRows
  <2>3. OfRows(rows[q]) \subseteq batch.results
    BY <1>0, RowsApart DEF Parts
  <2> QED BY <2>1, <2>2, <2>3 DEF Begun
<1>3. ASSUME NEW part \in Parts, NEW i \in DOMAIN rows'[part] PROVE RowTyped(rows[part][i])'
  <2>1. RowTyped(rows'[part][i]) /\ rows'[part][i].client \in InLine \cup Begun
    BY <1>2
  <2>2. PICK row : row = rows'[part][i]
    OBVIOUS
  <2>3. row.client \in Clients /\ handler[row.client] # "new" /\ RowTyped(row)
    BY <1>0, <1>1, <2>1, <2>2
  <2>4. RowTyped(row)'
    BY <1>0, <2>3, RequestsSaySo
  <2> QED BY <2>2, <2>4
<1>4. ASSUME NEW s \in saved' PROVE UnderOwnType(s)' /\ s.client \in Clients /\ handler'[s.client] # "new"
  <2>1. s.client \in Clients /\ handler[s.client] # "new" /\ UnderOwnType(s)
    <3>1. CASE s \in saved
      BY <3>1, SavedByEntry DEF Typed
    <3>2. CASE s \notin saved
      BY <1>0, <1>1, <3>2
    <3> QED BY <3>1, <3>2
  <2>2. UnderOwnType(s)'
    BY <1>0, <2>1, RequestsSaySo
  <2> QED BY <2>1, <2>2 DEF AskKept
<1>5. Typed'
  BY <1>3, <1>4 DEF Typed
<1>6. SavedUnderOwnType'
  BY <1>4 DEF SavedUnderOwnType, UnderOwnType, Upto
<1> QED BY <1>5, <1>6

(* The steps that leave the rows in the batch, or fewer of them, and save *)
(* nothing.                                                               *)
LEMMA FewerRowsTyped ==
  ASSUME ActiveInv, Core, Core', Typed, SavedUnderOwnType, AskKept, saved' = saved,
         rows' = rows \/ rows' = NoRows \/ EndBudget,
         worker'.at \in {"decided", "ending", "saving"} => tokens'[Serving'] > 0
  PROVE  Typed' /\ SavedUnderOwnType'
<1>1. ASSUME NEW part \in Parts, NEW i \in DOMAIN rows'[part]
      PROVE  \E q \in Parts : \E j \in DOMAIN rows[q] : rows'[part][i] = rows[q][j]
  <2>1. CASE rows' = rows
    BY <2>1
  <2>2. CASE rows' = NoRows
    <3>1. rows'[part] = <<>>
      BY <2>2 DEF NoRows, Parts
    <3> QED BY <3>1
  <2>3. CASE EndBudget
    <3> DEFINE stay == batch.results \ batch.doomed
    <3>1. PICK list \in Seq(RowRecords) : list = rows[part]
      BY DEF Core, Shapes
    <3>2. rows'[part] = RowsFor(list, stay)
      <4>1. rows' = [stage \in Parts |-> RowsFor(rows[stage], stay)]
        BY <2>3, RowsType DEF EndBudget, Core
      <4> QED BY <3>1, <4>1
    <3> HIDE DEF stay
    <3>3. \A k \in DOMAIN RowsFor(list, stay) : \E j \in DOMAIN list :
            RowsFor(list, stay)[k] = list[j] /\ list[j].client \in stay
      BY RowsForProperties
    <3> QED BY <3>1, <3>2, <3>3
  <2> QED BY <2>1, <2>2, <2>3
<1> QED BY <1>1, TypedFrom

(* The row of a request that joins the batch says its types truly. *)
LEMMA JoinTyped ==
  ASSUME ActiveInv, Core, Core', Typed, SavedUnderOwnType, AskKept,
         NEW c \in Clients, NEW cached \in Hits, JoinBatch(c, cached)
  PROVE  Typed' /\ SavedUnderOwnType'
<1> DEFINE row == Row(c, cached)
<1>1. saved' = saved /\ cached <= Total(ask[c].segments) /\ Takes(c)
  BY DEF JoinBatch
<1>2. c \in InLine /\ ask[c] \in Kinds /\ worker.at = "loop"
  BY <1>1, TakenFacts
<1>3. worker'.at \notin {"decided", "ending", "saving"}
  BY <1>2 DEF JoinBatch
<1>4. CASE cached = Total(ask[c].segments)
  <2>1. rows' = rows
    BY <1>4 DEF JoinBatch
  <2> QED BY <1>1, <1>3, <2>1, FewerRowsTyped
<1>5. CASE cached # Total(ask[c].segments)
  <2>1. rows' = [rows EXCEPT !.waiting = Append(rows.waiting, row)]
    BY <1>5 DEF JoinBatch
  <2>2. row \in RowRecords /\ row.client = c /\ RowTyped(row)
    <3>1. cached \in Nat /\ Total(ask[c].segments) \in Nat
      BY <1>2, SizesAssumption, TotalType
    <3>2. cached < Total(ask[c].segments)
      BY <1>1, <1>5, <3>1
    <3> QED BY <1>2, <3>1, <3>2, RowProperties
  <2> HIDE DEF row
  <2>3. rows.waiting \in Seq(RowRecords) /\ DOMAIN rows = Parts
    BY RowsType DEF Core
  <2>4. PICK list \in Seq(RowRecords) : list = rows.waiting
    BY <2>3
  <2>5. \A i \in DOMAIN Append(list, row) :
          Append(list, row)[i] = row \/ \E j \in DOMAIN list : Append(list, row)[i] = list[j]
    <3> DEFINE n == Len(list)
               t == Append(list, row)
    <3>1. n \in Nat /\ DOMAIN list = 1..n
      BY LenProperties
    <3>2. t \in Seq(RowRecords) /\ Len(t) = n + 1 /\ (\A i \in 1..n : t[i] = list[i]) /\ t[n + 1] = row
      BY <2>2, AppendProperties
    <3> HIDE DEF t, n
    <3>3. DOMAIN t = 1..n + 1 /\ \A i \in 1..n + 1 : i \in 1..n \/ i = n + 1
      BY <3>1, <3>2, LenProperties
    <3>4. \A i \in DOMAIN t : t[i] = row \/ \E j \in DOMAIN list : t[i] = list[j]
      BY <3>1, <3>2, <3>3
    <3> QED BY <3>4 DEF t
  <2>6. \A part \in Parts : \A i \in DOMAIN rows'[part] :
           \/ \E q \in Parts : \E j \in DOMAIN rows[q] : rows'[part][i] = rows[q][j]
           \/ RowTyped(rows'[part][i]) /\ rows'[part][i].client \in InLine \cup Begun
    <3> SUFFICES ASSUME NEW part \in Parts, NEW i \in DOMAIN rows'[part]
                 PROVE  \/ \E q \in Parts : \E j \in DOMAIN rows[q] : rows'[part][i] = rows[q][j]
                        \/ RowTyped(rows'[part][i]) /\ rows'[part][i].client \in InLine \cup Begun
      OBVIOUS
    <3>1. CASE part = "waiting"
      <4>1. rows'[part] = Append(list, row) /\ rows["waiting"] = list /\ "waiting" \in Parts
        BY <2>1, <2>3, <2>4, <3>1 DEF Parts
      <4>2. \/ rows'[part][i] = row \/ \E j \in DOMAIN list : rows'[part][i] = list[j]
        BY <2>5, <4>1
      <4> QED BY <1>2, <2>2, <4>1, <4>2
    <3>2. CASE part # "waiting"
      <4>1. rows'[part] = rows[part]
        BY <2>1, <2>3, <3>2
      <4> QED BY <4>1
    <3> QED BY <3>1, <3>2
  <2> QED BY <1>1, <1>3, <2>6, TypedFrom
<1> QED BY <1>4, <1>5

(* What a call of the batch generator feeds and saves says its types *)
(* truly.                                                            *)
LEMMA NextTyped ==
  ASSUME ActiveInv, Core, Core', Typed, SavedUnderOwnType, AskKept,
         NEW ends \in SUBSET OfRows(rows.gen), NextCall(ends)
  PROVE  Typed' /\ SavedUnderOwnType'
<1>0. Shapes /\ Hands /\ RowsAreResults
  BY DEF Core
<1>1. worker' = [at |-> "budget", client |-> None] /\ ends \subseteq Decoding
  BY NextCallSteps
<1>2. /\ \A part \in Parts : \A i \in DOMAIN rows'[part] : RowTyped(rows'[part][i])
      /\ \A s \in saved' \ saved :
           \/ \E c \in ends : s = Answer(c, Counted(c))
           \/ s.client \in batch.results /\ UnderOwnType(s)
      /\ RowsAreResults' /\ batch'.results \subseteq batch.results
  BY NextRows
<1>3. Decoding \subseteq batch.results /\ batch.results \subseteq Begun /\ Begun \subseteq Clients
  BY <1>0, RowsApart, BegunType DEF Begun, Decoding
<1>4. ASSUME NEW s \in saved' \ saved PROVE s.client \in Begun /\ UnderOwnType(s)
  <2>1. CASE s.client \in batch.results /\ UnderOwnType(s)
    BY <1>3, <2>1
  <2>2. ASSUME NEW c \in ends, s = Answer(c, Counted(c))
        PROVE  s.client \in Begun /\ UnderOwnType(s)
    <3>1. c \in Begun /\ c \in Clients /\ handler[c] # "new"
      BY <1>0, <1>1, <1>3 DEF Hands
    <3>2. ask[c] \in Kinds /\ Counted(c) \in Nat \ {0}
      BY <1>0, <3>1, CountedType DEF Shapes
    <3> QED BY <2>2, <3>1, <3>2, AnswerUnderOwnType
  <2> QED BY <1>2, <2>1, <2>2
<1>5. ASSUME NEW part \in Parts, NEW i \in DOMAIN rows'[part]
      PROVE  RowTyped(rows'[part][i]) /\ rows'[part][i].client \in InLine \cup Begun
  <2>1. RowTyped(rows'[part][i])
    BY <1>2
  <2>2. rows'[part][i].client \in OfRows(rows[part])'
    BY DEF OfRows
  <2>3. OfRows(rows[part])' \subseteq batch'.results
    BY <1>2 DEF RowsAreResults, Parts
  <2> QED BY <1>2, <1>3, <2>1, <2>2, <2>3
<1>6. worker'.at \notin {"decided", "ending", "saving"}
  BY <1>1
<1> QED BY <1>4, <1>5, <1>6, TypedFrom

(* What _serve_single saves says its types truly. *)
LEMMA AloneTyped ==
  ASSUME ActiveInv, Core, Core', Typed, SavedUnderOwnType, AskKept,
         SingleFails \/ Prepared \/ Prefilled \/ SingleToken \/ Decide \/ SingleEnds
           \/ SingleSaved
  PROVE  Typed' /\ SavedUnderOwnType'
<1>0. Shapes /\ Hands /\ RowsAreResults
  BY DEF Core
<1>1. worker.at \in Alone /\ Serving \in Clients /\ Serving \in Begun /\ rows' = rows
      /\ worker \in [at : {"loop", "budget", "dead", "stopped"} \cup Alone,
                     client : Clients \cup {None}]
  <2>1. worker.at \in Alone
    BY DEF SingleFails, Prepared, Prefilled, SingleToken, Decide, SingleEnds, SingleSaved, At, Alone
  <2> QED BY <1>0, <2>1, AloneIsApart DEF SingleFails, Prepared, Prefilled, SingleToken, Decide,
           SingleEnds, SingleSaved, ActiveInv, WorkerInv
<1>2. CASE SingleFails \/ Prepared \/ Prefilled
  <2>1. saved' = saved /\ worker'.at \notin {"decided", "ending", "saving"}
    BY <1>1, <1>2 DEF SingleFails, Prepared, Prefilled, Idle
  <2> QED BY <1>1, <2>1, FewerRowsTyped
<1>3. CASE SingleToken
  <2>1. saved' = saved /\ Serving' = Serving
        /\ tokens' = [tokens EXCEPT ![Serving] = Counted(Serving)]
    BY <1>1, <1>3 DEF SingleToken, Serving
  <2>2. tokens \in [Clients -> Nat]
    BY <1>0 DEF Shapes
  <2>3. Counted(Serving) > 0
    BY <1>1, <2>2, CountedType
  <2>4. tokens'[Serving'] > 0
    BY <1>1, <2>1, <2>2, <2>3
  <2> QED BY <1>1, <2>1, <2>4, FewerRowsTyped
<1>4. CASE Decide \/ SingleEnds
  <2>1. saved' = saved /\ tokens' = tokens /\ Serving' = Serving
        /\ worker.at \in {"decided", "ending"}
    BY <1>1, <1>4 DEF Decide, SingleEnds, Serving, At
  <2>2. tokens'[Serving'] > 0
    BY <2>1 DEF Typed
  <2> QED BY <1>1, <2>1, <2>2, FewerRowsTyped
<1>5. CASE SingleSaved
  <2>1. worker.at = "saving" /\ worker' = Idle
        /\ saved' \subseteq saved \cup {Answer(Serving, tokens[Serving])}
    BY <1>5 DEF SingleSaved, At
  <2>2. tokens[Serving] \in Nat \ {0}
    <3>1. tokens[Serving] \in Nat
      BY <1>0, <1>1 DEF Shapes
    <3> QED BY <2>1, <3>1 DEF Typed
  <2>3. ask[Serving] \in Kinds
    BY <1>0, <1>1 DEF Hands, Shapes
  <2>4. UnderOwnType(Answer(Serving, tokens[Serving])) /\ Answer(Serving, tokens[Serving]).client = Serving
    BY <1>1, <2>2, <2>3, AnswerUnderOwnType
  <2>5. \A s \in saved' \ saved : s.client \in Begun /\ UnderOwnType(s)
    BY <1>1, <2>1, <2>4
  <2>6. worker'.at \notin {"decided", "ending", "saving"}
    BY <2>1 DEF Idle
  <2>7. \A part \in Parts : \A i \in DOMAIN rows'[part] :
          \E q \in Parts : \E j \in DOMAIN rows[q] : rows'[part][i] = rows[q][j]
    BY <1>1
  <2> QED BY <2>5, <2>6, <2>7, TypedFrom
<1> QED BY <1>2, <1>3, <1>4, <1>5

----------------------------------------
(* The invariant holds. *)

(* The invariant holds at first. *)
LEMMA InitIInv == Init => IInv
<1> SUFFICES ASSUME Init PROVE IInv
  OBVIOUS
<1>1. ActiveInv
  BY DEF Init, Idle, ActiveInv, WorkerInv, ActiveIsServed, Alone
<1>2. Shapes
  <2>1. \A c \in Clients : inbox[c] \in Seq(Items) /\ inbox = [d \in Clients |-> <<>>]
    BY EmptySeq DEF Init
  <2>2. inbox \in [Clients -> Seq(Items)]
    BY <2>1, EmptySeq DEF Init
  <2>3. requests \in Seq(Clients) /\ aside \in Seq(Clients) /\ Len(aside) <= 1
    BY EmptySeq DEF Init
  <2>4. batch \in [open : BOOLEAN, model : Models \cup {None}, drain : BOOLEAN,
                   results : SUBSET Clients, doomed : SUBSET Clients]
    BY DEF Init, NoBatch
  <2>5. rows \in [Parts -> Seq(RowRecords)]
    <3>1. rows = [p \in Parts |-> <<>>]
      BY DEF Init, NoRows, Parts
    <3> QED BY <3>1, EmptySeq
  <2> QED BY <2>2, <2>3, <2>4, <2>5 DEF Init, Shapes, Stages
<1>3. Waiting = <<>> /\ InLine = {} /\ Begun = {} /\ Serving = None
  <2>1. Waiting = <<>>
    BY EmptySeq, ConcatEmptySeq DEF Init, Waiting
  <2>2. Serving = None /\ batch.results = {}
    BY DEF Init, Serving, Idle, NoBatch
  <2> QED BY <2>1, <2>2 DEF InLine, Begun
<1>4. Hands
  BY <1>3 DEF Init, Hands, Once, NoBatch, Idle
<1>5. RowsAreResults
  <2>1. /\ rows.waiting = <<>> /\ rows.prompt = <<>> /\ rows.gen = <<>>
        /\ \A part \in Parts : rows[part] = <<>>
    BY DEF Init, NoRows, Parts
  <2>2. OfRows(<<>>) = {} /\ OneRowEach(<<>>)
    BY DEF OfRows, OneRowEach
  <2>3. PromptConcurrency \in Nat /\ Len(<<>>) = 0
    BY SizesAssumption, EmptySeq
  <2>4. batch.results = {}
    BY DEF Init, NoBatch
  <2> QED BY <2>1, <2>2, <2>3, <2>4 DEF RowsAreResults
<1>6. Boxes
  BY DEF Init, Boxes, Ordered
<1>7. Informed
  BY <1>3 DEF Init, Informed, Idle
<1>8. Typed /\ SavedUnderOwnType
  <2>1. \A part \in Parts : rows[part] = <<>>
    BY DEF Init, NoRows, Parts
  <2> QED BY <2>1 DEF Init, Typed, SavedUnderOwnType, Idle
<1> QED BY <1>1, <1>2, <1>4, <1>5, <1>6, <1>7, <1>8 DEF IInv

(* A stutter keeps the invariant. *)
LEMMA UnchangedKeepsCore ==
  ASSUME ActiveInv, Core, UNCHANGED vars
  PROVE  Core'
<1>1. /\ Still /\ inbox' = inbox /\ handler' = handler /\ ask' = ask
      /\ stopped' = stopped /\ UNCHANGED <<online, tokens, stop>>
  BY DEF vars, Still
<1>2. Shapes'
  BY <1>1 DEF Core, Shapes, Still
<1> QED BY <1>1, <1>2, QuietKeepsCore

(* The inductive step: every action keeps the invariant. *)
LEMMA NextIInv == IInv /\ [Next]_vars => IInv'
<1> SUFFICES ASSUME IInv, [Next]_vars PROVE IInv'
  OBVIOUS
<1>1. ActiveInv /\ Core /\ Typed /\ SavedUnderOwnType /\ ActiveInv' /\ Shapes
  BY ActiveStep DEF IInv, Core
<1>2. AskKept
  BY <1>1, AskStays
<1>3. ASSUME Core', saved' = saved, rows' = rows, worker' = worker, tokens' = tokens
      PROVE  Typed' /\ SavedUnderOwnType'
  <2>1. worker'.at \in {"decided", "ending", "saving"} => tokens'[Serving'] > 0
    BY <1>1, <1>3 DEF Typed, Serving
  <2> QED BY <1>1, <1>2, <1>3, <2>1, FewerRowsTyped
<1>4. ASSUME Core', saved' = saved, rows' = rows \/ rows' = NoRows \/ EndBudget,
             worker'.at \notin {"decided", "ending", "saving"}
      PROVE  Typed' /\ SavedUnderOwnType'
  BY <1>1, <1>2, <1>4, FewerRowsTyped
<1>5. ASSUME NEW c \in Clients,
             Handle(c) \/ Disconnect(c) \/ \E k \in MayAsk[c] : Arrive(c, k)
      PROVE  Core' /\ Typed' /\ SavedUnderOwnType'
  <2>1. Core'
    BY <1>1, <1>5, HandlerKeepsCore
  <2>2. saved' = saved /\ rows' = rows /\ worker' = worker /\ tokens' = tokens
    BY <1>5 DEF Handle, Disconnect, Arrive, Submit, GetContext, ReadProgress, ReadToken, ReadEnd,
       Idled, Proceed
  <2> QED BY <1>3, <2>1, <2>2
<1>6. CASE StopServer \/ UNCHANGED vars
  <2>1. Core'
    BY <1>1, <1>6, StopKeepsCore, UnchangedKeepsCore
  <2>2. saved' = saved /\ rows' = rows /\ worker' = worker /\ tokens' = tokens
    BY <1>6 DEF StopServer, vars
  <2> QED BY <1>1, <1>3, <2>1, <2>2 DEF IInv, Core
<1>7. ASSUME NEW c \in Clients, Refuse(c) \/ OpenBatch(c) \/ Drain(c) \/ ServeAlone(c)
      PROVE  Core' /\ Typed' /\ SavedUnderOwnType'
  <2>1. Core'
    BY <1>1, <1>7, RefuseKeepsCore, PutAsideKeepsCore, ServeAloneKeepsCore
  <2>2. worker.at = "loop"
    BY <1>7 DEF Refuse, OpenBatch, Drain, ServeAlone, Takes
  <2>3. saved' = saved /\ (rows' = rows \/ rows' = NoRows)
        /\ worker'.at \notin {"decided", "ending", "saving"}
    BY <1>7, <2>2 DEF Refuse, OpenBatch, Drain, ServeAlone
  <2> QED BY <1>4, <2>1, <2>3
<1>8. ASSUME NEW c \in Clients, NEW cached \in Hits, JoinBatch(c, cached)
      PROVE  Core' /\ Typed' /\ SavedUnderOwnType'
  BY <1>1, <1>2, <1>8, JoinKeepsCore, JoinTyped
<1>9. CASE CloseBatch \/ EndBudget \/ LeaveLoop
  <2>1. Core'
    BY <1>1, <1>9, ClosingKeepsCore, EndBudgetKeepsCore
  <2>2. /\ saved' = saved /\ (rows' = NoRows \/ EndBudget)
        /\ worker'.at \notin {"decided", "ending", "saving"}
    BY <1>9 DEF CloseBatch, EndBudget, LeaveLoop, Idle
  <2> QED BY <1>1, <1>4, <2>1, <2>2 DEF IInv, Core
<1>10. ASSUME NEW ends \in SUBSET OfRows(rows.gen), NextCall(ends)
       PROVE  Core' /\ Typed' /\ SavedUnderOwnType'
  BY <1>1, <1>2, <1>10, NextKeepsCore, NextTyped
<1>11. CASE SingleFails \/ Prepared \/ Prefilled \/ SingleToken \/ Decide \/ SingleEnds
              \/ SingleSaved
  BY <1>1, <1>2, <1>11, SingleKeepsCore, AloneTyped DEF IInv, Core
<1>12. Core' /\ Typed' /\ SavedUnderOwnType' => IInv'
  BY <1>1 DEF IInv, Core
<1> QED BY <1>5, <1>6, <1>7, <1>8, <1>9, <1>10, <1>11, <1>12 DEF Next, Generate, Take

(* IInv holds of every behaviour of the generation loop. *)
THEOREM InvariantHolds == Spec => []IInv
BY InitIInv, NextIInv, PTL DEF Spec

----------------------------------------
(* What follows from it. *)

(* The invariant implies the type invariant, *)
LEMMA TypesRight == IInv => TypeOK
<1> SUFFICES ASSUME IInv PROVE TypeOK
  OBVIOUS
<1>1. Shapes /\ ActiveInv
  BY DEF IInv
<1>2. RowsOk(rows.waiting) /\ RowsOk(rows.prompt) /\ RowsOk(rows.gen)
  BY <1>1, RowsType, RowsOkType
<1>3. active \in Clients \cup {None}
  BY <1>1, WorkerFacts DEF ActiveInv, ActiveIsServed
<1>4. /\ worker.at \in {"loop", "budget", "dead", "stopped"} \cup Alone
      /\ worker.client \in IF worker.at \in Alone THEN Clients ELSE {None}
  BY <1>1 DEF ActiveInv, WorkerInv
<1> QED BY <1>1, <1>2, <1>3, <1>4 DEF Shapes, TypeOK

(* that the results of the batch are its rows, *)
LEMMA ResultsMatch == IInv => ResultsMatchBatch
<1> SUFFICES ASSUME IInv PROVE ResultsMatchBatch
  OBVIOUS
<1>1. Shapes /\ Hands /\ RowsAreResults /\ TypeOK
  BY TypesRight DEF IInv
<1> DEFINE two == rows.waiting \o rows.prompt
           all == two \o rows.gen
<1>2. /\ rows.waiting \in Seq(RowRecords) /\ rows.prompt \in Seq(RowRecords)
      /\ rows.gen \in Seq(RowRecords)
  BY <1>1, RowsType
<1>3. two \in Seq(RowRecords) /\ OfRows(two) = OfRows(rows.waiting) \cup OfRows(rows.prompt)
      /\ OneRowEach(two)
  BY <1>1, <1>2, RowsApart, RowsConcat
<1>4. OfRows(two) \cap OfRows(rows.gen) = {} /\ OneRowEach(rows.gen)
      /\ OfRows(two) \cup OfRows(rows.gen) = batch.results
  BY <1>1, <1>3, RowsApart
<1> HIDE DEF two
<1>5. all \in Seq(RowRecords) /\ OfRows(all) = batch.results /\ OneRowEach(all)
  BY <1>2, <1>3, <1>4, RowsConcat
<1>6. Len(all) = Cardinality(batch.results)
  <2> HIDE DEF all
  <2> QED BY <1>5, CountRows
<1>7. \A c \in batch.results : Joins(c)
  BY <1>1 DEF Hands, Joins
<1> QED BY <1>1, <1>5, <1>6, <1>7 DEF ResultsMatchBatch, two

(* and that no request is dropped. *)
LEMMA NoneDroppedRight == IInv => NoneDropped
<1> SUFFICES ASSUME IInv, NEW c \in Clients, handler[c] \in {"asking", "reading"}
             PROVE  \/ Owners(c) = 1
                    \/ Owners(c) = 0 /\ (Final(c) \/ c \in stopped)
                    \/ worker.at \in {"dead", "stopped"}
  BY DEF NoneDropped
<1>1. ActiveInv /\ Shapes /\ Hands /\ Informed
  BY DEF IInv
<1>2. c # None /\ (Serving = c => worker.at \in Alone)
  BY <1>1, WorkerFacts
<1>3. CASE c \in InLine
  <2>1. PICK k \in DOMAIN Waiting : Waiting[k] = c
    BY <1>3 DEF InLine
  <2>2. {i \in DOMAIN Waiting : Waiting[i] = c} = {k}
    BY <1>1, <2>1 DEF Hands, Once
  <2>3. c \notin batch.results /\ Serving # c
    BY <1>1, <1>2, <1>3 DEF Hands, Begun
  <2>4. Cardinality({k}) = 1
    BY FS_Singleton
  <2> QED BY <2>2, <2>3, <2>4 DEF Owners
<1>4. CASE c \notin InLine
  <2>1. {i \in DOMAIN Waiting : Waiting[i] = c} = {}
    BY <1>4 DEF InLine
  <2>2. Cardinality({i \in DOMAIN Waiting : Waiting[i] = c}) = 0
    BY <2>1, FS_EmptySet
  <2>3. CASE Serving = c
    <3>1. batch.results = {}
      BY <1>1, <1>2, <2>3, AloneIsApart
    <3> QED BY <2>2, <2>3, <3>1 DEF Owners
  <2>4. CASE Serving # c /\ c \in batch.results
    BY <2>2, <2>4 DEF Owners
  <2>5. CASE Serving # c /\ c \notin batch.results
    <3>1. c \notin Begun
      BY <2>5 DEF Begun
    <3>2. Final(c) \/ c \in stopped \/ worker.at \in {"dead", "stopped"}
      BY <1>1, <1>4, <3>1 DEF Informed
    <3>3. Owners(c) = 0
      BY <2>2, <2>5 DEF Owners
    <3> QED BY <3>2, <3>3
  <2> QED BY <2>3, <2>4, <2>5
<1> QED BY <1>3, <1>4

(* TypeOK: every variable of the generation loop keeps its type. *)
THEOREM AtType == Spec => []TypeOK
BY InvariantHolds, TypesRight, PTL

(* ResultsMatchBatch: every entry of _batch_results belongs to one       *)
(* sequence of the batch generator and every sequence to one entry,      *)
(* however requests join, end, are cancelled or are put aside; a stopped *)
(* request is removed from both at once.                                 *)
THEOREM BatchHoldsItsResults == Spec => []ResultsMatchBatch
BY InvariantHolds, ResultsMatch, PTL

(* NoneDropped: a request that was put into the queue is in one pair of   *)
(* hands - the queue, the one put aside, the batch, _serve_single - until *)
(* its last response is in its own queue, its client is gone, or the loop *)
(* has ended.                                                             *)
THEOREM RequestsKept == Spec => []NoneDropped
BY InvariantHolds, NoneDroppedRight, PTL

(* ResponsesInOrder: a handler reads the context first, then progress,   *)
(* then tokens, then one end or error, however the batch interleaves the *)
(* requests.                                                             *)
THEOREM OrderKept == Spec => []ResponsesInOrder
<1>1. IInv => ResponsesInOrder
  BY DEF IInv, Boxes, Ordered, ResponsesInOrder
<1> QED BY <1>1, InvariantHolds, PTL

(* SavedUnderOwnType: a prompt goes into the prompt cache under the type  *)
(* of the segment it ends with, whatever part of it the cache held before *)
(* and however its feeding was spread over the calls.                     *)
THEOREM TypesKept == Spec => []SavedUnderOwnType
<1>1. IInv => SavedUnderOwnType
  BY DEF IInv
<1> QED BY <1>1, InvariantHolds, PTL
=============================================================================
