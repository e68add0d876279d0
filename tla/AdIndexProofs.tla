---------------------------- MODULE AdIndexProofs ----------------------------
(***************************************************************************)
(* Proofs about AdIndex for every file and every lookup.  The index maps   *)
(* each keyword to its first row while it is built and ever after (Shapes, *)
(* Indexed); the scan, which tests no bound, stays close to the rows       *)
(* (Sought); and a lookup finds what a search of the file would:           *)
(*   rows and lines are one to one, however the rows are sorted (Loaded),  *)
(*   the flag of an hour survives packing (HourBit),                       *)
(*   the heap holds the best of the rows passed (Scanned, PushedBest), and *)
(*   the rows of a keyword end where another begins (RowsOrdered).         *)
(***************************************************************************)
EXTENDS AdIndex, FiniteSetTheorems, WellFoundedInduction, TLAPS

-----------------------------------------------------------------------------
(* Naturals. *)

\* A set of naturals has a least element.
LEMMA Least ==
  ASSUME NEW S, S \subseteq Nat, S # {}
  PROVE  \E x \in S : \A y \in S : x <= y
<1>1. IsWellFoundedOn(OpToRel(<, Nat), Nat)
  BY NatLessThanWellFounded
<1>2. PICK x \in S : \A y \in S : ~ (<<y, x>> \in OpToRel(<, Nat))
  BY <1>1, WFMin
<1>3. \A y \in S : ~ (y < x)
  BY <1>2 DEF OpToRel
<1> QED
  BY <1>3

\* Induction: a set that has 0 and, with any natural, the next one.
LEMMA Induction ==
  ASSUME NEW S, 0 \in S, \A n \in Nat : n \in S => n + 1 \in S
  PROVE  Nat \subseteq S
<1> SUFFICES ASSUME Nat \ S # {} PROVE FALSE
  OBVIOUS
<1>1. PICK x \in Nat \ S : \A y \in Nat \ S : x <= y
  BY Least
<1>2. x - 1 \in Nat /\ (x - 1) + 1 = x
  OBVIOUS
<1> QED
  BY <1>1, <1>2

-----------------------------------------------------------------------------
(* The index. *)

Loading == phase \in {"reading", "sorting"}

\* The rows that were read.
Rows == {Parse(line) : line \in Line}

Shapes ==
  /\ file \in Seq(Line)
  /\ pos \in Nat \ {0}
  /\ datas \in Seq(Rows)
  /\ i \in Nat \ {0}
  /\ cursor \in Nat
  /\ phase \in Phases

\* The loop over the rows: the one indexed last has the greatest keyword yet,
\* because the rows are sorted.
Indexed ==
  ~Loading =>
    /\ i <= Len(datas) + 1
    /\ \A k \in 1..(Len(datas) - 1) : datas[k].keyword <= datas[k + 1].keyword
    /\ i = 1 => Len(datas) = 0
    /\ i > 1 => last_keyword = datas[i - 1].keyword
    /\ \A p \in 1..(i - 1) : datas[p].keyword <= last_keyword

\* There is no index before the rows are sorted.
Unsorted == Loading => kw2index = <<>>

\* A scan looks for a keyword that some row has, and not for the zero behind
\* the rows.
Sought ==
  /\ phase \in {"reading", "sorting", "indexing", "ready"} => cursor = 0
  /\ phase = "scanning" => lookup.keyword # 0

-----------------------------------------------------------------------------

LEMMA Keywords == \A row \in Rows : row.keyword \in Nat \ {0}
BY DEF Rows, Parse, Line

LEMMA ShapesInit == Init => Shapes
<1> SUFFICES ASSUME Init PROVE Shapes
  OBVIOUS
<1>1. datas \in Seq(Rows)
  BY DEF Init
<1> QED
  BY <1>1, FilesAssumption DEF Init, Shapes, Phases

LEMMA ShapesStep == Shapes /\ IndexPointsToFirst /\ Indexed /\ [Next]_vars => Shapes'
<1> SUFFICES ASSUME Shapes, IndexPointsToFirst, Indexed, [Next]_vars PROVE Shapes'
  OBVIOUS
<1>1. CASE ReadLine
  <2>1. file[pos] \in Line
    BY <1>1 DEF ReadLine, Shapes
  <2>2. Parse(file[pos]) \in Rows
    BY <2>1 DEF Rows
  <2>3. Append(datas, Parse(file[pos])) \in Seq(Rows)
    BY <2>2 DEF Shapes
  <2> QED
    BY <1>1, <2>3 DEF ReadLine, Shapes
<1>2. CASE SortRows
  <2> DEFINE size == Len(datas)
  <2>1. PICK p \in [1..size -> 1..size] : datas' = [k \in 1..size |-> datas[p[k]]]
    BY <1>2 DEF SortRows
  <2>2. datas' \in Seq(Rows)
    <3>1. size \in Nat /\ \A k \in 1..size : datas[p[k]] \in Rows
      BY DEF Shapes
    <3> QED
      BY <2>1, <3>1
  <2> QED
    BY <1>2, <2>2 DEF SortRows, Shapes, Phases
<1>3. CASE EndOfFile \/ IndexRow \/ EndOfRows \/ EndScan
  BY <1>3 DEF EndOfFile, IndexRow, EndOfRows, EndScan, Shapes, Phases
<1>4. ASSUME NEW q \in Lookups, Skip(q) PROVE Shapes'
  BY <1>4 DEF Skip, Shapes, Phases
<1>5. ASSUME NEW q \in Lookups, StartScan(q) PROVE Shapes'
  <2>1. kw2index[q.keyword] \in Nat
    BY <1>5 DEF StartScan, IndexPointsToFirst
  <2> QED
    BY <1>5, <2>1 DEF StartScan, Shapes, Phases
<1>6. CASE ScanRow
  BY <1>6 DEF ScanRow, Shapes
<1>7. CASE UNCHANGED vars
  BY <1>7 DEF vars, Shapes
<1> QED
  BY <1>1, <1>2, <1>3, <1>4, <1>5, <1>6, <1>7 DEF Next

\* Steps after the loop, or before it.
LEMMA IndexKept ==
  ASSUME Indexed, IndexPointsToFirst, UNCHANGED <<datas, kw2index, last_keyword, i>>,
         Loading => Loading'
  PROVE  Indexed' /\ IndexPointsToFirst'
<1>1. Indexed'
  BY DEF Indexed
<1>2. IndexPointsToFirst'
  <2> SUFFICES ASSUME ~Loading' PROVE IndexPointsToFirst'
    BY DEF IndexPointsToFirst, Loading
  <2>1. /\ DOMAIN kw2index = {datas[p].keyword : p \in 1..(i - 1)}
        /\ \A k \in DOMAIN kw2index :
             /\ kw2index[k] \in 1..(i - 1)
             /\ datas[kw2index[k]].keyword = k
             /\ \A p \in 1..(kw2index[k] - 1) : datas[p].keyword # k
    BY DEF IndexPointsToFirst, Loading
  <2> QED
    BY <2>1 DEF IndexPointsToFirst
<1> QED
  BY <1>1, <1>2

LEMMA IndexStep ==
  /\ Shapes /\ Unsorted /\ Indexed /\ IndexPointsToFirst /\ [Next]_vars
  => Indexed' /\ IndexPointsToFirst'
<1> SUFFICES ASSUME Shapes, Unsorted, Indexed, IndexPointsToFirst, [Next]_vars
             PROVE  Indexed' /\ IndexPointsToFirst'
  OBVIOUS
<1>1. CASE ReadLine \/ EndOfFile
  BY <1>1 DEF ReadLine, EndOfFile, Indexed, IndexPointsToFirst, Loading
<1>2. CASE SortRows
  <2> DEFINE size == Len(datas)
  <2>1. size \in Nat
    BY DEF Shapes
  <2>2. PICK p \in [1..size -> 1..size] :
          /\ datas' = [k \in 1..size |-> datas[p[k]]]
          /\ \A k \in 1..(size - 1) : datas'[k].keyword <= datas'[k + 1].keyword
    BY <1>2 DEF SortRows
  <2>3. Len(datas') = size
    BY <2>1, <2>2
  <2>4. CASE size = 0
    <3>1. kw2index' = kw2index /\ i' = 1
      BY <1>2, <2>4 DEF SortRows
    <3>2. kw2index = <<>>
      BY <1>2 DEF SortRows, Unsorted, Loading
    <3>3. Indexed'
      BY <2>3, <2>4, <3>1 DEF Indexed
    <3>4. DOMAIN kw2index' = {} /\ 1..(i' - 1) = {}
      BY <3>1, <3>2
    <3> QED
      BY <3>3, <3>4 DEF IndexPointsToFirst
  <2>5. CASE size > 0
    <3> DEFINE first == datas'[1].keyword
    <3>1. first \in Nat
      <4>1. datas[p[1]] \in Rows
        BY <2>1, <2>5 DEF Shapes
      <4> QED
        BY <2>1, <2>2, <2>5, <4>1, Keywords
    <3>2. kw2index' = [k \in {first} |-> 1] /\ last_keyword' = first /\ i' = 2
      BY <1>2, <2>5 DEF SortRows
    <3>3. 1..(i' - 1) = {1}
      BY <3>2
    <3>4. Indexed'
      <4>1. i' <= Len(datas') + 1 /\ i' - 1 = 1 /\ i' # 1
        BY <2>1, <2>3, <2>5, <3>2
      <4>2. \A k \in 1..(Len(datas') - 1) : datas'[k].keyword <= datas'[k + 1].keyword
        BY <2>2, <2>3
      <4>3. last_keyword' = datas'[i' - 1].keyword
        BY <3>2, <4>1
      <4>4. \A q \in 1..(i' - 1) : datas'[q].keyword <= last_keyword'
        BY <3>1, <3>2, <3>3
      <4> QED
        BY <4>1, <4>2, <4>3, <4>4 DEF Indexed
    <3>5. DOMAIN kw2index' = {datas'[q].keyword : q \in 1..(i' - 1)}
      BY <3>2, <3>3
    <3>6. \A k \in DOMAIN kw2index' :
            /\ kw2index'[k] \in 1..(i' - 1)
            /\ datas'[kw2index'[k]].keyword = k
            /\ \A q \in 1..(kw2index'[k] - 1) : datas'[q].keyword # k
      BY <3>2, <3>3
    <3> QED
      BY <3>4, <3>5, <3>6 DEF IndexPointsToFirst
  <2> QED
    BY <2>1, <2>4, <2>5
<1>3. CASE IndexRow
  <2> DEFINE keyword == datas[i].keyword
  <2>1. /\ i \in 2..Len(datas) /\ i' = i + 1 /\ UNCHANGED datas /\ phase' = phase
        /\ phase = "indexing"
    BY <1>3 DEF IndexRow, Indexed, Shapes, Loading
  <2>2. datas[i - 1].keyword <= keyword
    <3>1. i - 1 \in 1..(Len(datas) - 1)
      BY <2>1 DEF Shapes
    <3> QED
      BY <2>1, <3>1 DEF Indexed, Loading, Shapes
  <2>3. /\ last_keyword = datas[i - 1].keyword
        /\ \A p \in 1..(i - 1) : datas[p].keyword <= last_keyword
    BY <2>1 DEF Indexed, Loading
  <2>4. \A p \in 1..i : datas[p].keyword \in Nat
    BY <2>1, Keywords DEF Shapes
  <2>5. last_keyword' = keyword
    BY <1>3 DEF IndexRow
  <2>6. \A p \in 1..i : datas[p].keyword <= keyword
    BY <2>1, <2>2, <2>3, <2>4
  <2>7. Indexed'
    BY <2>1, <2>5, <2>6 DEF Indexed, Shapes, Loading
  <2>8. CASE keyword = last_keyword
    <3>1. UNCHANGED kw2index /\ 1..(i' - 1) = 1..(i - 1) \cup {i}
      BY <1>3, <2>1, <2>8 DEF IndexRow
    <3>2. /\ DOMAIN kw2index = {datas[p].keyword : p \in 1..(i - 1)}
          /\ \A k \in DOMAIN kw2index :
               /\ kw2index[k] \in 1..(i - 1)
               /\ datas[kw2index[k]].keyword = k
               /\ \A p \in 1..(kw2index[k] - 1) : datas[p].keyword # k
      BY <2>1 DEF IndexPointsToFirst
    <3>3. i - 1 \in 1..(i - 1) /\ keyword = datas[i - 1].keyword
      BY <2>1, <2>3, <2>8
    <3>4. DOMAIN kw2index = {datas[p].keyword : p \in 1..(i' - 1)}
      BY <3>1, <3>2, <3>3
    <3> QED
      <4>1. \A k \in DOMAIN kw2index : kw2index[k] \in 1..(i' - 1)
        BY <3>1, <3>2
      <4>2. DOMAIN kw2index' = {datas[p].keyword : p \in 1..(i' - 1)}
        BY <3>1, <3>4
      <4>3. \A k \in DOMAIN kw2index' :
              /\ kw2index'[k] \in 1..(i' - 1)
              /\ datas[kw2index'[k]].keyword = k
              /\ \A p \in 1..(kw2index'[k] - 1) : datas[p].keyword # k
        BY <3>1, <3>2, <4>1
      <4> QED
        BY <2>1, <2>7, <4>2, <4>3 DEF IndexPointsToFirst
  <2>9. CASE keyword # last_keyword
    <3>1. \A p \in 1..(i - 1) : datas[p].keyword # keyword
      BY <2>1, <2>2, <2>3, <2>4, <2>9
    <3>2. kw2index' = [k \in DOMAIN kw2index \cup {keyword} |->
                         IF k = keyword THEN i ELSE kw2index[k]]
      BY <1>3, <2>9 DEF IndexRow
    <3>3. 1..(i' - 1) = 1..(i - 1) \cup {i}
      BY <2>1
    <3>4. DOMAIN kw2index = {datas[p].keyword : p \in 1..(i - 1)}
      BY <2>1 DEF IndexPointsToFirst
    <3>5. DOMAIN kw2index' = {datas[p].keyword : p \in 1..(i' - 1)}
      BY <3>2, <3>3, <3>4
    <3>6. ASSUME NEW k \in DOMAIN kw2index'
          PROVE  /\ kw2index'[k] \in 1..(i' - 1)
                 /\ datas[kw2index'[k]].keyword = k
                 /\ \A p \in 1..(kw2index'[k] - 1) : datas[p].keyword # k
      <4>1. CASE k = keyword
        BY <2>1, <3>1, <3>2, <4>1
      <4>2. CASE k # keyword
        BY <2>1, <3>2, <3>3, <4>2 DEF IndexPointsToFirst
      <4> QED
        BY <4>1, <4>2
    <3> QED
      BY <2>1, <2>7, <3>5, <3>6 DEF IndexPointsToFirst
  <2> QED
    BY <2>7, <2>8, <2>9
<1>4. CASE EndOfRows \/ ScanRow \/ EndScan
  BY <1>4, IndexKept DEF EndOfRows, ScanRow, EndScan, Loading
<1>5. ASSUME NEW q \in Lookups, Skip(q) \/ StartScan(q) PROVE Indexed' /\ IndexPointsToFirst'
  BY <1>5, IndexKept DEF Skip, StartScan, Loading
<1>6. CASE UNCHANGED vars
  BY <1>6, IndexKept DEF vars, Loading
<1> QED
  BY <1>1, <1>2, <1>3, <1>4, <1>5, <1>6 DEF Next

LEMMA ScanStep ==
  /\ Shapes /\ Indexed /\ IndexPointsToFirst /\ Sought /\ ScanStaysClose /\ [Next]_vars
  => Sought' /\ ScanStaysClose'
<1> SUFFICES ASSUME Shapes, Indexed, IndexPointsToFirst, Sought, ScanStaysClose, [Next]_vars
             PROVE  Sought' /\ ScanStaysClose'
  OBVIOUS
<1>1. CASE ReadLine \/ EndOfFile \/ SortRows \/ IndexRow
  <2>1. cursor = 0 /\ cursor' = 0 /\ phase' \in {"reading", "sorting", "indexing"}
    BY <1>1 DEF ReadLine, EndOfFile, SortRows, IndexRow, Sought
  <2> QED
    BY <1>1, <2>1, ShapesStep DEF Sought, ScanStaysClose, Shapes
<1>2. CASE EndOfRows \/ EndScan
  BY <1>2 DEF EndOfRows, EndScan, Sought, ScanStaysClose
<1>3. ASSUME NEW q \in Lookups, Skip(q) PROVE Sought' /\ ScanStaysClose'
  BY <1>3 DEF Skip, Sought, ScanStaysClose
<1>4. ASSUME NEW q \in Lookups, StartScan(q) PROVE Sought' /\ ScanStaysClose'
  <2>1. /\ kw2index[q.keyword] \in 1..(i - 1)
        /\ datas[kw2index[q.keyword]].keyword = q.keyword
    BY <1>4 DEF StartScan, IndexPointsToFirst
  <2>2. kw2index[q.keyword] \in 1..Len(datas)
    BY <1>4, <2>1 DEF StartScan, Indexed, Loading, Shapes
  <2>3. q.keyword # 0
    BY <2>1, <2>2, Keywords DEF Shapes
  <2> QED
    BY <1>4, <2>2, <2>3 DEF StartScan, Sought, ScanStaysClose, Shapes
<1>5. CASE ScanRow
  <2>1. cursor \in 1..Len(datas)
    BY <1>5 DEF ScanRow, RowAt, RowAtEnd, Sought
  <2> QED
    BY <1>5, <2>1 DEF ScanRow, Sought, ScanStaysClose, Shapes
<1>6. CASE UNCHANGED vars
  BY <1>6 DEF vars, Sought, ScanStaysClose
<1> QED
  BY <1>1, <1>2, <1>3, <1>4, <1>5, <1>6 DEF Next

LEMMA UnsortedStep == Unsorted /\ [Next]_vars => Unsorted'
BY DEF Unsorted, Loading, Next, ReadLine, EndOfFile, SortRows, IndexRow, EndOfRows, Skip, StartScan,
  ScanRow, EndScan, vars

-----------------------------------------------------------------------------
(* Conversions. *)

\* A bit of a byte is read by dividing by its weight.
LEMMA ByteBits ==
  ASSUME NEW b \in [0..7 -> {0, 1}], NEW s,
         s = 128 * b[0] + 64 * b[1] + 32 * b[2] + 16 * b[3] + 8 * b[4] + 4 * b[5] + 2 * b[6] + b[7]
  PROVE  /\ (s \div 128) % 2 = b[0] /\ (s \div 64) % 2 = b[1]
         /\ (s \div 32) % 2 = b[2] /\ (s \div 16) % 2 = b[3]
         /\ (s \div 8) % 2 = b[4] /\ (s \div 4) % 2 = b[5]
         /\ (s \div 2) % 2 = b[6] /\ (s \div 1) % 2 = b[7]
<1>0. /\ b[0] \in {0, 1} /\ b[1] \in {0, 1} /\ b[2] \in {0, 1} /\ b[3] \in {0, 1}
      /\ b[4] \in {0, 1} /\ b[5] \in {0, 1} /\ b[6] \in {0, 1} /\ b[7] \in {0, 1}
  OBVIOUS
<1>1. (s \div 128) % 2 = b[0]
  BY <1>0
<1>2. (s \div 64) % 2 = b[1]
  BY <1>0
<1>3. (s \div 32) % 2 = b[2]
  BY <1>0
<1>4. (s \div 16) % 2 = b[3]
  BY <1>0
<1>5. (s \div 8) % 2 = b[4]
  BY <1>0
<1>6. (s \div 4) % 2 = b[5]
  BY <1>0
<1>7. (s \div 2) % 2 = b[6]
  BY <1>0
<1>8. (s \div 1) % 2 = b[7]
  BY <1>0
<1> QED
  BY <1>1, <1>2, <1>3, <1>4, <1>5, <1>6, <1>7, <1>8

LEMMA Masks ==
  /\ Mask(0) = 128 /\ Mask(1) = 64 /\ Mask(2) = 32 /\ Mask(3) = 16
  /\ Mask(4) = 8 /\ Mask(5) = 4 /\ Mask(6) = 2 /\ Mask(7) = 1
  /\ \A hour \in Nat : Mask(hour) = Mask(hour % 8)
BY DEF Mask

LEMMA HourOfByte ==
  ASSUME NEW hour \in 0..23
  PROVE  hour \div 8 \in 0..2 /\ hour % 8 \in 0..7 /\ hour = 8 * (hour \div 8) + (hour % 8)
<1>1. hour % 8 \in 0..7 /\ hour = 8 * (hour \div 8) + (hour % 8)
  OBVIOUS
<1>2. hour \div 8 \in 0..2
  OBVIOUS
<1> QED
  BY <1>1, <1>2

\* The flag of an hour survives packing (util.h:248-262, util.cc:39-43).
LEMMA HourBit ==
  ASSUME NEW l \in Line, NEW hour \in 0..23
  PROVE  filterHour(Parse(l), hour) <=> hour \in l.hours
<1> DEFINE j == hour \div 8
           b == [k \in 0..7 |-> IF 8 * j + k \in l.hours THEN 1 ELSE 0]
           byte == TimingsByte(l.hours, j)
<1>1. j \in 0..2 /\ hour % 8 \in 0..7 /\ hour = 8 * j + (hour % 8)
  BY HourOfByte
<1>2. Parse(l).timings_hex[j] = byte
  BY <1>1 DEF Parse, Timings
<1>3. byte = 128 * b[0] + 64 * b[1] + 32 * b[2] + 16 * b[3] + 8 * b[4] + 4 * b[5] + 2 * b[6] + b[7]
  BY Masks DEF TimingsByte
<1>4. b \in [0..7 -> {0, 1}]
  OBVIOUS
<1> HIDE DEF byte
<1>5. /\ (byte \div 128) % 2 = b[0] /\ (byte \div 64) % 2 = b[1]
      /\ (byte \div 32) % 2 = b[2] /\ (byte \div 16) % 2 = b[3]
      /\ (byte \div 8) % 2 = b[4] /\ (byte \div 4) % 2 = b[5]
      /\ (byte \div 2) % 2 = b[6] /\ (byte \div 1) % 2 = b[7]
  <2> HIDE DEF b
  <2> QED
    BY <1>3, <1>4, ByteBits
<1>6. (byte \div Mask(hour)) % 2 = b[hour % 8]
  <2>1. Mask(hour) = Mask(hour % 8)
    BY Masks
  <2>2. hour % 8 = 0 \/ hour % 8 = 1 \/ hour % 8 = 2 \/ hour % 8 = 3 \/ hour % 8 = 4
        \/ hour % 8 = 5 \/ hour % 8 = 6 \/ hour % 8 = 7
    BY <1>1
  <2> HIDE DEF b, j
  <2> QED
    BY <1>5, <2>1, <2>2, Masks
<1>7. b[hour % 8] = 1 <=> hour \in l.hours
  BY <1>1
<1>8. filterHour(Parse(l), hour) <=> (byte \div Mask(hour)) % 2 = 1
  BY <1>2 DEF filterHour
<1> HIDE DEF b, j
<1> QED
  BY <1>6, <1>7, <1>8

-----------------------------------------------------------------------------
(* Rows and lines. *)

\* The lines that readCsvLine keeps.
Taken(l) == filterKeyword(l.keyword) /\ filterStatus(l.status)

\* The lines read so far and the rows are one to one, sorted or not.
Loaded ==
  /\ file \in Files
  /\ pos <= Len(file) + 1
  /\ phase # "reading" => pos = Len(file) + 1
  /\ \A p \in 1..Len(datas) : \E k \in 1..(pos - 1) : Taken(file[k]) /\ datas[p] = Parse(file[k])
  /\ \A k \in 1..(pos - 1) : Taken(file[k]) => \E p \in 1..Len(datas) : datas[p] = Parse(file[k])
  /\ \A p, q \in 1..Len(datas) :
       datas[p].keyword = datas[q].keyword /\ datas[p].adgroup_id = datas[q].adgroup_id => p = q

\* An order of the rows that has every row has each of them once.
LEMMA Permuted ==
  ASSUME NEW n \in Nat, NEW p \in [1..n -> 1..n], {p[k] : k \in 1..n} = 1..n
  PROVE  /\ \A k \in 1..n : \E q \in 1..n : p[q] = k
         /\ \A k, q \in 1..n : p[k] = p[q] => k = q
<1>1. p \in Surjection(1..n, 1..n) /\ \A k \in 1..n : \E q \in 1..n : p[q] = k
  BY DEF Surjection
<1>2. IsFiniteSet(1..n)
  BY FS_Interval
<1>3. p \in Injection(1..n, 1..n)
  BY <1>1, <1>2, FS_SurjSameCardinalityImpliesInj
<1> QED
  BY <1>1, <1>3 DEF Injection, IsInjective

\* Steps that neither read nor sort.
LEMMA LoadedKept ==
  ASSUME Loaded, UNCHANGED <<file, pos, datas>>, phase = "reading" => pos' = Len(file) + 1
  PROVE  Loaded'
<1>1. \A p \in 1..Len(datas) : \E k \in 1..(pos - 1) : Taken(file[k]) /\ datas[p] = Parse(file[k])
  BY DEF Loaded
<1>2. \A k \in 1..(pos - 1) : Taken(file[k]) => \E p \in 1..Len(datas) : datas[p] = Parse(file[k])
  BY DEF Loaded
<1>3. \A p, q \in 1..Len(datas) :
        datas[p].keyword = datas[q].keyword /\ datas[p].adgroup_id = datas[q].adgroup_id => p = q
  BY DEF Loaded
<1>4. file \in Files /\ pos <= Len(file) + 1 /\ pos' = pos /\ pos = Len(file) + 1
  BY DEF Loaded
<1> QED
  BY <1>1, <1>2, <1>3, <1>4 DEF Loaded

LEMMA LoadedStep == Shapes /\ Loaded /\ [Next]_vars => Loaded'
<1> SUFFICES ASSUME Shapes, Loaded, [Next]_vars PROVE Loaded'
  OBVIOUS
<1>0. Len(datas) \in Nat /\ Len(file) \in Nat /\ pos \in Nat \ {0}
  BY DEF Shapes
<1>a. \A p \in 1..Len(datas) : \E k \in 1..(pos - 1) : Taken(file[k]) /\ datas[p] = Parse(file[k])
  BY DEF Loaded
<1>b. \A k \in 1..(pos - 1) : Taken(file[k]) => \E p \in 1..Len(datas) : datas[p] = Parse(file[k])
  BY DEF Loaded
<1>1. CASE ReadLine
  <2> DEFINE line == file[pos]
  <2>1. /\ pos \in 1..Len(file) /\ pos' = pos + 1 /\ file' = file /\ phase' = "reading"
        /\ 1..(pos' - 1) = 1..(pos - 1) \cup {pos}
    BY <1>0, <1>1 DEF ReadLine
  <2>2. CASE ~Taken(line)
    <3>1. datas' = datas
      BY <1>1, <2>2 DEF ReadLine, Taken
    <3> QED
      BY <1>0, <2>1, <2>2, <3>1 DEF Loaded
  <2>3. CASE Taken(line)
    <3>1. datas' = Append(datas, Parse(line))
      BY <1>1, <2>3 DEF ReadLine, Taken
    <3>2. /\ Len(datas') = Len(datas) + 1 /\ datas'[Len(datas) + 1] = Parse(line)
          /\ \A p \in 1..Len(datas) : datas'[p] = datas[p]
          /\ 1..Len(datas') = 1..Len(datas) \cup {Len(datas) + 1}
      BY <1>0, <3>1 DEF Shapes
    <3>3. \A p \in 1..Len(datas') : \E k \in 1..(pos' - 1) :
            Taken(file'[k]) /\ datas'[p] = Parse(file'[k])
      <4> SUFFICES ASSUME NEW p \in 1..Len(datas')
                   PROVE  \E k \in 1..(pos' - 1) : Taken(file[k]) /\ datas'[p] = Parse(file[k])
        BY <2>1
      <4>1. CASE p \in 1..Len(datas)
        BY <1>a, <2>1, <3>2, <4>1
      <4>2. CASE p = Len(datas) + 1
        BY <2>1, <2>3, <3>2, <4>2
      <4> QED
        BY <3>2, <4>1, <4>2
    <3>4. \A k \in 1..(pos' - 1) :
            Taken(file'[k]) => \E p \in 1..Len(datas') : datas'[p] = Parse(file'[k])
      BY <2>1, <3>2 DEF Loaded
    <3>5. ASSUME NEW p \in 1..Len(datas)
          PROVE  ~(datas[p].keyword = line.keyword /\ datas[p].adgroup_id = line.adgroup)
      <4>1. PICK k \in 1..(pos - 1) : datas[p] = Parse(file[k])
        BY DEF Loaded
      <4>2. datas[p].keyword = file[k].keyword /\ datas[p].adgroup_id = file[k].adgroup
        BY <4>1 DEF Parse
      <4>3. k \in 1..Len(file) /\ k # pos
        BY <1>0, <2>1
      <4> QED
        BY <2>1, <4>2, <4>3, KeyAssumption DEF Loaded
    <3>6. Parse(line).keyword = line.keyword /\ Parse(line).adgroup_id = line.adgroup
      BY DEF Parse
    <3>7. ASSUME NEW p \in 1..Len(datas'), NEW q \in 1..Len(datas'),
                 datas'[p].keyword = datas'[q].keyword,
                 datas'[p].adgroup_id = datas'[q].adgroup_id
          PROVE  p = q
      <4>1. CASE p \in 1..Len(datas) /\ q \in 1..Len(datas)
        BY <3>2, <3>7, <4>1 DEF Loaded
      <4>2. CASE p = Len(datas) + 1 \/ q = Len(datas) + 1
        BY <3>2, <3>5, <3>6, <3>7, <4>2
      <4> QED
        BY <3>2, <4>1, <4>2
    <3>8. file' \in Files /\ pos' <= Len(file') + 1 /\ phase' = "reading"
      BY <1>0, <2>1 DEF Loaded
    <3> QED
      BY <3>3, <3>4, <3>7, <3>8 DEF Loaded
  <2> QED
    BY <2>2, <2>3
<1>2. CASE SortRows
  <2> DEFINE size == Len(datas)
  <2>1. PICK p \in {q \in [1..size -> 1..size] : {q[k] : k \in 1..size} = 1..size} :
          datas' = [k \in 1..size |-> datas[p[k]]]
    BY <1>2 DEF SortRows
  <2>2. /\ \A k \in 1..size : \E q \in 1..size : p[q] = k
        /\ \A k, q \in 1..size : p[k] = p[q] => k = q
    BY <1>0, <2>1, Permuted
  <2>3. /\ p \in [1..size -> 1..size] /\ Len(datas') = size
        /\ \A k \in 1..size : datas'[k] = datas[p[k]]
    BY <1>0, <2>1
  <2>4. UNCHANGED <<file, pos>> /\ phase = "sorting" /\ phase' # "reading"
    BY <1>2 DEF SortRows
  <2>5. \A q \in 1..size : \E k \in 1..(pos - 1) : Taken(file[k]) /\ datas'[q] = Parse(file[k])
    BY <1>a, <2>3
  <2>6. ASSUME NEW k \in 1..(pos - 1), Taken(file[k])
        PROVE  \E q \in 1..size : datas'[q] = Parse(file[k])
    <3>1. PICK r \in 1..size : datas[r] = Parse(file[k])
      BY <2>6 DEF Loaded
    <3>2. PICK q \in 1..size : p[q] = r
      BY <2>2
    <3> QED
      BY <2>3, <3>1, <3>2
  <2>7. \A k, q \in 1..size :
          datas'[k].keyword = datas'[q].keyword /\ datas'[k].adgroup_id = datas'[q].adgroup_id => k = q
    <3> SUFFICES ASSUME NEW k \in 1..size, NEW q \in 1..size,
                        datas'[k].keyword = datas'[q].keyword,
                        datas'[k].adgroup_id = datas'[q].adgroup_id
                 PROVE  k = q
      OBVIOUS
    <3>1. p[k] \in 1..size /\ p[q] \in 1..size
      BY <2>3
    <3>2. /\ datas[p[k]].keyword = datas[p[q]].keyword
          /\ datas[p[k]].adgroup_id = datas[p[q]].adgroup_id
      BY <2>3
    <3>3. p[k] = p[q]
      BY <3>1, <3>2 DEF Loaded
    <3> QED
      BY <2>2, <3>3
  <2> QED
    BY <2>3, <2>4, <2>5, <2>6, <2>7 DEF Loaded
<1>3. CASE EndOfFile \/ IndexRow \/ EndOfRows \/ ScanRow \/ EndScan
  BY <1>0, <1>3, LoadedKept DEF EndOfFile, IndexRow, EndOfRows, ScanRow, EndScan, Loaded
<1>4. ASSUME NEW q \in Lookups, Skip(q) \/ StartScan(q) PROVE Loaded'
  BY <1>4, LoadedKept DEF Skip, StartScan
<1>5. CASE UNCHANGED vars
  <2>1. UNCHANGED <<file, pos, datas, phase>>
    BY <1>5 DEF vars
  <2> QED
    BY <2>1, <1>a, <1>b DEF Loaded
<1> QED
  BY <1>1, <1>2, <1>3, <1>4, <1>5 DEF Next

-----------------------------------------------------------------------------
(* The scan of a lookup. *)

\* The rows a lookup is about, and those of them the scan has passed.
Hits == {p \in 1..Len(datas) : datas[p].keyword = lookup.keyword /\ filterHour(datas[p], lookup.hour)}
Seen == {p \in Hits : p < cursor}

\* What the heap has to hold of some rows.
Best(heap, rows) ==
  /\ heap \subseteq rows
  /\ Cardinality(heap) = IF Cardinality(rows) <= lookup.n THEN Cardinality(rows) ELSE lookup.n
  /\ \A x \in heap, y \in rows \ heap : Score(x) >= Score(y)

Scanned ==
  /\ phase \in {"reading", "sorting", "indexing", "ready"} => kept = {}
  /\ phase \in {"ready", "scanning", "found"} => i = Len(datas) + 1
  /\ phase \in {"scanning", "found"} => lookup \in Lookups
  /\ phase = "scanning" =>
       /\ lookup.keyword \in DOMAIN kw2index
       /\ kw2index[lookup.keyword] <= cursor
       /\ Best(kept, Seen)
  /\ phase = "found" => Best(kept, Hits)

LEMMA Countable ==
  ASSUME NEW n \in Nat, NEW S \in SUBSET (1..n)
  PROVE  IsFiniteSet(S) /\ Cardinality(S) \in Nat
<1>1. IsFiniteSet(1..n)
  BY FS_Interval
<1>2. IsFiniteSet(S)
  BY <1>1, FS_Subset
<1> QED
  BY <1>2, FS_CardinalityType

LEMMA HitsFinite ==
  ASSUME Shapes
  PROVE  /\ IsFiniteSet(Hits) /\ IsFiniteSet(Seen)
         /\ Cardinality(Hits) \in Nat /\ Cardinality(Seen) \in Nat
<1>1. Len(datas) \in Nat
  BY DEF Shapes
<1>2. Hits \in SUBSET (1..Len(datas)) /\ Seen \in SUBSET (1..Len(datas))
  BY DEF Hits, Seen
<1> QED
  BY <1>1, <1>2, Countable

LEMMA ScoreType ==
  ASSUME Shapes, NEW p \in 1..Len(datas)
  PROVE  Score(p) \in Nat
<1>1. datas[p] \in Rows
  BY DEF Shapes
<1>2. PICK l \in Line : datas[p] = Parse(l)
  BY <1>1 DEF Rows
<1>3. l.ctr \in Nat /\ Uint16(l.price) \in Nat
  BY DEF Line, Uint16
<1> QED
  BY <1>2, <1>3 DEF Parse, Score

\* A heap that holds the best of some rows holds, after a push, the best of
\* one row more.
LEMMA PushedBest ==
  ASSUME Shapes, lookup.n \in Nat,
         NEW rows \in SUBSET (1..Len(datas)), Best(kept, rows),
         NEW p \in 1..Len(datas), p \notin rows,
         NEW heap \in Pushed(p)
  PROVE  Best(heap, rows \cup {p})
<1> DEFINE all == kept \cup {p}
           more == rows \cup {p}
           n == lookup.n
<1>1. Len(datas) \in Nat
  BY DEF Shapes
<1>2. IsFiniteSet(rows) /\ IsFiniteSet(kept) /\ Cardinality(rows) \in Nat /\ Cardinality(kept) \in Nat
      /\ Cardinality(kept) <= Cardinality(rows)
  <2>1. kept \in SUBSET rows
    BY DEF Best
  <2>2. kept \in SUBSET (1..Len(datas))
    BY <2>1
  <2>3. IsFiniteSet(rows) /\ Cardinality(rows) \in Nat
    BY <1>1, Countable
  <2>4. IsFiniteSet(kept) /\ Cardinality(kept) \in Nat
    BY <1>1, <2>2, Countable
  <2>5. Cardinality(kept) <= Cardinality(rows)
    BY <2>1, <2>3, FS_Subset
  <2> QED
    BY <2>3, <2>4, <2>5
<1>3. /\ IsFiniteSet(all) /\ Cardinality(all) = Cardinality(kept) + 1
      /\ IsFiniteSet(more) /\ Cardinality(more) = Cardinality(rows) + 1
      /\ kept \subseteq rows
  BY <1>2, FS_AddElement DEF Best
<1>4. \A x \in more : Score(x) \in Nat
  BY ScoreType
<1>5. \A x \in kept, y \in rows \ kept : Score(x) >= Score(y)
  BY DEF Best
<1>6. Cardinality(kept) = IF Cardinality(rows) <= n THEN Cardinality(rows) ELSE n
  BY DEF Best
<1>7. CASE Cardinality(all) <= n
  <2>1. heap = all
    BY <1>7 DEF Pushed
  <2>2. Cardinality(kept) = Cardinality(rows) /\ Cardinality(more) <= n
    BY <1>2, <1>3, <1>6, <1>7
  <2>3. kept = rows
    BY <1>2, <1>3, <2>2, FS_Subset
  <2> QED
    BY <1>3, <2>1, <2>2, <2>3 DEF Best
<1>8. CASE ~(Cardinality(all) <= n)
  <2>1. PICK low \in all : heap = all \ {low} /\ \A o \in all : Score(low) <= Score(o)
    BY <1>8 DEF Pushed
  <2>2. Cardinality(heap) = Cardinality(kept)
    <3>1. Cardinality(all \ {low}) = Cardinality(all) - 1
      BY <1>3, <2>1, FS_RemoveElement
    <3> HIDE DEF all
    <3> QED
      BY <1>2, <1>3, <2>1, <3>1
  <2>3. Cardinality(kept) = n /\ Cardinality(more) > n
    BY <1>2, <1>3, <1>6, <1>8
  <2>4. ASSUME NEW x \in heap, NEW y \in more \ heap PROVE Score(x) >= Score(y)
    <3>1. x \in all /\ x \in more /\ low \in more /\ y \in more
      BY <1>3, <2>1
    <3>2. Score(x) >= Score(low) /\ Score(x) \in Nat /\ Score(low) \in Nat /\ Score(y) \in Nat
      BY <1>4, <2>1, <3>1
    <3>3. CASE y = low
      BY <3>2, <3>3
    <3>4. CASE y # low
      <4>1. y \in rows \ kept
        BY <2>1, <3>4
      <4>2. x \in kept => Score(x) >= Score(y)
        BY <1>5, <4>1
      <4>3. x = p => Score(low) >= Score(y)
        BY <1>5, <2>1, <4>1
      <4> QED
        BY <2>1, <3>2, <4>2, <4>3
    <3> QED
      BY <3>3, <3>4
  <2>5. heap \subseteq more
    BY <1>3, <2>1
  <2>6. /\ Cardinality(heap) = IF Cardinality(more) <= n THEN Cardinality(more) ELSE n
        /\ \A x \in heap, y \in more \ heap : Score(x) >= Score(y)
    <3> HIDE DEF more
    <3> QED
      BY <1>2, <1>3, <2>2, <2>3, <2>4
  <2> QED
    BY <2>5, <2>6 DEF Best
<1> QED
  BY <1>7, <1>8

\* Neighbours are in order, so all rows are.
LEMMA RowsOrdered ==
  ASSUME Shapes, Indexed, ~Loading, NEW p \in 1..Len(datas), NEW q \in 1..Len(datas), p <= q
  PROVE  datas[p].keyword <= datas[q].keyword
<1> DEFINE S == {n \in Nat : p + n <= Len(datas) => datas[p].keyword <= datas[p + n].keyword}
<1>0. Len(datas) \in Nat /\ \A r \in 1..Len(datas) : datas[r].keyword \in Nat
  BY Keywords DEF Shapes
<1>1. 0 \in S
  BY <1>0
<1>2. ASSUME NEW n \in Nat, n \in S PROVE n + 1 \in S
  <2> SUFFICES ASSUME p + (n + 1) <= Len(datas)
               PROVE  datas[p].keyword <= datas[p + (n + 1)].keyword
    OBVIOUS
  <2>1. p + n \in 1..(Len(datas) - 1) /\ (p + n) + 1 = p + (n + 1)
    BY <1>0
  <2>2. datas[p + n].keyword <= datas[p + (n + 1)].keyword
    BY <2>1 DEF Indexed
  <2>3. datas[p].keyword <= datas[p + n].keyword
    BY <1>0, <1>2, <2>1
  <2> QED
    BY <1>0, <2>1, <2>2, <2>3
<1>3. Nat \subseteq S
  <2> HIDE DEF S
  <2> QED
    BY <1>1, <1>2, Induction
<1>4. q - p \in Nat /\ p + (q - p) = q
  OBVIOUS
<1> QED
  BY <1>0, <1>3, <1>4

\* The room in the heap.
LEMMA RoomIsNatural ==
  ASSUME NEW q \in Lookups
  PROVE  q.n \in Nat
<1>1. q.n \in 1..IntMax
  BY LookupsAssumption
<1>2. IntMax \in Nat
  BY DEF IntMax
<1> QED BY <1>1, <1>2

LEMMA ScannedStep ==
  Shapes /\ Indexed /\ IndexPointsToFirst /\ Sought /\ Scanned /\ [Next]_vars => Scanned'
<1> SUFFICES ASSUME Shapes, Indexed, IndexPointsToFirst, Sought, Scanned, [Next]_vars
             PROVE  Scanned'
  OBVIOUS
<1>0. Len(datas) \in Nat /\ \A q \in Lookups : q.n \in Nat
  BY RoomIsNatural DEF Shapes
<1>1. CASE ReadLine \/ EndOfFile \/ SortRows \/ IndexRow
  <2>1. /\ phase \in {"reading", "sorting", "indexing"} /\ phase' \in {"reading", "sorting", "indexing"}
        /\ kept' = kept
    BY <1>1 DEF ReadLine, EndOfFile, SortRows, IndexRow
  <2> QED
    BY <2>1 DEF Scanned
<1>2. CASE EndOfRows
  BY <1>0, <1>2 DEF EndOfRows, Scanned, Indexed, Loading, Shapes
<1>3. ASSUME NEW q \in Lookups, Skip(q) PROVE Scanned'
  <2>1. /\ phase = "ready" /\ phase' = "found" /\ lookup' = q /\ kept' = {} /\ i' = Len(datas') + 1
        /\ UNCHANGED datas /\ q.keyword \notin DOMAIN kw2index
    BY <1>3 DEF Skip, Scanned
  <2>2. \A p \in 1..Len(datas) : datas[p].keyword # q.keyword
    BY <1>0, <2>1 DEF Scanned, IndexPointsToFirst
  <2>3. Hits' = {}
    BY <2>1, <2>2 DEF Hits
  <2>4. Best(kept, Hits)'
    BY <1>0, <2>1, <2>3, FS_EmptySet DEF Best
  <2> QED
    BY <2>1, <2>4 DEF Scanned
<1>4. ASSUME NEW q \in Lookups, StartScan(q) PROVE Scanned'
  <2>1. /\ phase = "ready" /\ phase' = "scanning" /\ lookup' = q /\ kept' = {} /\ i' = Len(datas') + 1
        /\ UNCHANGED <<datas, kw2index>> /\ q.keyword \in DOMAIN kw2index
        /\ cursor' = kw2index[q.keyword]
    BY <1>4 DEF StartScan, Scanned
  <2>2. cursor' \in Nat /\ \A p \in 1..(cursor' - 1) : datas[p].keyword # q.keyword
    BY <2>1 DEF IndexPointsToFirst
  <2>3. Seen' = {}
    BY <1>0, <2>1, <2>2 DEF Seen, Hits
  <2>4. Best(kept, Seen)'
    BY <1>0, <2>1, <2>3, FS_EmptySet DEF Best
  <2> QED
    BY <2>1, <2>2, <2>4 DEF Scanned
<1>5. CASE ScanRow
  <2>1. /\ phase = "scanning" /\ phase' = "scanning" /\ cursor' = cursor + 1
        /\ UNCHANGED <<datas, kw2index, i, lookup>>
        /\ lookup \in Lookups /\ i = Len(datas) + 1 /\ lookup.keyword \in DOMAIN kw2index
        /\ kw2index[lookup.keyword] <= cursor /\ kw2index[lookup.keyword] \in Nat
        /\ Best(kept, Seen)
    BY <1>5 DEF ScanRow, Scanned, IndexPointsToFirst
  <2>2. cursor \in 1..Len(datas) /\ RowAt(cursor) = datas[cursor]
    BY <1>5 DEF ScanRow, RowAt, RowAtEnd, Sought
  <2>3. datas[cursor].keyword = lookup.keyword
    BY <1>5, <2>2 DEF ScanRow
  <2>4. Hits' = Hits
    BY <2>1 DEF Hits
  <2>5. Best(kept', Seen')
    <3>1. CASE filterHour(datas[cursor], lookup.hour)
      <4>1. kept' \in Pushed(cursor)
        BY <1>5, <2>2, <3>1 DEF ScanRow
      <4>2. Seen' = Seen \cup {cursor} /\ cursor \notin Seen /\ Seen \in SUBSET (1..Len(datas))
        BY <1>0, <2>1, <2>2, <2>3, <2>4, <3>1 DEF Seen, Hits
      <4> QED
        BY <1>0, <2>1, <2>2, <4>1, <4>2, PushedBest
    <3>2. CASE ~filterHour(datas[cursor], lookup.hour)
      <4>1. kept' = kept
        BY <1>5, <2>2, <3>2 DEF ScanRow
      <4>2. Seen' = Seen
        BY <1>0, <2>1, <2>2, <2>4, <3>2 DEF Seen, Hits
      <4> QED
        BY <2>1, <4>1, <4>2
    <3> QED
      BY <3>1, <3>2
  <2>6. Best(kept, Seen)'
    BY <2>1, <2>5 DEF Best, Score
  <2>7. kw2index'[lookup'.keyword] <= cursor'
    BY <2>1, <2>2
  <2> QED
    BY <2>1, <2>6, <2>7 DEF Scanned
<1>6. CASE EndScan
  <2>1. /\ phase = "scanning" /\ phase' = "found" /\ UNCHANGED <<datas, kw2index, i, lookup, kept>>
        /\ lookup \in Lookups /\ i = Len(datas) + 1 /\ lookup.keyword \in DOMAIN kw2index
        /\ kw2index[lookup.keyword] <= cursor /\ Best(kept, Seen)
        /\ RowAt(cursor).keyword # lookup.keyword
    BY <1>6 DEF EndScan, Scanned
  <2> DEFINE first == kw2index[lookup.keyword]
  <2>2. first \in 1..Len(datas) /\ datas[first].keyword = lookup.keyword
    BY <1>0, <2>1 DEF IndexPointsToFirst
  <2>3. ASSUME NEW p \in Hits PROVE p < cursor
    <3> SUFFICES ASSUME p >= cursor PROVE FALSE
      BY <1>0 DEF Hits, Shapes
    <3>1. p \in 1..Len(datas) /\ datas[p].keyword = lookup.keyword
      BY DEF Hits
    <3>2. cursor \in 1..Len(datas)
      BY <1>0, <2>1, <2>2, <3>1 DEF Shapes
    <3>3. datas[cursor].keyword # lookup.keyword
      BY <2>1, <3>2 DEF RowAt
    <3>4. datas[first].keyword <= datas[cursor].keyword /\ datas[cursor].keyword <= datas[p].keyword
      <4>1. ~Loading
        BY <2>1 DEF Loading
      <4> QED
        BY <2>1, <2>2, <3>1, <3>2, <4>1, RowsOrdered
    <3>5. datas[first].keyword \in Nat /\ datas[cursor].keyword \in Nat
      BY <2>2, <3>2, Keywords DEF Shapes
    <3> QED
      BY <2>2, <3>1, <3>3, <3>4, <3>5
  <2>4. Seen = Hits
    BY <2>3 DEF Seen
  <2>5. Hits' = Hits
    BY <2>1 DEF Hits
  <2>6. Best(kept, Hits)'
    BY <2>1, <2>4, <2>5 DEF Best, Score
  <2> QED
    BY <2>1, <2>6 DEF Scanned
<1>7. CASE UNCHANGED vars
  <2>1. UNCHANGED <<datas, kw2index, i, lookup, cursor, kept, phase>>
    BY <1>7 DEF vars
  <2>2. Hits' = Hits /\ Seen' = Seen
    BY <2>1 DEF Hits, Seen
  <2>3. /\ Best(kept, Hits) => Best(kept, Hits)'
        /\ Best(kept, Seen) => Best(kept, Seen)'
    BY <2>1, <2>2 DEF Best, Score
  <2> QED
    BY <2>1, <2>3 DEF Scanned
<1> QED
  BY <1>1, <1>2, <1>3, <1>4, <1>5, <1>6, <1>7 DEF Next

-----------------------------------------------------------------------------
(* What a lookup found. *)

\* Bids that 16 bits hold (util.h:37; readCsvLine narrows without a check).
PricesFit == \A f \in Files : \A k \in 1..Len(f) : f[k].price < 65536

\* The line of a row of the lookup.
LineOf(p) == CHOOSE l \in Matching : datas[p] = Parse(l)

LEMMA LinesDistinct ==
  ASSUME Shapes, Loaded, NEW l \in Matching, NEW m \in Matching,
         l.keyword = m.keyword, l.adgroup = m.adgroup
  PROVE  l = m
<1>1. PICK k \in 1..Len(file) : l = file[k]
  BY DEF Matching
<1>2. PICK r \in 1..Len(file) : m = file[r]
  BY DEF Matching
<1> QED
  BY <1>1, <1>2, KeyAssumption DEF Loaded

\* Rows and lines of a lookup correspond.
LEMMA HitsAreLines ==
  ASSUME Shapes, Loaded, phase = "found", lookup \in Lookups
  PROVE  /\ \A p \in Hits : LineOf(p) \in Matching /\ datas[p] = Parse(LineOf(p))
         /\ \A l \in Matching : \E p \in Hits : LineOf(p) = l
         /\ \A p, q \in Hits : LineOf(p) = LineOf(q) => p = q
<1>0. /\ Len(file) \in Nat /\ Len(datas) \in Nat /\ pos - 1 = Len(file) /\ lookup.hour \in 0..23
      /\ \A k \in 1..Len(file) : file[k] \in Line
  BY LookupsAssumption DEF Shapes, Loaded
<1>1. \A l \in Line : Parse(l).keyword = l.keyword /\ Parse(l).adgroup_id = l.adgroup
  BY DEF Parse
<1>2. ASSUME NEW k \in 1..Len(file)
      PROVE  file[k] \in Matching <=>
               /\ Taken(file[k])
               /\ Parse(file[k]).keyword = lookup.keyword
               /\ filterHour(Parse(file[k]), lookup.hour)
  <2>1. file[k] \in Line
    BY <1>0
  <2>2. filterHour(Parse(file[k]), lookup.hour) <=> lookup.hour \in file[k].hours
    BY <1>0, <2>1, HourBit
  <2>3. (file[k].keyword % NumNodes) + 1 = NodeId <=> filterKeyword(file[k].keyword)
    <3>1. file[k].keyword % NumNodes \in Nat
      BY <2>1, NodeAssumption DEF Line
    <3> QED
      BY <3>1, NodeAssumption DEF filterKeyword
  <2> QED
    BY <1>1, <2>1, <2>2, <2>3 DEF Matching, Taken, filterStatus
<1>3. ASSUME NEW p \in Hits PROVE \E l \in Matching : datas[p] = Parse(l)
  <2>1. PICK k \in 1..(pos - 1) : Taken(file[k]) /\ datas[p] = Parse(file[k])
    BY DEF Hits, Loaded
  <2>2. k \in 1..Len(file) /\ datas[p].keyword = lookup.keyword /\ filterHour(datas[p], lookup.hour)
    BY <1>0 DEF Hits
  <2> QED
    BY <1>2, <2>1, <2>2
<1>4. \A p \in Hits : LineOf(p) \in Matching /\ datas[p] = Parse(LineOf(p))
  BY <1>3 DEF LineOf
<1>5. ASSUME NEW l \in Matching PROVE \E p \in Hits : LineOf(p) = l
  <2>1. PICK k \in 1..Len(file) : l = file[k]
    BY DEF Matching
  <2>2. Taken(l) /\ Parse(l).keyword = lookup.keyword /\ filterHour(Parse(l), lookup.hour)
    BY <1>2, <2>1
  <2>3. PICK p \in 1..Len(datas) : datas[p] = Parse(l)
    BY <1>0, <2>1, <2>2 DEF Loaded
  <2>4. p \in Hits
    BY <2>2, <2>3 DEF Hits
  <2>5. LineOf(p) \in Matching /\ Parse(LineOf(p)) = Parse(l)
    BY <1>4, <2>3, <2>4
  <2>6. LineOf(p) \in Line /\ l \in Line
    BY <1>0, <2>5 DEF Matching
  <2>7. LineOf(p) = l
    BY <1>1, <2>5, <2>6, LinesDistinct
  <2> QED
    BY <2>4, <2>7
<1>6. ASSUME NEW p \in Hits, NEW q \in Hits, LineOf(p) = LineOf(q) PROVE p = q
  <2>1. datas[p] = datas[q] /\ p \in 1..Len(datas) /\ q \in 1..Len(datas)
    BY <1>4, <1>6 DEF Hits
  <2> QED
    BY <2>1 DEF Loaded
<1> QED
  BY <1>4, <1>5, <1>6

\* As many of some things as of their images, if no two have the same.
LEMMA SameNumber ==
  ASSUME NEW S, IsFiniteSet(S), NEW T, NEW f \in [S -> T],
         \A y \in T : \E x \in S : f[x] = y,
         \A x, y \in S : f[x] = f[y] => x = y
  PROVE  IsFiniteSet(T) /\ Cardinality(T) = Cardinality(S)
<1>1. f \in Bijection(S, T)
  BY DEF Bijection, Injection, Surjection, IsInjective
<1> QED
  BY <1>1, FS_Bijection DEF ExistsBijection

LEMMA LeastOfTwo ==
  ASSUME NEW a \in Nat, NEW b \in Nat
  PROVE  Min({a, b}) = IF b <= a THEN b ELSE a
<1>1. \E x \in {a, b} : \A y \in {a, b} : x <= y
  OBVIOUS
<1>2. Min({a, b}) \in {a, b} /\ \A y \in {a, b} : Min({a, b}) <= y
  BY <1>1 DEF Min
<1> QED
  BY <1>2

LEMMA FoundExact == Shapes /\ Loaded /\ Scanned /\ PricesFit => LookupExact
<1> SUFFICES ASSUME Shapes, Loaded, Scanned, PricesFit, phase = "found" PROVE LookupExact
  BY DEF LookupExact
<1> DEFINE found == {datas[p].adgroup_id : p \in kept}
           lines == {l \in Matching : l.adgroup \in found}
<1>1. lookup \in Lookups /\ lookup.n \in Nat /\ Best(kept, Hits)
  BY RoomIsNatural DEF Scanned
<1>2. /\ \A p \in Hits : LineOf(p) \in Matching /\ datas[p] = Parse(LineOf(p))
      /\ \A l \in Matching : \E p \in Hits : LineOf(p) = l
      /\ \A p, q \in Hits : LineOf(p) = LineOf(q) => p = q
  BY <1>1, HitsAreLines
<1>3. IsFiniteSet(Hits) /\ Cardinality(Hits) \in Nat /\ kept \in SUBSET Hits
  BY <1>1, HitsFinite DEF Best
<1>4. IsFiniteSet(kept)
  BY <1>3, FS_Subset
<1>5. \A p \in Hits : /\ datas[p].adgroup_id = LineOf(p).adgroup
                      /\ LineOf(p).keyword = lookup.keyword
  <2>1. \A l : Parse(l).adgroup_id = l.adgroup
    BY DEF Parse
  <2>2. \A l \in Matching : l.keyword = lookup.keyword
    BY DEF Matching
  <2> QED
    BY <1>2, <2>1, <2>2
<1>6. \A p \in Hits : LineOf(p) \in lines <=> p \in kept
  <2>1. ASSUME NEW p \in Hits, LineOf(p) \in lines PROVE p \in kept
    <3>1. PICK q \in kept : LineOf(p).adgroup = datas[q].adgroup_id
      BY <2>1
    <3>2. LineOf(p) = LineOf(q)
      BY <1>2, <1>3, <1>5, <3>1, LinesDistinct
    <3> QED
      BY <1>2, <1>3, <3>1, <3>2
  <2>2. ASSUME NEW p \in kept PROVE LineOf(p) \in lines
    BY <1>2, <1>3, <1>5
  <2> QED
    BY <2>1, <2>2
<1>7. Cardinality(Matching) = Cardinality(Hits)
  <2> DEFINE f == [p \in Hits |-> LineOf(p)]
  <2>1. f \in [Hits -> Matching]
    BY <1>2
  <2>2. \A l \in Matching : \E p \in Hits : f[p] = l
    BY <1>2
  <2>3. \A p, q \in Hits : f[p] = f[q] => p = q
    BY <1>2
  <2> HIDE DEF f
  <2> QED
    BY <1>3, <2>1, <2>2, <2>3, SameNumber
<1>8. Cardinality(lines) = Cardinality(kept)
  <2> DEFINE f == [p \in kept |-> LineOf(p)]
  <2>1. f \in [kept -> lines]
    BY <1>3, <1>6
  <2>2. \A l \in lines : \E p \in kept : f[p] = l
    BY <1>2, <1>6
  <2>3. \A p, q \in kept : f[p] = f[q] => p = q
    BY <1>2, <1>3
  <2> HIDE DEF f, lines
  <2> QED
    BY <1>4, <2>1, <2>2, <2>3, SameNumber
<1>9. Cardinality(kept) = Min({lookup.n, Cardinality(Matching)})
  BY <1>1, <1>3, <1>7, LeastOfTwo DEF Best
<1>10. ASSUME NEW p \in Hits PROVE Score(p) = LineOf(p).ctr * LineOf(p).price
  <2>1. LineOf(p).price < 65536 /\ LineOf(p).price \in Nat
    <3>1. PICK k \in 1..Len(file) : LineOf(p) = file[k]
      BY <1>2 DEF Matching
    <3>2. file \in Files /\ file[k] \in Line
      BY DEF Loaded, Shapes
    <3> QED
      BY <3>1, <3>2 DEF PricesFit, Line
  <2>2. Uint16(LineOf(p).price) = LineOf(p).price
    BY <2>1 DEF Uint16
  <2>3. \A l : Parse(l).ctr = l.ctr /\ Parse(l).keyword_prices = Uint16(l.price)
    BY DEF Parse
  <2>4. datas[p].ctr = LineOf(p).ctr /\ datas[p].keyword_prices = LineOf(p).price
    BY <1>2, <2>2, <2>3
  <2> QED
    BY <2>4 DEF Score
<1>11. ASSUME NEW x \in lines, NEW y \in Matching \ lines PROVE x.ctr * x.price >= y.ctr * y.price
  <2>1. PICK p \in Hits : LineOf(p) = x
    BY <1>2
  <2>2. PICK q \in Hits : LineOf(q) = y
    BY <1>2
  <2>3. p \in kept /\ q \in Hits \ kept
    BY <1>6, <2>1, <2>2
  <2>4. Score(p) >= Score(q)
    BY <1>1, <2>3 DEF Best
  <2> QED
    BY <1>10, <2>1, <2>2, <2>4
<1> QED
  BY <1>8, <1>9, <1>11 DEF LookupExact

-----------------------------------------------------------------------------

\* The inductive invariant.
Inv ==
  /\ Shapes /\ Unsorted /\ Indexed /\ IndexPointsToFirst /\ Sought /\ ScanStaysClose
  /\ Loaded /\ Scanned

LEMMA LoadedInit == Init => Loaded
<1> SUFFICES ASSUME Init PROVE Loaded
  OBVIOUS
<1>1. Len(file) \in Nat /\ Len(datas) = 0 /\ pos = 1 /\ phase = "reading" /\ file \in Files
  BY FilesAssumption DEF Init
<1> QED
  BY <1>1 DEF Loaded

LEMMA InvInit == Init => Inv
<1> SUFFICES ASSUME Init PROVE Inv
  OBVIOUS
<1> QED
  BY ShapesInit, LoadedInit DEF Init, Inv, Unsorted, Indexed, Loading, IndexPointsToFirst, Sought,
    ScanStaysClose, Scanned

LEMMA InvStep == Inv /\ [Next]_vars => Inv'
BY ShapesStep, UnsortedStep, IndexStep, ScanStep, LoadedStep, ScannedStep DEF Inv

\* The index maps exactly the keywords seen so far, each to its first row
\* (server.cc:114-123), for every file.
THEOREM FirstRows == Spec => []IndexPointsToFirst
<1>1. Inv => IndexPointsToFirst
  BY DEF Inv
<1> QED
  BY <1>1, InvInit, InvStep, PTL DEF Spec

\* The scan reads at most one row past the rows (util.cc:54), for every file
\* and every lookup.
THEOREM ScanStops == Spec => []ScanStaysClose
<1>1. Inv => ScanStaysClose
  BY DEF Inv
<1> QED
  BY <1>1, InvInit, InvStep, PTL DEF Spec

\* A lookup finds what a search of the whole file would (util.cc:46-67), for
\* every file whose bids 16 bits hold and every lookup.
THEOREM LookupFinds ==
  ASSUME PricesFit
  PROVE  Spec => []LookupExact
<1>1. Inv => LookupExact
  BY FoundExact DEF Inv
<1> QED
  BY <1>1, InvInit, InvStep, PTL DEF Spec

\* What TypeOK says beyond the invariant.
Arguments ==
  /\ Len(datas) < pos
  /\ last_keyword \in Nat
  /\ lookup \in Lookups \cup {NoLookup}
  /\ Loading => i = 1

LEMMA ArgumentsStep == Shapes /\ Arguments /\ [Next]_vars /\ Shapes' => Arguments'
<1> SUFFICES ASSUME Shapes, Arguments, [Next]_vars, Shapes' PROVE Arguments'
  OBVIOUS
<1>0. /\ Len(datas) \in Nat /\ pos \in Nat /\ Len(datas') \in Nat
      /\ \A p \in 1..Len(datas) : datas[p].keyword \in Nat
      /\ \A p \in 1..Len(datas') : datas'[p].keyword \in Nat
  BY Keywords DEF Shapes
<1>1. CASE ReadLine
  BY <1>0, <1>1 DEF ReadLine, Arguments, Shapes, Loading
<1>2. CASE SortRows
  <2>1. Len(datas') = Len(datas) /\ pos' = pos /\ lookup' = lookup /\ ~Loading'
    BY <1>0, <1>2 DEF SortRows, Loading
  <2>2. last_keyword' \in Nat
    BY <1>0, <1>2, <2>1 DEF SortRows, Arguments
  <2> QED
    BY <2>1, <2>2 DEF Arguments
<1>3. CASE IndexRow
  BY <1>0, <1>3 DEF IndexRow, Arguments, Shapes, Loading
<1>4. CASE EndOfFile \/ EndOfRows \/ ScanRow \/ EndScan
  BY <1>4 DEF EndOfFile, EndOfRows, ScanRow, EndScan, Arguments, Loading
<1>5. ASSUME NEW q \in Lookups, Skip(q) \/ StartScan(q) PROVE Arguments'
  BY <1>5 DEF Skip, StartScan, Arguments, Loading
<1>6. CASE UNCHANGED vars
  BY <1>6 DEF vars, Arguments, Loading
<1> QED
  BY <1>1, <1>2, <1>3, <1>4, <1>5, <1>6 DEF Next

LEMMA TypesHold == Inv /\ Arguments => TypeOK
<1> SUFFICES ASSUME Inv, Arguments PROVE TypeOK
  OBVIOUS
<1>1. Shapes /\ Indexed /\ Loaded /\ Scanned
  BY DEF Inv
<1>2. pos \in 1..(Len(file) + 1) /\ Len(datas) \in Nat /\ cursor \in Nat /\ phase \in Phases
  BY <1>1 DEF Shapes, Loaded
<1>3. i \in 1..(Len(datas) + 1)
  BY <1>1, <1>2 DEF Shapes, Indexed, Arguments
<1>4. lookup.n \in Nat
  BY RoomIsNatural DEF Arguments, NoLookup
<1>5. kept \subseteq 1..Len(datas) /\ Cardinality(kept) <= lookup.n
  <2>1. CASE phase \in {"reading", "sorting", "indexing", "ready"}
    <3>1. kept = {}
      BY <1>1, <2>1 DEF Scanned
    <3>2. Cardinality(kept) = 0
      BY <3>1, FS_EmptySet
    <3> QED
      BY <1>4, <3>1, <3>2
  <2>2. CASE phase \in {"scanning", "found"}
    <3>1. Best(kept, Seen) \/ Best(kept, Hits)
      BY <1>1, <2>2 DEF Scanned
    <3> QED
      BY <1>1, <1>4, <3>1, HitsFinite DEF Best, Seen, Hits
  <2> QED
    BY <1>2, <2>1, <2>2 DEF Phases
<1> QED
  BY <1>2, <1>3, <1>5 DEF TypeOK, Arguments

\* The types; in particular, a heap never holds more than it has room for.
THEOREM IndexTypes == Spec => []TypeOK
<1>1. Init => Arguments
  <2> SUFFICES ASSUME Init PROVE Arguments
    OBVIOUS
  <2>1. Len(datas) = 0
    BY DEF Init
  <2> QED
    BY <2>1 DEF Init, Arguments, Loading
<1>2. Inv /\ Arguments /\ [Next]_vars => Inv' /\ Arguments'
  BY InvStep, ArgumentsStep DEF Inv
<1> QED
  BY <1>1, <1>2, InvInit, TypesHold, PTL DEF Spec
=============================================================================
