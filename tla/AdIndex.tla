------------------------------ MODULE AdIndex -------------------------------
(***************************************************************************)
(* The data of one server: reading its share of the CSV file, sorting it   *)
(* by keyword, building kw2index (main of server.cc, AlimamaCSVReader of   *)
(* util.h), and the scan of CalcAdgroupId (util.cc:46-67) that a search    *)
(* makes for each of its keywords.                                         *)
(*                                                                         *)
(* A line is a record; its hours are the set of those whose flag is 1.     *)
(* Positions count from 1.  After loading, the data is only read.          *)
(***************************************************************************)
EXTENDS Naturals, Sequences, FiniteSets, FiniteSetsExt

CONSTANTS
  NumNodes,  \* 3 in the code
  NodeId,    \* NODE_ID of this server
  Files,     \* the files it may be given: sequences of lines
  Lookups    \* a keyword, an hour, and the room in the heap

ASSUME NodeAssumption == NumNodes \in Nat \ {0} /\ NodeId \in 1..NumNodes

\* Lines as gen_data.cc draws them: keywords are at least 1.  A keyword 0
\* would be taken by the scan for the end of the rows.
Line ==
  [keyword : Nat \ {0}, adgroup : Nat, price : Nat, ctr : Nat, status : {0, 1},
   hours : SUBSET (0..23)]

ASSUME FilesAssumption == Files \subseteq Seq(Line)

\* gen_data.cc:4: keyword and adgroup_id are the key of a line.
ASSUME KeyAssumption ==
  \A f \in Files : \A k, l \in 1..Len(f) :
    f[k].keyword = f[l].keyword /\ f[k].adgroup = f[l].adgroup => k = l

\* The largest int.
IntMax == 2147483647

\* The room is topn + 1, narrowed to the int that TopN's constructor takes
\* (util.h:79, util.cc:53): a topn that fits leaves at least one place.
ASSUME LookupsAssumption ==
  Lookups \subseteq [keyword : Nat, hour : 0..23, n : 1..IntMax]

VARIABLES
  file,          \* lines of /data/data.csv
  pos,           \* the next line to read
  datas,         \* std::vector<Data> datas
  kw2index,      \* keyword to the position of its first row
  last_keyword,  \* keyword of the row indexed last
  i,             \* index of the loop that builds kw2index
  lookup,        \* the arguments of the CalcAdgroupId call in progress
  cursor,        \* index of its scan
  kept,          \* positions of the rows in its heap
  phase

vars == <<file, pos, datas, kw2index, last_keyword, i, lookup, cursor, kept, phase>>

Phases == {"reading", "sorting", "indexing", "ready", "scanning", "found"}

NoLookup == [keyword |-> 0, hour |-> 0, n |-> 0]

-----------------------------------------------------------------------------
(* Conversions. *)

\* The bit of an hour in its byte, 1 << (7 - hour % 8): std::bitset reads its
\* string from the highest bit down.
Mask(hour) == <<128, 64, 32, 16, 8, 4, 2, 1>>[(hour % 8) + 1]

TimingsByte(hours, j) ==
  LET bit(k) == IF 8 * j + k \in hours THEN Mask(k) ELSE 0
  IN  bit(0) + bit(1) + bit(2) + bit(3) + bit(4) + bit(5) + bit(6) + bit(7)

Timings(hours) == [j \in 0..2 |-> TimingsByte(hours, j)]

\* A bug filterHour could have: bits counted from the low end.
filterHourLowFirst(entry, hour) ==
  (entry.timings_hex[hour \div 8] \div Mask(7 - (hour % 8))) % 2 = 1

filterHour(entry, hour) == (entry.timings_hex[hour \div 8] \div Mask(hour)) % 2 = 1

\* keyword_prices is a uint16_t.
Uint16(price) == price % 65536

Parse(line) ==
  [keyword |-> line.keyword, adgroup_id |-> line.adgroup, ctr |-> line.ctr,
   timings_hex |-> Timings(line.hours), keyword_prices |-> Uint16(line.price)]

filterKeyword(keyword) == keyword % NumNodes = NodeId - 1
filterStatus(status) == status = 1

\* The scan has no bound: after the last row it reads the vector's reserved
\* memory, fresh from the system and zero (server.cc:100).
RowAtEnd == [keyword |-> 0]

\* A bug RowAt could have: the memory past the end still holds a keyword.
RowAtStale(p) ==
  IF p \in 1..Len(datas) THEN datas[p]
  ELSE [datas[Len(datas)] EXCEPT !.timings_hex = Timings({})]

RowAt(p) == IF p \in 1..Len(datas) THEN datas[p] ELSE RowAtEnd

Score(p) == datas[p].ctr * datas[p].keyword_prices

-----------------------------------------------------------------------------

TypeOK ==
  /\ pos \in 1..(Len(file) + 1)
  /\ Len(datas) < pos
  /\ last_keyword \in Nat
  /\ i \in 1..(Len(datas) + 1)
  /\ lookup \in Lookups \cup {NoLookup}
  /\ cursor \in Nat
  /\ kept \subseteq 1..Len(datas)
  /\ Cardinality(kept) <= lookup.n
  /\ phase \in Phases

Init ==
  /\ file \in Files
  /\ pos = 1
  /\ datas = <<>>
  /\ kw2index = <<>>
  /\ last_keyword = 0
  /\ i = 1
  /\ lookup = NoLookup
  /\ cursor = 0
  /\ kept = {}
  /\ phase = "reading"

-----------------------------------------------------------------------------
(* Loading. *)

ReadLine ==
  LET line == file[pos] IN
  /\ phase = "reading"
  /\ pos <= Len(file)
  /\ pos' = pos + 1
  /\ datas' = IF filterKeyword(line.keyword) /\ filterStatus(line.status)
              THEN Append(datas, Parse(line)) ELSE datas
  /\ UNCHANGED <<file, kw2index, last_keyword, i, lookup, cursor, kept, phase>>

EndOfFile ==
  /\ phase = "reading"
  /\ pos > Len(file)
  /\ phase' = "sorting"
  /\ UNCHANGED <<file, pos, datas, kw2index, last_keyword, i, lookup, cursor, kept>>

\* std::sort is not stable: rows of one keyword come in any order.
SortRows ==
  LET size == Len(datas) IN
  /\ phase = "sorting"
  /\ \E p \in {q \in [1..size -> 1..size] : {q[k] : k \in 1..size} = 1..size} :
       /\ datas' = [k \in 1..size |-> datas[p[k]]]
       /\ \A k \in 1..(size - 1) : datas'[k].keyword <= datas'[k + 1].keyword
  /\ IF size = 0
     THEN UNCHANGED <<kw2index, last_keyword>>
     ELSE /\ kw2index' = [k \in {datas'[1].keyword} |-> 1]
          /\ last_keyword' = datas'[1].keyword
  /\ i' = IF size = 0 THEN 1 ELSE 2
  /\ phase' = "indexing"
  /\ UNCHANGED <<file, pos, lookup, cursor, kept>>

\* A bug IndexRow could have: every row overwrites the entry of its keyword.
IndexEveryRow ==
  LET keyword == datas[i].keyword IN
  /\ phase = "indexing"
  /\ i <= Len(datas)
  /\ kw2index' = [k \in DOMAIN kw2index \cup {keyword} |->
                    IF k = keyword THEN i ELSE kw2index[k]]
  /\ last_keyword' = keyword
  /\ i' = i + 1
  /\ UNCHANGED <<file, pos, datas, lookup, cursor, kept, phase>>

IndexRow ==
  LET keyword == datas[i].keyword IN
  /\ phase = "indexing"
  /\ i <= Len(datas)
  /\ IF keyword # last_keyword
     THEN /\ kw2index' = [k \in DOMAIN kw2index \cup {keyword} |->
                            IF k = keyword THEN i ELSE kw2index[k]]
          /\ last_keyword' = keyword
     ELSE UNCHANGED <<kw2index, last_keyword>>
  /\ i' = i + 1
  /\ UNCHANGED <<file, pos, datas, lookup, cursor, kept, phase>>

EndOfRows ==
  /\ phase = "indexing"
  /\ i > Len(datas)
  /\ phase' = "ready"
  /\ UNCHANGED <<file, pos, datas, kw2index, last_keyword, i, lookup, cursor, kept>>

-----------------------------------------------------------------------------
(* One CalcAdgroupId call. *)

\* doSearchLocal skips the keywords that are not in the index.
Skip(q) ==
  /\ phase = "ready"
  /\ q.keyword \notin DOMAIN kw2index
  /\ lookup' = q
  /\ phase' = "found"
  /\ UNCHANGED <<file, pos, datas, kw2index, last_keyword, i, cursor, kept>>

StartScan(q) ==
  /\ phase = "ready"
  /\ q.keyword \in DOMAIN kw2index
  /\ lookup' = q
  /\ cursor' = kw2index[q.keyword]
  /\ phase' = "scanning"
  /\ UNCHANGED <<file, pos, datas, kw2index, last_keyword, i, kept>>

\* A bug Pushed could have: the size is compared before the push.
PushedThenFull(p) ==
  IF Cardinality(kept) <= lookup.n THEN {kept \cup {p}}
  ELSE {(kept \cup {p}) \ {low} : low \in {l \in kept : \A o \in kept : Score(l) <= Score(o)}}

\* The contents of the heap after pushing p, which pops a lowest score when
\* it holds more than n.
Pushed(p) ==
  LET all == kept \cup {p} IN
  IF Cardinality(all) <= lookup.n THEN {all}
  ELSE {all \ {low} : low \in {l \in all : \A o \in all : Score(l) <= Score(o)}}

ScanRow ==
  /\ phase = "scanning"
  /\ RowAt(cursor).keyword = lookup.keyword
  /\ IF filterHour(RowAt(cursor), lookup.hour) THEN kept' \in Pushed(cursor) ELSE UNCHANGED kept
  /\ cursor' = cursor + 1
  /\ UNCHANGED <<file, pos, datas, kw2index, last_keyword, i, lookup, phase>>

EndScan ==
  /\ phase = "scanning"
  /\ RowAt(cursor).keyword # lookup.keyword
  /\ phase' = "found"
  /\ UNCHANGED <<file, pos, datas, kw2index, last_keyword, i, lookup, cursor, kept>>

Next ==
  \/ ReadLine \/ EndOfFile \/ SortRows \/ IndexRow \/ EndOfRows
  \/ \E q \in Lookups : Skip(q) \/ StartScan(q)
  \/ ScanRow \/ EndScan

Spec == Init /\ [][Next]_vars

-----------------------------------------------------------------------------
(* Correctness. *)

\* While the index is built and ever after, it maps exactly the keywords of
\* the rows seen so far, each to the first of its rows (server.cc:114-123):
\* a scan that starts there and stops at another keyword misses none.
IndexPointsToFirst ==
  phase \notin {"reading", "sorting"} =>
    /\ DOMAIN kw2index = {datas[p].keyword : p \in 1..(i - 1)}
    /\ \A k \in DOMAIN kw2index :
         /\ kw2index[k] \in 1..(i - 1)
         /\ datas[kw2index[k]].keyword = k
         /\ \A p \in 1..(kw2index[k] - 1) : datas[p].keyword # k

\* The scan, which tests no bound (util.cc:54), reads at most one row of
\* memory past the rows that were loaded.
ScanStaysClose == cursor <= Len(datas) + 1

\* The lines of the file that a lookup is about.
Matching ==
  {l \in {file[k] : k \in 1..Len(file)} :
     /\ (l.keyword % NumNodes) + 1 = NodeId
     /\ l.keyword = lookup.keyword
     /\ l.status = 1 /\ lookup.hour \in l.hours}

\* A lookup finds what a search of the whole file would: active lines of the
\* keyword and the hour, as many as there is room for, none of them left out
\* for one of a lower score.
LookupExact ==
  phase = "found" =>
    LET found == {datas[p].adgroup_id : p \in kept}
        lines == {l \in Matching : l.adgroup \in found}
    IN
    /\ Cardinality(kept) = Cardinality(lines)
    /\ Cardinality(kept) = Min({lookup.n, Cardinality(Matching)})
    /\ \A x \in lines, y \in Matching \ lines : x.ctr * x.price >= y.ctr * y.price
=============================================================================
