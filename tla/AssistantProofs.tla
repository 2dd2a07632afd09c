---------------------------- MODULE AssistantProofs ----------------------------
(* Theorems about AssistantTurn for every set of requests, every world and index,
   whatever the search planner and the model answer, and every limit. *)
EXTENDS AssistantTurn, FiniteSetTheorems, SequenceTheorems, WellFoundedInduction, TLAPS

-------------------------------------------------------------------------------
(* Numbers and sequences *)

LEMMA LeastOf ==
    ASSUME NEW T \in SUBSET Nat, T # {}
    PROVE  \E n \in T : \A m \in T : n =< m
  <1>1. PICK n \in T : \A m \in T : ~(<<m, n>> \in OpToRel(<, Nat))
    BY NatLessThanWellFounded, WFMin
  <1>2. ASSUME NEW m \in T PROVE n =< m
    <2>1. m \in Nat /\ n \in Nat
      OBVIOUS
    <2>2. ~(m < n)
      BY <1>1, <2>1 DEF OpToRel
    <2>3. QED BY <2>1, <2>2
  <1>3. QED BY <1>2

LEMMA MinOf ==
    ASSUME NEW T \in SUBSET Nat, T # {}
    PROVE  Min(T) \in T
  BY LeastOf DEF Min

(* Of the numbers of a finite set there is a first, a second, and so on. *)
LEMMA RanksAreTaken ==
    ASSUME NEW at \in SUBSET Nat, IsFiniteSet(at), NEW n \in 1..Cardinality(at)
    PROVE  \E i \in at : Cardinality({j \in at : j < i}) = n - 1
  <1> DEFINE Below(i) == {j \in at : j < i}
             Bad == {k \in 1..Cardinality(at) : ~\E i \in at : Cardinality(Below(i)) = k - 1}
  <1>1. Cardinality(at) \in Nat
    BY FS_CardinalityType
  <1>2. SUFFICES ASSUME Bad # {} PROVE FALSE
    OBVIOUS
  <1>3. PICK k \in Bad : \A m \in Bad : k =< m
    <2>1. Bad \in SUBSET Nat
      BY <1>1
    <2> HIDE DEF Bad
    <2>2. QED BY <1>2, <2>1, LeastOf
  <1>4. k \in 1..Cardinality(at) /\ k \in Nat
    BY <1>1
  <1>5. CASE k = 1
    <2>1. at # {}
      BY <1>4, <1>5, FS_EmptySet
    <2>2. PICK i \in at : \A m \in at : i =< m
      BY <2>1, LeastOf
    <2>3. Below(i) = {}
      <3>1. \A j \in at : i \in Nat /\ j \in Nat /\ i =< j
        BY <2>2
      <3>2. \A j \in at : ~(j < i)
        BY <3>1
      <3>3. QED BY <3>2
    <2>4. Cardinality(Below(i)) = k - 1
      BY <1>5, <2>3, FS_EmptySet
    <2>5. QED BY <2>4
  <1>6. CASE k # 1
    <2>1. k - 1 \in 1..Cardinality(at) /\ k - 1 \notin Bad
      <3>1. k - 1 \in 1..Cardinality(at) /\ ~(k =< k - 1)
        BY <1>1, <1>4, <1>6
      <3>2. QED BY <1>3, <3>1, Zenon
    <2>2. PICK i \in at : Cardinality(Below(i)) = k - 1 - 1
      BY <2>1
    <2> DEFINE upto == Below(i) \cup {i}
               above == at \ upto
    <2>3. IsFiniteSet(Below(i)) /\ i \notin Below(i) /\ upto \subseteq at
      BY FS_Subset
    <2>4. IsFiniteSet(upto) /\ Cardinality(upto) = k - 1
      <3> HIDE DEF Below
      <3>1. /\ IsFiniteSet(upto)
            /\ Cardinality(upto) = Cardinality(Below(i)) + 1
        BY <2>3, FS_AddElement
      <3>2. QED BY <1>4, <2>2, <3>1
    <2>5. above # {}
      <3> HIDE DEF Below
      <3>1. Cardinality(upto) # Cardinality(at)
        BY <1>1, <1>4, <2>4
      <3>2. upto # at
        BY <3>1
      <3>3. QED BY <2>3, <3>2
    <2>6. PICK m \in above : \A l \in above : m =< l
      BY <2>5, LeastOf
    <2>7. m \in at /\ m \in Nat /\ i \in Nat /\ m > i
      BY <2>6
    <2>8. Below(m) = upto
      <3>1. ASSUME NEW j \in Below(m) PROVE j \in upto
        <4>1. j \in at /\ j \in Nat /\ ~(m =< j)
          BY <2>7
        <4>2. QED BY <2>6, <4>1
      <3>2. ASSUME NEW j \in upto PROVE j \in Below(m)
        BY <2>7, <3>2
      <3>3. QED BY <3>1, <3>2
    <2>9. Cardinality(Below(m)) = k - 1
      BY <2>4, <2>8
    <2>10. QED BY <2>7, <2>9
  <1>7. QED BY <1>5, <1>6

(* Those items are items of these places, and there are as many. *)
LEMMA ThoseThereAre ==
    ASSUME NEW T, NEW s \in Seq(T), NEW at \in SUBSET DOMAIN s
    PROVE  /\ Those(s, at) \in Seq({s[i] : i \in at})
           /\ Those(s, at) \in Seq(T)
           /\ at # {} => Those(s, at) # <<>>
  <1>1. DOMAIN s = 1..Len(s) /\ Len(s) \in Nat
    OBVIOUS
  <1>2. IsFiniteSet(at) /\ at \in SUBSET Nat
    <2>1. IsFiniteSet(1..Len(s))
      BY <1>1, FS_Interval
    <2>2. at \subseteq 1..Len(s)
      BY <1>1
    <2>3. QED BY <2>1, <2>2, FS_Subset
  <1>3. Cardinality(at) \in Nat
    BY <1>2, FS_CardinalityType
  <1> DEFINE Place(n) == CHOOSE i \in at : Cardinality({j \in at : j < i}) = n - 1
  <1>4. \A n \in 1..Cardinality(at) : Place(n) \in at
    BY <1>2, RanksAreTaken
  <1>5. Those(s, at) = [n \in 1..Cardinality(at) |-> s[Place(n)]]
    BY DEF Those
  <1> HIDE DEF Place
  <1>6. Those(s, at) \in [1..Cardinality(at) -> {s[i] : i \in at}]
    BY <1>4, <1>5
  <1>7. Those(s, at) \in [1..Cardinality(at) -> T]
    BY <1>1, <1>4, <1>5
  <1>8. at # {} => Cardinality(at) # 0
    BY <1>2, FS_EmptySet
  <1>9. at # {} => 1 \in DOMAIN Those(s, at)
    BY <1>3, <1>6, <1>8
  <1>10. QED BY <1>3, <1>6, <1>7, <1>9, SeqDef

(* What is cut off at the end is not missed at the beginning. *)
LEMMA FirstOnesOf ==
    ASSUME NEW T, NEW s \in Seq(T), NEW most \in Int
    PROVE  /\ FirstOnes(s, most) \in Seq(T)
           /\ most > 0 /\ s # <<>> => FirstOnes(s, most) # <<>>
  <1> DEFINE m == Min({Len(s), most})
  <1>1. Len(s) \in Nat /\ DOMAIN s = 1..Len(s)
    OBVIOUS
  <1>2. m \in Int /\ m =< Len(s) /\ (most > 0 /\ s # <<>> => m > 0)
    <2>1. \E x \in {Len(s), most} : \A y \in {Len(s), most} : x =< y
      BY <1>1
    <2>2. m \in {Len(s), most} /\ \A y \in {Len(s), most} : m =< y
      BY <2>1 DEF Min
    <2>3. s # <<>> => Len(s) > 0
      BY <1>1
    <2> HIDE DEF m
    <2>4. QED BY <1>1, <2>2, <2>3
  <1>3. FirstOnes(s, most) = SubSeq(s, 1, m)
    BY DEF FirstOnes
  <1> HIDE DEF m
  <1>4. CASE m > 0
    <2>1. SubSeq(s, 1, m) \in Seq(T) /\ Len(SubSeq(s, 1, m)) = m
      BY <1>1, <1>2, <1>4
    <2>2. QED BY <1>3, <1>4, <2>1
  <1>5. CASE m =< 0
    <2>1. SubSeq(s, 1, m) = <<>>
      BY <1>1, <1>2, <1>5
    <2>2. QED BY <1>2, <1>3, <1>5, <2>1
  <1>6. QED BY <1>2, <1>4, <1>5

(* A set of numbers that are all below a bound has a greatest one. *)
LEMMA MaxOf ==
    ASSUME NEW T \in SUBSET Nat, T # {}, NEW most \in Nat, \A x \in T : x =< most
    PROVE  Max(T) \in T /\ \A x \in T : x =< Max(T)
  <1> DEFINE Above == {u \in Nat : \A x \in T : x =< u}
  <1>1. PICK u \in Above : \A v \in Above : u =< v
    <2>1. most \in Above /\ Above \in SUBSET Nat
      OBVIOUS
    <2> HIDE DEF Above
    <2>2. QED BY <2>1, LeastOf
  <1>2. u \in Nat /\ \A x \in T : x =< u
    OBVIOUS
  <1>3. u \in T
    <2> SUFFICES ASSUME u \notin T PROVE FALSE
      OBVIOUS
    <2>1. \A x \in T : x \in Nat /\ x < u
      <3> SUFFICES ASSUME NEW x \in T PROVE x \in Nat /\ x < u
        OBVIOUS
      <3>1. x \in Nat /\ x =< u /\ x # u
        BY <1>2
      <3>2. QED BY <1>2, <3>1
    <2>2. u > 0
      <3>1. PICK x \in T : TRUE
        OBVIOUS
      <3>2. x \in Nat /\ x < u
        BY <2>1, <3>1
      <3>3. QED BY <1>2, <3>2
    <2>3. u - 1 \in Above
      BY <1>2, <2>1, <2>2
    <2>4. QED BY <1>1, <1>2, <2>3
  <1>4. \E x \in T : \A y \in T : x >= y
    BY <1>2, <1>3
  <1>5. Max(T) \in T /\ \A y \in T : Max(T) >= y
    BY <1>4 DEF Max
  <1>6. QED BY <1>5

(* The first place in a sequence that passes a test is one, or there is none. *)
LEMMA PlaceOf ==
    ASSUME NEW T, NEW s \in Seq(T), NEW at \in SUBSET (1..Len(s))
    PROVE  at # {} => Min(at) \in at /\ Min(at) \in DOMAIN s /\ Min(at) > 0
  <1>1. at \in SUBSET Nat /\ DOMAIN s = 1..Len(s) /\ \A i \in at : i > 0
    OBVIOUS
  <1>2. QED BY <1>1, MinOf

-------------------------------------------------------------------------------
(* Reading *)

LEMMA PlainTypes ==
    /\ NoCell \in CellType /\ NoPage \in PageType /\ NoRef \in RefType
    /\ NoTable \in TableType
  <1>1. NoCell \in CellType /\ NoPage \in PageType
    BY LiteralsAssumption DEF NoCell, CellType, NoPage, PageType
  <1>2. NoRef \in RefType
    BY <1>1, LiteralsAssumption DEF NoRef, RefType
  <1>3. NoTable \in TableType
    BY DEF NoTable, TableType
  <1>4. QED BY <1>1, <1>2, <1>3

LEMMA ResultTypes ==
    ASSUME NEW ref \in RefType
    PROVE  Result(ref) \in ResultType /\ Failed(ref) \in ResultType
  BY PlainTypes DEF Result, Failed, ResultType

LEMMA RemoteTypes ==
    ASSUME NEW remote \in RemoteType
    PROVE  /\ remote.text \in BOOLEAN /\ remote.embedded \in BOOLEAN
           /\ remote.type \in STRING /\ remote.refuses \in SUBSET STRING
           /\ remote.leads \in Resources \cup {"none"}
           /\ remote.sheets \in Seq([id : STRING, hidden : BOOLEAN, cells : SUBSET (Nat \X Nat)])
           /\ remote.tables \in Seq([id : STRING, name : STRING])
           /\ remote.fields \in Seq(FieldType) /\ remote.records \in Seq(StoredRecordType)
           /\ remote.viewed \in Seq(StoredRecordType) /\ remote.cut \in CutType
  BY DEF RemoteType

LEMMA ReadDocType ==
    ASSUME NEW remote \in RemoteType, NEW ref \in RefType
    PROVE  ReadDoc(remote, ref) \in ResultType
  <1>1. (remote.text \/ remote.embedded \/ "blocks" \in remote.refuses) \in BOOLEAN
    BY RemoteTypes
  <1>2. [Result(ref) EXCEPT !.readable = remote.text \/ remote.embedded
                                         \/ "blocks" \in remote.refuses] \in ResultType
    <2>1. PICK b \in BOOLEAN : b = (remote.text \/ remote.embedded
                                   \/ "blocks" \in remote.refuses)
      BY <1>1
    <2>2. [Result(ref) EXCEPT !.readable = b] \in ResultType
      BY ResultTypes DEF ResultType
    <2>3. QED BY <2>1, <2>2
  <1>3. QED BY <1>2, ResultTypes DEF ReadDoc

LEMMA ReadWebType ==
    ASSUME NEW remote \in RemoteType, NEW ref \in RefType
    PROVE  ReadWeb(remote, ref) \in ResultType
  <1>1. [Result(ref) EXCEPT !.readable = remote.text] \in ResultType
    BY RemoteTypes, ResultTypes DEF ResultType
  <1>2. QED BY <1>1, ResultTypes DEF ReadWeb

(* The row to append at stands below all that is read. *)
LEMMA AppendRowIsBelow ==
    ASSUME NEW cells \in SUBSET (Nat \X Nat), NEW most \in Nat,
           \A c \in cells : c[1] =< most
    PROVE  /\ NextAppendRow(cells) \in Nat
           /\ \A c \in cells : c[1] < NextAppendRow(cells)
  <1> DEFINE T == {0} \cup {c[1] : c \in cells}
  <1>1. T \in SUBSET Nat /\ T # {} /\ \A x \in T : x =< most
    OBVIOUS
  <1>2. \A c \in cells : c[1] \in T
    OBVIOUS
  <1>3. NextAppendRow(cells) = Max(T) + 1
    BY DEF NextAppendRow
  <1> HIDE DEF T
  <1>4. Max(T) \in Nat /\ \A x \in T : x \in Nat /\ x =< Max(T)
    BY <1>1, MaxOf
  <1>5. QED BY <1>2, <1>3, <1>4

LEMMA ReadSheetType ==
    ASSUME NEW remote \in RemoteType, NEW ref \in RefType
    PROVE  ReadSheet(remote, ref) \in ResultType
  <1> DEFINE sheets == remote.sheets
             SheetType == [id : STRING, hidden : BOOLEAN, cells : SUBSET (Nat \X Nat)]
             at == {i \in 1..Len(sheets) : sheets[i].id = ref.sheet}
             shown == {i \in 1..Len(sheets) : ~sheets[i].hidden}
             named == SelectInSeq(sheets, LAMBDA s : s.id = ref.sheet)
             sheet == IF ref.sheet = "none" THEN FirstVisibleSheet(sheets) ELSE sheets[named]
  <1>1. sheets \in Seq(SheetType)
    BY RemoteTypes
  <1>2. named = IF at # {} THEN Min(at) ELSE 0
    BY DEF SelectInSeq
  <1>3. named # 0 => named \in DOMAIN sheets
    <2> HIDE DEF sheets, SheetType
    <2> QED BY <1>1, <1>2, PlaceOf
  <1>4. sheets # <<>> => FirstVisibleSheet(sheets) \in SheetType
    <2> HIDE DEF SheetType
    <2>1. FirstVisibleSheet(sheets) =
              IF (IF shown # {} THEN Min(shown) ELSE 0) > 0
              THEN sheets[IF shown # {} THEN Min(shown) ELSE 0] ELSE sheets[1]
      BY DEF FirstVisibleSheet, SelectInSeq
    <2> HIDE DEF sheets
    <2>2. shown # {} => Min(shown) \in DOMAIN sheets /\ Min(shown) > 0
      BY <1>1, PlaceOf
    <2>3. CASE shown # {}
      BY <1>1, <2>1, <2>2, <2>3
    <2>4. CASE shown = {}
      BY <1>1, <2>1, <2>4
    <2>5. QED BY <2>3, <2>4
  <1>5. CASE \/ ref.sheet = "none" /\ (Refuses(remote, "sheets", "sheet") \/ sheets = <<>>)
             \/ ref.sheet # "none" /\ named = 0
             \/ Refuses(remote, "values", "sheet") \/ ref.page # NoPage
    <2>1. ReadSheet(remote, ref) = Failed(ref)
      BY <1>5 DEF ReadSheet
    <2>2. QED BY <2>1, ResultTypes
  <1>6. CASE ~(\/ ref.sheet = "none" /\ (Refuses(remote, "sheets", "sheet") \/ sheets = <<>>)
               \/ ref.sheet # "none" /\ named = 0
               \/ Refuses(remote, "values", "sheet") \/ ref.page # NoPage)
    <2>1. ReadSheet(remote, ref) = [Result([ref EXCEPT !.sheet = sheet.id])
                EXCEPT !.append = NextAppendRow(ReadCells(sheet, ref))]
      BY <1>6 DEF ReadSheet
    <2>2. sheet \in SheetType
      <3> HIDE DEF SheetType, named, sheets
      <3> QED BY <1>1, <1>3, <1>4, <1>6
    <2>3. PICK x : x = sheet
      OBVIOUS
    <2>4. x.id \in STRING /\ x.cells \in SUBSET (Nat \X Nat)
      BY <2>2, <2>3
    <2> HIDE DEF sheet, sheets, named, SheetType
    <2>5. [ref EXCEPT !.sheet = x.id] \in RefType
      BY <2>4 DEF RefType
    <2>6. NextAppendRow(ReadCells(x, ref)) \in Nat
      <3>1. CASE ref.hint # NoCell
        <4>1. ReadCells(x, ref) \subseteq {<<1, 1>>}
          BY <3>1 DEF ReadCells
        <4>2. ReadCells(x, ref) \in SUBSET (Nat \X Nat) /\ \A c \in ReadCells(x, ref) : c[1] =< 1
          BY <4>1
        <4>3. QED BY <4>2, AppendRowIsBelow
      <3>2. CASE ref.hint = NoCell
        <4>1. ReadCells(x, ref) \in SUBSET (Nat \X Nat)
              /\ \A c \in ReadCells(x, ref) : c[1] =< MaxSheetRows
          BY <2>4, <3>2 DEF ReadCells
        <4>2. QED BY <4>1, AppendRowIsBelow, ReaderAssumption
      <3>3. QED BY <3>1, <3>2
    <2>7. QED BY <2>1, <2>3, <2>5, <2>6, ResultTypes DEF ResultType
  <1>7. QED BY <1>5, <1>6

LEMMA SequenceOf ==
    ASSUME NEW T, NEW n \in Nat, NEW s \in [1..n -> T]
    PROVE  s \in Seq(T) /\ DOMAIN s = 1..n /\ Len(s) = n
  OBVIOUS

LEMMA MinOfTwo ==
    ASSUME NEW a \in Nat, NEW b \in Nat
    PROVE  Min({a, b}) \in {a, b} /\ Min({a, b}) =< a /\ Min({a, b}) =< b
  <1>1. \E x \in {a, b} : \A y \in {a, b} : x =< y
    OBVIOUS
  <1>2. QED BY <1>1 DEF Min

(* What is stated last of a key is stated somewhere in the line, or nowhere. *)
LEMMA StatedSomewhere ==
    ASSUME NEW line \in Seq(Seq(PieceType)), NEW key
    PROVE  \/ /\ LastStated(line, key) = "none"
              /\ \A g \in DOMAIN line : \A k \in DOMAIN line[g] : line[g][k].key # key
           \/ \E g \in DOMAIN line : \E k \in DOMAIN line[g] :
                 line[g][k].key = key /\ LastStated(line, key) = line[g][k].value
  <1> DEFINE groups == {g \in DOMAIN line : \E k \in DOMAIN line[g] : line[g][k].key = key}
  <1>1. CASE groups = {}
    BY <1>1 DEF LastStated
  <1>2. CASE groups # {}
    <2>1. groups \in SUBSET Nat /\ Len(line) \in Nat /\ \A x \in groups : x =< Len(line)
      OBVIOUS
    <2>2. PICK g : g = Max(groups)
      OBVIOUS
    <2>3. g \in groups
      <3> HIDE DEF groups
      <3>1. QED BY <1>2, <2>1, <2>2, MaxOf
    <2>4. PICK group \in Seq(PieceType) : group = line[g]
      BY <2>3
    <2> DEFINE at == {k \in DOMAIN group : group[k].key = key}
    <2>5. /\ at # {} /\ at \in SUBSET Nat /\ Len(group) \in Nat
          /\ \A x \in at : x =< Len(group)
      BY <2>3, <2>4
    <2>6. Max(at) \in at
      <3> HIDE DEF at
      <3>1. QED BY <2>5, MaxOf
    <2>7. LastStated(line, key) = group[Max(at)].value
      BY <1>2, <2>2, <2>4 DEF LastStated
    <2>8. QED BY <2>3, <2>4, <2>6, <2>7
  <1>3. QED BY <1>1, <1>2

(* The groups of the line of a record. *)
LEMMA GroupsOfLine ==
    ASSUME NEW record \in StoredRecordType, NEW fields \in Seq(FieldType)
    PROVE  LET line == Line(record, fields)
           IN  /\ line \in Seq(Seq(PieceType)) /\ DOMAIN line = 1..Len(fields) + 1
               /\ line[1] = <<[key |-> "record_id", value |-> record.id]>>
               /\ \A i \in DOMAIN fields :
                     line[i + 1] = Printed(fields[i].name, record.values[fields[i].name])
  <1> DEFINE head == <<<<[key |-> "record_id", value |-> record.id]>>>>
             rest == [i \in DOMAIN fields |->
                         Printed(fields[i].name, record.values[fields[i].name])]
  <1>1. ASSUME NEW name \in FieldTitles, NEW text \in CellTextType
        PROVE  Printed(name, text) \in Seq(PieceType)
    <2>1. [key |-> name, value |-> text.head] \in PieceType /\ text.more \in Seq(PieceType)
      BY DEF PieceType, CellTextType
    <2>2. QED BY <2>1 DEF Printed
  <1>2. \A i \in DOMAIN fields : fields[i].name \in FieldTitles
    <2>1. \A field \in FieldType : field.name \in FieldTitles
      BY DEF FieldType
    <2>2. QED BY <2>1
  <1>3. \A i \in DOMAIN fields : record.values[fields[i].name] \in CellTextType
    BY <1>2 DEF StoredRecordType
  <1>4. \A i \in DOMAIN fields : rest[i] \in Seq(PieceType)
    BY <1>1, <1>2, <1>3
  <1>5. rest \in Seq(Seq(PieceType)) /\ Len(rest) = Len(fields)
    <2>1. DOMAIN fields = 1..Len(fields) /\ Len(fields) \in Nat
      OBVIOUS
    <2>2. QED BY <1>4, <2>1
  <1>6. head \in Seq(Seq(PieceType)) /\ Len(head) = 1
    <2>1. [key |-> "record_id", value |-> record.id] \in PieceType
      BY DEF PieceType, StoredRecordType
    <2>2. QED BY <2>1
  <1>7. Line(record, fields) = head \o rest
    BY DEF Line
  <1>8. \A i \in DOMAIN fields :
            rest[i] = Printed(fields[i].name, record.values[fields[i].name])
    OBVIOUS
  <1>9. head[1] = <<[key |-> "record_id", value |-> record.id]>>
    OBVIOUS
  <1> HIDE DEF head, rest
  <1> DEFINE T == Seq(PieceType)
  <1>10. head \in Seq(T) /\ rest \in Seq(T) /\ Len(head) = 1 /\ Len(rest) = Len(fields)
    BY <1>5, <1>6
  <1> HIDE DEF T
  <1>11. Len(fields) \in Nat /\ DOMAIN fields = 1..Len(fields)
    OBVIOUS
  <1>12. /\ head \o rest \in Seq(T) /\ Len(head \o rest) = 1 + Len(fields)
         /\ \A i \in 1..1 + Len(fields) :
                (head \o rest)[i] = IF i =< 1 THEN head[i] ELSE rest[i - 1]
    <2>1. /\ head \o rest \in Seq(T) /\ Len(head \o rest) = Len(head) + Len(rest)
          /\ \A i \in 1..Len(head) + Len(rest) :
                 (head \o rest)[i] = IF i =< Len(head) THEN head[i] ELSE rest[i - Len(head)]
      <3>1. head \in Seq(T) /\ rest \in Seq(T)
        BY <1>10
      <3>2. QED BY ONLY <3>1, ConcatProperties
    <2>2. Len(head) = 1 /\ Len(rest) = Len(fields)
      BY <1>10
    <2> DEFINE joined == head \o rest
    <2> HIDE DEF joined
    <2>3. /\ joined \in Seq(T) /\ Len(joined) = Len(head) + Len(rest)
          /\ \A i \in 1..Len(head) + Len(rest) :
                 joined[i] = IF i =< Len(head) THEN head[i] ELSE rest[i - Len(head)]
      BY <2>1 DEF joined
    <2>4. /\ joined \in Seq(T) /\ Len(joined) = 1 + Len(fields)
          /\ \A i \in 1..1 + Len(fields) : joined[i] = IF i =< 1 THEN head[i] ELSE rest[i - 1]
      BY ONLY <2>2, <2>3
    <2>5. QED BY <2>4 DEF joined
  <1>13. /\ (head \o rest)[1] = head[1] /\ DOMAIN (head \o rest) = 1..Len(fields) + 1
         /\ \A i \in DOMAIN fields : (head \o rest)[i + 1] = rest[i]
    <2>1. PICK joined \in Seq(T) : joined = head \o rest
      BY <1>12
    <2>2. DOMAIN joined = 1..Len(joined)
      OBVIOUS
    <2>3. DOMAIN joined = 1..Len(fields) + 1
      BY <1>11, <1>12, <2>1, <2>2
    <2>4. 1 \in 1..1 + Len(fields) /\ joined[1] = head[1]
      BY <1>11, <1>12, <2>1
    <2>5. ASSUME NEW i \in DOMAIN fields PROVE joined[i + 1] = rest[i]
      <3>1. i + 1 \in 1..1 + Len(fields) /\ ~(i + 1 =< 1) /\ (i + 1) - 1 = i
        BY <1>11
      <3>2. QED BY <1>12, <2>1, <3>1
    <2>6. QED BY <2>1, <2>3, <2>4, <2>5
  <1>14. QED BY <1>7, <1>8, <1>9, <1>12, <1>13 DEF T

(* A piece of the line of a record is its id or stands in a cell of it. *)
LEMMA PiecesOfLine ==
    ASSUME NEW record \in StoredRecordType, NEW fields \in Seq(FieldType),
           NEW g \in DOMAIN Line(record, fields), NEW k \in DOMAIN Line(record, fields)[g]
    PROVE  \/ Line(record, fields)[g][k] = [key |-> "record_id", value |-> record.id]
           \/ Line(record, fields)[g][k] \in PiecesOf(record)
  <1>1. PICK line : line = Line(record, fields)
    OBVIOUS
  <1>2. /\ DOMAIN line = 1..Len(fields) + 1
        /\ line[1] = <<[key |-> "record_id", value |-> record.id]>>
        /\ \A i \in DOMAIN fields :
               line[i + 1] = Printed(fields[i].name, record.values[fields[i].name])
    BY <1>1, GroupsOfLine
  <1>3. CASE g = 1
    BY <1>1, <1>2, <1>3
  <1>4. CASE g # 1
    <2>1. g - 1 \in DOMAIN fields /\ (g - 1) + 1 = g
      BY <1>1, <1>2, <1>4
    <2>2. PICK name \in FieldTitles : line[g] = Printed(name, record.values[name])
      <3>1. \A field \in FieldType : field.name \in FieldTitles
        BY DEF FieldType
      <3>2. fields[g - 1].name \in FieldTitles
        BY <2>1, <3>1
      <3>3. QED BY <1>2, <2>1, <3>2
    <2>3. line[g][k] \in ToSet(Printed(name, record.values[name]))
      BY <1>1, <2>2 DEF ToSet
    <2>4. QED BY <1>1, <2>3 DEF PiecesOf
  <1>5. QED BY <1>3, <1>4

(* A line that is cut holds the pieces it had, the last of them with the rest. *)
LEMMA PiecesLeft ==
    ASSUME NEW line \in Seq(Seq(PieceType)), NEW cut \in CutType
    PROVE  LET left == CutOff(line, cut)
           IN  /\ left \in Seq(Seq(PieceType))
               /\ \A g \in DOMAIN left : \A k \in DOMAIN left[g] :
                     /\ g \in DOMAIN line /\ k \in DOMAIN line[g]
                     /\ left[g][k].key = line[g][k].key
                     /\ left[g][k].value \in {line[g][k].value, cut.rest}
  <1>1. /\ cut.group \in Nat /\ cut.piece \in Nat /\ cut.rest \in STRING
        /\ Len(line) \in Nat /\ DOMAIN line = 1..Len(line)
    BY DEF CutType
  <1>2. PICK n \in Nat : n = Min({Len(line), cut.group}) /\ n =< Len(line)
    BY <1>1, MinOfTwo
  <1> DEFINE Group(g) ==
                 IF g < cut.group THEN line[g]
                 ELSE [k \in 1..Min({Len(line[g]), cut.piece}) |->
                         IF k < cut.piece THEN line[g][k]
                         ELSE [line[g][k] EXCEPT !.value = cut.rest]]
  <1>3. CutOff(line, cut) = [g \in 1..n |-> Group(g)]
    BY <1>2 DEF CutOff
  <1>4. ASSUME NEW g \in 1..n
        PROVE  /\ g \in DOMAIN line /\ Group(g) \in Seq(PieceType)
               /\ \A k \in DOMAIN Group(g) :
                     /\ k \in DOMAIN line[g] /\ Group(g)[k].key = line[g][k].key
                     /\ Group(g)[k].value \in {line[g][k].value, cut.rest}
    <2>1. g \in DOMAIN line /\ line[g] \in Seq(PieceType)
      BY <1>1, <1>2
    <2>2. PICK group \in Seq(PieceType) : group = line[g]
      BY <2>1
    <2>3. CASE g < cut.group
      BY <2>1, <2>3
    <2>4. CASE ~(g < cut.group)
      <3>1. PICK m \in Nat : m = Min({Len(group), cut.piece}) /\ m =< Len(group)
        <4>1. Len(group) \in Nat
          OBVIOUS
        <4>2. QED BY <1>1, <4>1, MinOfTwo
      <3> DEFINE Piece(k) == IF k < cut.piece THEN group[k] ELSE [group[k] EXCEPT !.value = cut.rest]
      <3>2. Group(g) = [k \in 1..m |-> Piece(k)]
        BY <2>2, <2>4, <3>1
      <3>3. ASSUME NEW k \in 1..m
            PROVE  /\ k \in DOMAIN group /\ Piece(k) \in PieceType
                   /\ Piece(k).key = group[k].key
                   /\ Piece(k).value \in {group[k].value, cut.rest}
        <4>1. k \in DOMAIN group
          BY <3>1
        <4>2. PICK piece \in PieceType : piece = group[k]
          BY <4>1
        <4>3. PICK other : other = [piece EXCEPT !.value = cut.rest]
          OBVIOUS
        <4>4. other \in PieceType /\ other.key = piece.key /\ other.value = cut.rest
          BY <1>1, <4>3 DEF PieceType
        <4>5. Piece(k) = IF k < cut.piece THEN piece ELSE other
          BY <4>2, <4>3
        <4>6. QED BY <4>1, <4>2, <4>4, <4>5
      <3> HIDE DEF Piece, Group
      <3>4. Group(g) \in Seq(PieceType) /\ DOMAIN Group(g) = 1..m
        <4>1. [k \in 1..m |-> Piece(k)] \in [1..m -> PieceType]
          BY <3>3
        <4>2. QED BY <3>2, <4>1, SequenceOf
      <3>5. QED BY <2>1, <2>2, <3>2, <3>3, <3>4
    <2>5. QED BY <2>3, <2>4
  <1> HIDE DEF Group
  <1>5. CutOff(line, cut) \in Seq(Seq(PieceType)) /\ DOMAIN CutOff(line, cut) = 1..n
    <2>1. [g \in 1..n |-> Group(g)] \in [1..n -> Seq(PieceType)]
      BY <1>4
    <2>2. QED BY <1>3, <2>1, SequenceOf
  <1>6. QED BY <1>3, <1>4, <1>5

(* What is read back from the line of a record. *)
Told(record, i, cut, key, value) ==
    \/ value = "none"
    \/ key = "record_id" /\ value = record.id
    \/ [key |-> key, value |-> value] \in PiecesOf(record)
    \/ i = cut.line /\ value = cut.rest

LEMMA LinesAreTold ==
    ASSUME NEW record \in StoredRecordType, NEW fields \in Seq(FieldType),
           NEW i, NEW cut \in CutType
    PROVE  LET left == LineLeft(record, fields, i, cut)
           IN  /\ left \in Seq(Seq(PieceType))
               /\ \A key : LastStated(left, key) \in STRING
                            /\ Told(record, i, cut, key, LastStated(left, key))
  <1>1. PICK line \in Seq(Seq(PieceType)) : line = Line(record, fields)
    BY GroupsOfLine
  <1>2. PICK left : left = LineLeft(record, fields, i, cut)
    OBVIOUS
  <1>3. /\ left \in Seq(Seq(PieceType))
        /\ \A g \in DOMAIN left : \A k \in DOMAIN left[g] :
               /\ g \in DOMAIN line /\ k \in DOMAIN line[g]
               /\ left[g][k].key = line[g][k].key
               /\ \/ left[g][k].value = line[g][k].value
                  \/ i = cut.line /\ left[g][k].value = cut.rest
    <2>1. CASE i = cut.line
      <3>1. left = CutOff(line, cut)
        BY <1>1, <1>2, <2>1 DEF LineLeft
      <3>2. QED BY <2>1, <3>1, PiecesLeft
    <2>2. CASE i # cut.line
      BY <1>1, <1>2, <2>2 DEF LineLeft
    <2>3. QED BY <2>1, <2>2
  <1>4. ASSUME NEW key
        PROVE  LastStated(left, key) \in STRING
               /\ Told(record, i, cut, key, LastStated(left, key))
    <2>1. CASE LastStated(left, key) = "none"
      BY <2>1, LiteralsAssumption DEF Told
    <2>2. CASE LastStated(left, key) # "none"
      <3>1. PICK g \in DOMAIN left : \E k \in DOMAIN left[g] :
                left[g][k].key = key /\ LastStated(left, key) = left[g][k].value
        BY <1>3, <2>2, StatedSomewhere
      <3>2. PICK k \in DOMAIN left[g] :
                left[g][k].key = key /\ LastStated(left, key) = left[g][k].value
        BY <3>1
      <3>3. PICK piece \in PieceType : piece = line[g][k]
        <4>1. line[g] \in Seq(PieceType) /\ k \in DOMAIN line[g]
          BY <1>3
        <4>2. QED BY <4>1
      <3>4. /\ piece.key = key
            /\ \/ LastStated(left, key) = piece.value
               \/ i = cut.line /\ LastStated(left, key) = cut.rest
        BY <1>3, <3>2, <3>3
      <3>5. \/ piece = [key |-> "record_id", value |-> record.id]
            \/ piece \in PiecesOf(record)
        BY <1>1, <1>3, <3>3, PiecesOfLine
      <3>6. piece = [key |-> piece.key, value |-> piece.value] /\ piece.value \in STRING
        BY DEF PieceType
      <3>7. cut.rest \in STRING
        BY DEF CutType
      <3>8. QED BY <3>4, <3>5, <3>6, <3>7 DEF Told
    <2>3. QED BY <2>1, <2>2
  <1>5. QED BY <1>2, <1>3, <1>4

(* A line without separators in its cells is read back as it was printed. *)
LEMMA PlainLines ==
    ASSUME NEW record \in StoredRecordType, NEW fields \in Seq(FieldType),
           NEW i, NEW cut, i # cut.line,
           \A k \in DOMAIN fields : /\ fields[k].name # "record_id"
                                    /\ record.values[fields[k].name].more = <<>>
    PROVE  LET left == LineLeft(record, fields, i, cut)
               names == {fields[k].name : k \in DOMAIN fields}
           IN  /\ LastStated(left, "record_id") = record.id
               /\ \A f \in names : LastStated(left, f) = record.values[f].head
               /\ \A f : f \notin names /\ f # "record_id" => LastStated(left, f) = "none"
  <1> DEFINE names == {fields[k].name : k \in DOMAIN fields}
  <1>1. PICK line \in Seq(Seq(PieceType)) : line = Line(record, fields)
    BY GroupsOfLine
  <1>2. LineLeft(record, fields, i, cut) = line
    BY <1>1 DEF LineLeft
  <1>3. /\ DOMAIN line = 1..Len(fields) + 1
        /\ line[1] = <<[key |-> "record_id", value |-> record.id]>>
        /\ \A j \in DOMAIN fields :
               line[j + 1] = Printed(fields[j].name, record.values[fields[j].name])
    BY <1>1, GroupsOfLine
  <1>4. Len(fields) \in Nat /\ DOMAIN fields = 1..Len(fields)
    OBVIOUS
  <1>5. ASSUME NEW j \in DOMAIN fields
        PROVE  LET name == fields[j].name
               IN  /\ record.values[name].head = "none" => line[j + 1] = <<>>
                   /\ record.values[name].head # "none" =>
                         line[j + 1] = <<[key |-> name, value |-> record.values[name].head]>>
    <2>1. PICK name \in FieldTitles : name = fields[j].name
      <3>1. \A field \in FieldType : field.name \in FieldTitles
        BY DEF FieldType
      <3>2. QED BY <3>1
    <2>2. PICK text \in CellTextType : text = record.values[name]
      BY DEF StoredRecordType
    <2>3. text.more = <<>> /\ text = [head |-> text.head, more |-> text.more]
      BY <2>1, <2>2 DEF CellTextType
    <2>4. text = Empty <=> text.head = "none"
      BY <2>3 DEF Empty
    <2>5. line[j + 1] = Printed(name, text)
      BY <1>3, <2>1, <2>2
    <2>6. <<[key |-> name, value |-> text.head]>> \o <<>> = <<[key |-> name, value |-> text.head]>>
      OBVIOUS
    <2>7. QED BY <2>1, <2>2, <2>3, <2>4, <2>5, <2>6 DEF Printed
  <1>6. ASSUME NEW g \in DOMAIN line, NEW k \in DOMAIN line[g]
        PROVE  \/ g = 1 /\ k = 1 /\ line[g][k] = [key |-> "record_id", value |-> record.id]
               \/ \E f \in names : line[g][k] = [key |-> f, value |-> record.values[f].head]
    <2>1. CASE g = 1
      BY <1>3, <2>1
    <2>2. CASE g # 1
      <3>1. PICK j \in DOMAIN fields : g = j + 1
        <4>1. g - 1 \in DOMAIN fields /\ g = (g - 1) + 1
          BY <1>3, <1>4, <2>2
        <4>2. QED BY <4>1
      <3>2. line[g] # <<>>
        OBVIOUS
      <3>3. line[g] = <<[key |-> fields[j].name, value |-> record.values[fields[j].name].head]>>
        BY <1>5, <3>1, <3>2
      <3>4. k = 1
        BY <3>3
      <3>5. QED BY <3>3, <3>4
    <2>3. QED BY <2>1, <2>2
  <1>7. 1 \in DOMAIN line /\ 1 \in DOMAIN line[1] /\ line[1][1].key = "record_id"
        /\ line[1][1].value = record.id
    BY <1>3, <1>4
  <1>8. \A f \in names : f # "record_id"
    OBVIOUS
  <1>9. LastStated(line, "record_id") = record.id
    <2>1. PICK g \in DOMAIN line : \E k \in DOMAIN line[g] :
              line[g][k].key = "record_id" /\ LastStated(line, "record_id") = line[g][k].value
      BY <1>7, StatedSomewhere
    <2>2. PICK k \in DOMAIN line[g] :
              line[g][k].key = "record_id" /\ LastStated(line, "record_id") = line[g][k].value
      BY <2>1
    <2>3. CASE line[g][k] = [key |-> "record_id", value |-> record.id]
      BY <2>2, <2>3
    <2>4. ASSUME NEW f \in names, line[g][k] = [key |-> f, value |-> record.values[f].head]
          PROVE  FALSE
      <3>1. f = "record_id"
        BY <2>2, <2>4
      <3>2. QED BY <1>8, <3>1
    <2>5. QED BY <1>6, <2>3, <2>4
  <1>10. ASSUME NEW f, f \notin names, f # "record_id" PROVE LastStated(line, f) = "none"
    <2>1. \A g \in DOMAIN line : \A k \in DOMAIN line[g] : line[g][k].key # f
      BY <1>6, <1>10
    <2>2. QED BY <2>1, StatedSomewhere
  <1>11. ASSUME NEW f \in names PROVE LastStated(line, f) = record.values[f].head
    <2>1. PICK j \in DOMAIN fields : f = fields[j].name
      OBVIOUS
    <2>2. ASSUME NEW g \in DOMAIN line, NEW k \in DOMAIN line[g], line[g][k].key = f
          PROVE  line[g][k].value = record.values[f].head
      BY <1>6, <1>8, <2>2
    <2>3. CASE record.values[f].head # "none"
      <3>1. j + 1 \in DOMAIN line
        BY <1>3, <1>4
      <3>2. line[j + 1] = <<[key |-> f, value |-> record.values[f].head]>>
        BY <1>5, <2>1, <2>3
      <3>3. 1 \in DOMAIN line[j + 1] /\ line[j + 1][1].key = f
        BY <3>2
      <3>4. PICK g \in DOMAIN line : \E k \in DOMAIN line[g] :
                line[g][k].key = f /\ LastStated(line, f) = line[g][k].value
        <4>1. ~(\A g \in DOMAIN line : \A k \in DOMAIN line[g] : line[g][k].key # f)
          BY <3>1, <3>3
        <4>2. QED BY <4>1, StatedSomewhere
      <3>5. QED BY <2>2, <3>4
    <2>4. CASE record.values[f].head = "none"
      BY <2>2, <2>4, StatedSomewhere
    <2>5. QED BY <2>3, <2>4
  <1> HIDE DEF names
  <1>12. QED BY <1>2, <1>9, <1>10, <1>11 DEF names

LEMMA NumberedType ==
    ASSUME NEW records \in Seq(StoredRecordType), NEW fields \in Seq(FieldType),
           NEW cut \in CutType
    PROVE  LET numbered == Numbered(records, fields, cut)
           IN  /\ numbered \in Seq(RecordType) /\ Len(numbered) =< Len(records)
               /\ \A i \in DOMAIN numbered :
                     numbered[i] = RecordFromLine(i, LineLeft(records[i], fields, i, cut))
  <1> DEFINE limits == {Len(records), MaxRecords, MaxIndexed, cut.line}
             n == Min(limits)
             Entry(i) == RecordFromLine(i, LineLeft(records[i], fields, i, cut))
  <1>1. Len(records) \in Nat /\ DOMAIN records = 1..Len(records) /\ cut.line \in Nat
    BY DEF CutType
  <1>2. n \in Nat /\ n =< Len(records)
    <2>1. limits \in SUBSET Nat /\ limits # {} /\ Len(records) \in limits
      BY <1>1, ReaderAssumption
    <2> HIDE DEF limits
    <2>2. PICK x \in limits : \A y \in limits : x =< y
      BY <2>1, LeastOf
    <2>3. n \in limits /\ \A y \in limits : n =< y
      BY <2>2 DEF Min
    <2>4. QED BY <2>1, <2>3
  <1>3. Numbered(records, fields, cut) = [i \in 1..n |-> Entry(i)]
    BY DEF Numbered
  <1> HIDE DEF n
  <1>4. ASSUME NEW i \in 1..n PROVE Entry(i) \in RecordType
    <2>1. PICK record \in StoredRecordType : record = records[i]
      BY <1>1, <1>2
    <2>2. PICK left : left = LineLeft(record, fields, i, cut)
      OBVIOUS
    <2>3. \A key : LastStated(left, key) \in STRING
      BY <2>2, LinesAreTold
    <2>4. [f \in FieldTitles |-> IF f = "record_id" THEN "none" ELSE LastStated(left, f)]
              \in [FieldTitles -> STRING]
      BY <2>3, LiteralsAssumption
    <2>5. RecordFromLine(i, left) \in RecordType
      BY <1>2, <2>3, <2>4 DEF RecordFromLine, RecordType
    <2>6. QED BY <2>1, <2>2, <2>5
  <1> HIDE DEF Entry
  <1>5. PICK numbered \in Seq(RecordType) : /\ numbered = Numbered(records, fields, cut)
                                            /\ DOMAIN numbered = 1..n
    BY <1>2, <1>3, <1>4
  <1>6. Len(numbered) = n
    BY <1>2, <1>5
  <1>7. \A i \in DOMAIN numbered : numbered[i] = Entry(i)
    BY <1>3, <1>5
  <1>8. QED BY <1>2, <1>5, <1>6, <1>7 DEF Entry

LEMMA FieldsType ==
    ASSUME NEW remote \in RemoteType, NEW records
    PROVE  FieldsOf(remote, records) \in Seq(FieldType)
  <1>1. remote.fields \in Seq(FieldType)
    BY RemoteTypes
  <1>2. PICK fields \in Seq(FieldType) : fields = remote.fields
    BY <1>1
  <1>3. DOMAIN fields = 1..Len(fields) /\ Len(fields) \in Nat
    OBVIOUS
  <1>4. \A i \in DOMAIN fields : [fields[i] EXCEPT !.text = FALSE] \in FieldType
    <2>1. ASSUME NEW field \in FieldType PROVE [field EXCEPT !.text = FALSE] \in FieldType
      BY DEF FieldType
    <2>2. \A i \in DOMAIN fields : fields[i] \in FieldType
      OBVIOUS
    <2>3. QED BY <2>1, <2>2
  <1>5. [i \in DOMAIN fields |-> [fields[i] EXCEPT !.text = FALSE]] \in Seq(FieldType)
    BY <1>3, <1>4
  <1>6. QED BY <1>2, <1>5 DEF FieldsOf

LEMMA ReadBitableType ==
    ASSUME NEW remote \in RemoteType, NEW ref \in RefType
    PROVE  ReadBitable(remote, ref) \in ResultType
  <1>1. ResolveBitableTable(remote, ref) \in STRING
    <2> DEFINE tables == remote.tables
               at == {i \in 1..Len(tables) : tables[i].name = ref.table}
               named == IF at # {} THEN Min(at) ELSE 0
    <2>1. tables \in Seq([id : STRING, name : STRING]) /\ ref.table \in STRING
      BY RemoteTypes DEF RefType
    <2>2. SelectInSeq(tables, LAMBDA t : t.name = ref.table) = named
      BY DEF SelectInSeq
    <2>3. \/ ResolveBitableTable(remote, ref) \in {ref.table, "none"}
          \/ /\ tables # <<>>
             /\ ResolveBitableTable(remote, ref) = tables[IF named > 0 THEN named ELSE 1].id
      BY <2>2 DEF ResolveBitableTable
    <2> HIDE DEF tables
    <2>4. named = 0 \/ (named > 0 /\ named \in DOMAIN tables)
      BY <2>1, PlaceOf
    <2>5. tables # <<>> => (IF named > 0 THEN named ELSE 1) \in DOMAIN tables
      BY <2>1, <2>4
    <2>6. PICK k : k = IF named > 0 THEN named ELSE 1
      OBVIOUS
    <2> HIDE DEF named
    <2>7. tables # <<>> => tables[k] \in [id : STRING, name : STRING]
      <3>1. tables # <<>> => k \in DOMAIN tables
        BY <2>5, <2>6
      <3> DEFINE T == [id : STRING, name : STRING]
      <3>2. tables \in Seq(T)
        BY <2>1
      <3> HIDE DEF T
      <3>3. tables # <<>> => tables[k] \in T
        BY <3>1, <3>2
      <3>4. QED BY <3>3 DEF T
    <2>8. tables # <<>> => tables[k].id \in STRING
      BY <2>7
    <2>9. QED BY <2>1, <2>3, <2>6, <2>8, LiteralsAssumption
  <1>2. RecordsOf(remote, ref) \in Seq(StoredRecordType)
    BY RemoteTypes DEF RecordsOf
  <1>3. PICK table \in STRING, records \in Seq(StoredRecordType) :
            table = ResolveBitableTable(remote, ref) /\ records = RecordsOf(remote, ref)
    BY <1>1, <1>2
  <1>4. [fields |-> FieldsOf(remote, records),
         records |-> Numbered(records, FieldsOf(remote, records), remote.cut)] \in TableType
    BY RemoteTypes, FieldsType, NumberedType DEF TableType
  <1>5. [ref EXCEPT !.table = table] \in RefType
    BY DEF RefType
  <1>6. PICK content \in TableType :
            content = [fields |-> FieldsOf(remote, records),
                       records |-> Numbered(records, FieldsOf(remote, records), remote.cut)]
    BY <1>4
  <1>7. [Result([ref EXCEPT !.table = table]) EXCEPT !.table = content] \in ResultType
    BY <1>5, ResultTypes DEF ResultType
  <1>8. QED BY <1>3, <1>6, <1>7, ResultTypes DEF ReadBitable

(* Whatever is behind the address, what is read is a result. *)
LEMMA ReadResourceType ==
    ASSUME NEW world \in [Resources -> RemoteType], NEW ref \in KnownRefType,
           ref.type \in ReadableTypes
    PROVE  ReadResource(world, ref) \in ResultType
  <1> DEFINE resolved == IF ref.kind = "wiki" THEN ResolveWikiRef(world, ref) ELSE ref
  <1>1. ref \in RefType /\ ref.id \in Resources /\ world[ref.id] \in RemoteType
    BY DEF KnownRefType
  <1>2. \/ resolved = NoRef
        \/ resolved \in KnownRefType /\ resolved.type \in ReadableTypes
    <2>1. CASE ref.kind # "wiki"
      BY <2>1
    <2>2. CASE ref.kind = "wiki"
      <3> DEFINE node == world[ref.id]
      <3>1. \/ ResolveWikiRef(world, ref) = NoRef
            \/ /\ node.leads # "none"
               /\ world[node.leads].type \in KnownTypes
               /\ ResolveWikiRef(world, ref) =
                     [ref EXCEPT !.id = node.leads, !.type = world[node.leads].type,
                                 !.kind = "resolved"]
        BY DEF ResolveWikiRef
      <3>2. node.leads \in Resources \cup {"none"}
        BY <1>1, RemoteTypes
      <3>3. ASSUME node.leads \in Resources, world[node.leads].type \in KnownTypes
            PROVE  LET r == [ref EXCEPT !.id = node.leads, !.type = world[node.leads].type,
                                        !.kind = "resolved"]
                   IN  r \in KnownRefType /\ r.type \in ReadableTypes
        <4>1. PICK id \in Resources, type \in KnownTypes :
                  id = node.leads /\ type = world[node.leads].type
          BY <3>3
        <4>2. id \in STRING /\ type \in STRING /\ type \in ReadableTypes
          BY ReaderAssumption, LiteralsAssumption DEF KnownTypes, ReadableTypes
        <4>3. [ref EXCEPT !.id = id, !.type = type, !.kind = "resolved"] \in RefType
          BY <1>1, <4>2, LiteralsAssumption DEF RefType
        <4> HIDE DEF node
        <4>4. [ref EXCEPT !.id = id, !.type = type, !.kind = "resolved"].id = id
              /\ [ref EXCEPT !.id = id, !.type = type, !.kind = "resolved"].type = type
          BY <1>1 DEF RefType
        <4>5. QED BY <4>1, <4>2, <4>3, <4>4 DEF KnownRefType
      <3>4. QED BY <2>2, <3>1, <3>2, <3>3
    <2>3. QED BY <2>1, <2>2
  <1>3. PICK r : r = resolved
    OBVIOUS
  <1>4. ReadResource(world, ref) =
            IF r = NoRef THEN Failed(ref)
            ELSE CASE r.type = "doc" -> ReadDoc(world[r.id], r)
                   [] r.type = "sheet" -> ReadSheet(world[r.id], r)
                   [] r.type = "bitable" -> ReadBitable(world[r.id], r)
                   [] r.type = "web" -> ReadWeb(world[r.id], r)
    BY <1>3 DEF ReadResource
  <1>5. CASE r = NoRef
    BY <1>1, <1>4, <1>5, ResultTypes
  <1>6. CASE r # NoRef
    <2>1. r \in RefType /\ world[r.id] \in RemoteType /\ r.type \in ReadableTypes
      BY <1>2, <1>3, <1>6 DEF KnownRefType
    <2>2. QED BY <1>4, <1>6, <2>1, ReadDocType, ReadSheetType, ReadBitableType, ReadWebType
              DEF ReadableTypes
  <1>7. QED BY <1>5, <1>6

-------------------------------------------------------------------------------
(* Searching *)

(* What a searcher finds: resources of the types that can be read.  *)
Hits == {r \in KnownRefType : r.kind = "search" /\ r.type \in KnownTypes}
FreshHits == {r \in Hits : r.page = NoPage}

LEMMA HitTypes ==
    ASSUME NEW id \in Resources, NEW link \in Resources, NEW type \in KnownTypes
    PROVE  [NoRef EXCEPT !.id = id, !.link = link, !.type = type, !.kind = "search"] \in FreshHits
  <1>1. id \in STRING /\ link \in STRING /\ type \in STRING
    BY ReaderAssumption, LiteralsAssumption DEF KnownTypes
  <1> DEFINE r == [NoRef EXCEPT !.id = id, !.link = link, !.type = type, !.kind = "search"]
  <1>2. r \in RefType
    BY <1>1, PlainTypes, LiteralsAssumption DEF RefType
  <1>3. r.id = id /\ r.kind = "search" /\ r.type = type /\ r.page = NoPage
    BY DEF NoRef
  <1>4. QED BY <1>2, <1>3 DEF FreshHits, Hits, KnownRefType

LEMMA CandidatesAreHits ==
    ASSUME NEW name \in DOMAIN Indexes, NEW variant
    PROVE  SearchCandidate(Indexes[name], variant) \in Seq(FreshHits)
  <1> DEFINE index == Indexes[name]
             hits == IF variant \in DOMAIN index THEN index[variant]
                     ELSE [docs |-> <<>>, wiki |-> <<>>]
             DocType == [id : Resources, type : STRING]
             ItemType == [object : Resources \cup {"none"}, node : Resources, type : STRING]
  <1>1. hits.docs \in Seq(DocType) /\ hits.wiki \in Seq(ItemType)
    <2>1. CASE variant \in DOMAIN index
      <3>1. /\ index[variant].docs \in Seq(DocType)
            /\ index[variant].wiki \in Seq(ItemType)
        BY <2>1, IndexAssumption
      <3>2. QED BY <2>1, <3>1
    <2>2. CASE variant \notin DOMAIN index
      BY <2>2
    <2>3. QED BY <2>1, <2>2
  <1>2. PICK d \in Seq(DocType), w \in Seq(ItemType) : d = hits.docs /\ w = hits.wiki
    BY <1>1
  <1> DEFINE docsAt == {i \in DOMAIN d : d[i].type \in KnownTypes}
             wikiAt == {i \in DOMAIN w : w[i].type \in KnownTypes}
             docs == Those(d, docsAt)
             wiki == Those(w, wikiAt)
  <1>3. SearchCandidate(index, variant) =
            [i \in DOMAIN docs |-> SearchEntityToRef(docs[i])]
            \o [i \in DOMAIN wiki |-> WikiSearchItemToRef(wiki[i])]
    BY <1>2 DEF SearchCandidate
  <1>4. docs \in Seq({d[i] : i \in docsAt}) /\ wiki \in Seq({w[i] : i \in wikiAt})
    <2> HIDE DEF DocType, ItemType
    <2>1. docsAt \in SUBSET DOMAIN d /\ wikiAt \in SUBSET DOMAIN w
      OBVIOUS
    <2> HIDE DEF docsAt, wikiAt
    <2>2. QED BY <2>1, ThoseThereAre
  <1>5. \A i \in docsAt : SearchEntityToRef(d[i]) \in FreshHits
    <2> SUFFICES ASSUME NEW i \in docsAt PROVE SearchEntityToRef(d[i]) \in FreshHits
      OBVIOUS
    <2>1. i \in DOMAIN d /\ d[i].type \in KnownTypes
      OBVIOUS
    <2>2. d[i] \in DocType
      <3> HIDE DEF DocType
      <3> QED BY <1>2, <2>1
    <2>3. PICK doc \in DocType : doc = d[i]
      BY <2>2
    <2>4. doc.id \in Resources /\ doc.type \in KnownTypes
      BY <2>1, <2>3
    <2>5. QED BY <2>3, <2>4, HitTypes DEF SearchEntityToRef
  <1>6. \A i \in wikiAt : WikiSearchItemToRef(w[i]) \in FreshHits
    <2> SUFFICES ASSUME NEW i \in wikiAt PROVE WikiSearchItemToRef(w[i]) \in FreshHits
      OBVIOUS
    <2>1. i \in DOMAIN w /\ w[i].type \in KnownTypes
      OBVIOUS
    <2>2. w[i] \in ItemType
      <3> HIDE DEF ItemType
      <3> QED BY <1>2, <2>1
    <2>3. PICK item \in ItemType : item = w[i]
      BY <2>2
    <2>4. /\ item.object \in Resources \cup {"none"} /\ item.node \in Resources
          /\ item.type \in KnownTypes
      BY <2>1, <2>3
    <2>5. PICK id \in Resources : id = IF item.object # "none" THEN item.object ELSE item.node
      BY <2>4
    <2>6. WikiSearchItemToRef(item) =
              [NoRef EXCEPT !.id = id, !.link = item.node, !.type = item.type,
                            !.kind = "search"]
      BY <2>5 DEF WikiSearchItemToRef
    <2> HIDE DEF ItemType
    <2>7. WikiSearchItemToRef(item) \in FreshHits
      <3>1. PICK link \in Resources, type \in KnownTypes : link = item.node /\ type = item.type
        BY <2>4
      <3>2. [NoRef EXCEPT !.id = id, !.link = link, !.type = type, !.kind = "search"] \in FreshHits
        BY HitTypes
      <3>3. WikiSearchItemToRef(item) =
                [NoRef EXCEPT !.id = id, !.link = link, !.type = type, !.kind = "search"]
        BY <2>6, <3>1
      <3>4. QED BY <3>2, <3>3
    <2>8. QED BY <2>3, <2>7
  <1> HIDE DEF docs, wiki, docsAt, wikiAt
  <1>7. /\ [i \in DOMAIN docs |-> SearchEntityToRef(docs[i])] \in Seq(FreshHits)
        /\ [i \in DOMAIN wiki |-> WikiSearchItemToRef(wiki[i])] \in Seq(FreshHits)
    <2>1. /\ DOMAIN docs = 1..Len(docs) /\ Len(docs) \in Nat
          /\ DOMAIN wiki = 1..Len(wiki) /\ Len(wiki) \in Nat
      BY <1>4
    <2>2. \A i \in DOMAIN docs : SearchEntityToRef(docs[i]) \in FreshHits
      BY <1>4, <1>5
    <2>3. \A i \in DOMAIN wiki : WikiSearchItemToRef(wiki[i]) \in FreshHits
      BY <1>4, <1>6
    <2>4. QED BY <2>1, <2>2, <2>3
  <1>8. PICK a \in Seq(FreshHits), b \in Seq(FreshHits) :
            SearchCandidate(Indexes[name], variant) = a \o b
    BY <1>3, <1>7
  <1>9. QED BY <1>8

LEMMA SearchFindsHits ==
    ASSUME NEW name \in DOMAIN Indexes, NEW query, NEW limit
    PROVE  Search(Indexes[name], query, limit) \in Seq(FreshHits)
  <1>1. ASSUME NEW s \in Seq(FreshHits), NEW most PROVE Distinct(s, most) \in Seq(FreshHits)
    <2> DEFINE new == {i \in DOMAIN s : ~\E j \in 1..i - 1 : SameResource(s[j], s[i])}
    <2>1. Foremost(new, most) \in SUBSET DOMAIN s
      BY DEF Foremost
    <2>2. Distinct(s, most) = Those(s, Foremost(new, most))
      BY DEF Distinct
    <2> HIDE DEF new
    <2>3. QED BY <2>1, <2>2, ThoseThereAre
  <1>2. \A variant, most : Distinct(SearchCandidate(Indexes[name], variant), most) \in Seq(FreshHits)
    BY <1>1, CandidatesAreHits
  <1>3. <<>> \in Seq(FreshHits)
    OBVIOUS
  <1>4. QED BY <1>2, <1>3 DEF Search

LEMMA TakenHits ==
    ASSUME NEW refs \in Seq(FreshHits), NEW hits \in Seq(FreshHits), NEW limit
    PROVE  TakeHits(refs, hits, limit) \in Seq(FreshHits)
  <1> DEFINE new == {i \in DOMAIN hits : /\ ~Contains(refs, hits[i])
                                         /\ ~\E j \in 1..i - 1 : hits[j] = hits[i]}
             at == Foremost(new, limit - Len(refs))
  <1>1. at \in SUBSET DOMAIN hits
    BY DEF Foremost
  <1>2. TakeHits(refs, hits, limit) = refs \o Those(hits, at)
    BY DEF TakeHits
  <1> HIDE DEF at
  <1>3. Those(hits, at) \in Seq(FreshHits)
    BY <1>1, ThoseThereAre
  <1>4. QED BY <1>2, <1>3

LEMMA PageHintType ==
    ASSUME NEW numeral \in NumeralType
    PROVE  ChinesePageNumber(numeral) \in Int
  <1>1. \A s, n : n \in Int => Digit(s, n) \in Int
    BY DEF Digit
  <1>2. \A a, b : a \in Int /\ b \in Int => 10 * a + b \in Int
    OBVIOUS
  <1>3. numeral.arabic \in Int
    BY DEF NumeralType
  <1>4. QED BY <1>1, <1>2, <1>3 DEF ChinesePageNumber

(* A page that is asked for changes nothing else about a resource. *)
LEMMA PagesAreHinted ==
    ASSUME request \in RequestType, NEW T \in SUBSET KnownRefType, NEW refs \in Seq(T),
           \A r \in T, page \in PageType : [r EXCEPT !.page = page] \in T
    PROVE  /\ WithPdfPageHint(refs) \in Seq(T)
           /\ refs = <<>> <=> WithPdfPageHint(refs) = <<>>
  <1>1. request.text.page.kind \in STRING /\ request.text.page.numeral \in NumeralType
    BY DEF RequestType, TextType
  <1>2. PdfPageHint(request.text.page) \in PageType
    BY <1>1, PageHintType, PlainTypes DEF PdfPageHint, PageType
  <1>3. PICK page \in PageType : page = PdfPageHint(request.text.page)
    BY <1>2
  <1>4. WithPdfPageHint(refs) =
            [i \in DOMAIN refs |-> IF refs[i].type = "doc" /\ page # NoPage
                                   THEN [refs[i] EXCEPT !.page = page] ELSE refs[i]]
    BY <1>3 DEF WithPdfPageHint
  <1>5. DOMAIN refs = 1..Len(refs) /\ Len(refs) \in Nat
    OBVIOUS
  <1>6. \A i \in DOMAIN refs : refs[i] \in T /\ [refs[i] EXCEPT !.page = page] \in T
    OBVIOUS
  <1>7. QED BY <1>4, <1>5, <1>6

LEMMA HintedHits ==
    /\ \A r \in Hits, page \in PageType : [r EXCEPT !.page = page] \in Hits
    /\ \A r \in LinkedRefType, page \in PageType : [r EXCEPT !.page = page] \in LinkedRefType
  <1>1. ASSUME NEW r \in RefType, NEW page \in PageType
        PROVE  LET q == [r EXCEPT !.page = page]
               IN  q \in RefType /\ q.id = r.id /\ q.kind = r.kind /\ q.type = r.type
    BY DEF RefType
  <1>2. QED BY <1>1 DEF Hits, LinkedRefType, KnownRefType

LEMMA MergedTypes ==
    ASSUME NEW earlier \in TextType, NEW later \in TextType
    PROVE  Merge(earlier, later) \in TextType
  <1>1. PICK urls \in Seq(LinkedRefType) : urls = earlier.urls \o later.urls
    <2>1. earlier.urls \in Seq(LinkedRefType) /\ later.urls \in Seq(LinkedRefType)
      BY DEF TextType
    <2>2. ASSUME NEW a \in Seq(LinkedRefType), NEW b \in Seq(LinkedRefType)
          PROVE  a \o b \in Seq(LinkedRefType)
      OBVIOUS
    <2>3. QED BY <2>1, <2>2
  <1>2. PICK start \in BOOLEAN, asset \in BOOLEAN :
            start = (earlier.start \/ later.start) /\ asset = (earlier.asset \/ later.asset)
    <2>1. (earlier.start \/ later.start) \in BOOLEAN /\ (earlier.asset \/ later.asset) \in BOOLEAN
      OBVIOUS
    <2>2. QED BY <2>1
  <1>3. PICK edit \in {"none", "replace", "modify"} :
            edit = IF earlier.edit = "replace" THEN earlier.edit ELSE later.edit
    BY DEF TextType
  <1>4. PICK quoted \in ContentType :
            quoted = IF earlier.quoted = NoContent THEN later.quoted ELSE earlier.quoted
    BY DEF TextType
  <1>5. [earlier EXCEPT !.urls = urls, !.start = start, !.asset = asset, !.edit = edit,
                        !.quoted = quoted] \in TextType
    BY DEF TextType
  <1>6. QED BY <1>1, <1>2, <1>3, <1>4, <1>5 DEF Merge

LEMMA TextsAreTyped ==
    ASSUME NEW r \in RequestType
    PROVE  ContextualWritebackText(r) \in TextType /\ r.text \in TextType
  <1> DEFINE earlier == {i \in DOMAIN r.messages :
                            r.messages[i].own /\ HasWritebackIntent(r.messages[i].text)}
             MessageType == [text : TextType, own : BOOLEAN]
  <1>1. r.text \in TextType /\ r.messages \in Seq(MessageType)
    BY DEF RequestType
  <1>2. CASE ContextualWritebackText(r) = r.text
    BY <1>1, <1>2
  <1>3. CASE earlier # {} /\ ContextualWritebackText(r) =
                 Merge(r.messages[Max(earlier)].text, r.text)
    <2>1. PICK messages \in Seq(MessageType) : messages = r.messages
      BY <1>1
    <2>2. earlier \subseteq 1..Len(messages) /\ Len(messages) \in Nat
      BY <2>1
    <2>3. earlier \in SUBSET Nat /\ \A i \in earlier : i =< Len(messages)
      BY <2>2
    <2> HIDE DEF earlier, MessageType
    <2>4. Max(earlier) \in 1..Len(messages)
      BY <1>3, <2>2, <2>3, MaxOf
    <2>5. messages[Max(earlier)] \in MessageType
      BY <2>4
    <2>6. messages[Max(earlier)].text \in TextType
      BY <2>5 DEF MessageType
    <2>7. QED BY <1>1, <1>3, <2>1, <2>6, MergedTypes
  <1>4. QED BY <1>2, <1>3 DEF ContextualWritebackText

-------------------------------------------------------------------------------
(* The text in an answer *)

(* Of labels at different places there is a first one. *)
LEMMA FirstLabelOf ==
    ASSUME NEW cut, cut # {}, \A f \in cut : f.at \in Nat
    PROVE  \E f \in cut : OfFirstLabel(cut) = f.content
  <1> DEFINE T == {f.at : f \in cut}
  <1>1. T \in SUBSET Nat /\ T # {}
    OBVIOUS
  <1> HIDE DEF T
  <1>2. PICK n \in T : \A m \in T : n =< m
    BY <1>1, LeastOf
  <1>3. \E f \in cut : \A g \in cut : f.at =< g.at
    BY <1>2 DEF T
  <1>4. (CHOOSE f \in cut : \A g \in cut : f.at =< g.at) \in cut
    BY <1>3
  <1>5. QED BY <1>4 DEF OfFirstLabel

(* A piece of the answer, from one line to another, that is clean. *)
IsPiece(lines, content, first, last) ==
    /\ content = first..last
    /\ \/ \A i \in content : lines[i] \notin {"blank", "meta", "stop"}
       \/ /\ first > 1 /\ lines[first - 1] = "fence"
          /\ \A i \in content : lines[i] # "fence"
          /\ last = Len(lines) \/ lines[last + 1] = "fence"

(* Nothing, or one that begins there or below. *)
PieceFrom(lines, start, content) ==
    content # {} =>
        \E first, last \in DOMAIN lines : start =< first /\ IsPiece(lines, content, first, last)

LEMMA LowerPiece ==
    ASSUME NEW lines \in Seq(LineKinds), NEW k \in Nat, NEW i \in Nat, i =< k, NEW content,
           PieceFrom(lines, k, content)
    PROVE  PieceFrom(lines, i, content)
  <1>1. \A first \in DOMAIN lines : k =< first => i =< first
    OBVIOUS
  <1>2. QED BY <1>1 DEF PieceFrom

(* The good lines from one on go up to the last of them, and a bad one follows. *)
LEMMA RunIsInterval ==
    ASSUME NEW lines \in Seq(LineKinds), NEW i \in Nat, NEW good \in SUBSET DOMAIN lines,
           RunFrom(i, good) # {}
    PROVE  /\ i \in good
           /\ \E last \in good : RunFrom(i, good) = i..last /\ last + 1 \notin good
  <1> DEFINE run == RunFrom(i, good)
  <1>1. Len(lines) \in Nat /\ DOMAIN lines = 1..Len(lines)
    OBVIOUS
  <1>2. run \in SUBSET Nat /\ \A j \in run : j =< Len(lines)
    BY <1>1 DEF RunFrom
  <1>3. PICK last \in run : \A j \in run : j =< last
    <2> HIDE DEF run
    <2>1. run # {}
      BY DEF run
    <2>2. Max(run) \in run /\ \A j \in run : j =< Max(run)
      BY <1>1, <1>2, <2>1, MaxOf
    <2>3. QED BY <2>2
  <1>4. last \in good /\ i =< last /\ i..last \subseteq good /\ last \in Nat
    BY <1>2 DEF RunFrom
  <1>5. i \in good
    BY <1>4
  <1>6. ASSUME NEW j \in i..last PROVE j \in run
    <2>1. j \in good /\ i =< j /\ i..j \subseteq i..last
      BY <1>4
    <2>2. QED BY <1>4, <2>1 DEF RunFrom
  <1>7. run = i..last
    <2>1. \A j \in run : j \in i..last
      BY <1>2, <1>3, <1>4 DEF RunFrom
    <2>2. QED BY <1>6, <2>1
  <1>8. last + 1 \notin good
    <2> SUFFICES ASSUME last + 1 \in good PROVE FALSE
      OBVIOUS
    <2>1. i..(last + 1) \subseteq good /\ i =< last + 1
      BY <1>4
    <2>2. last + 1 \in run
      BY <2>1 DEF RunFrom
    <2>3. QED BY <1>3, <1>4, <2>2
  <1>9. QED BY <1>4, <1>5, <1>7, <1>8

LEMMA BlockIsPiece ==
    ASSUME NEW lines \in Seq(LineKinds), NEW start \in Nat, start > 0
    PROVE  PieceFrom(lines, start, BlockAfter(lines, start))
  <1> DEFINE text == {i \in start..Len(lines) : lines[i] # "blank"}
             first == Min(text)
  <1>1. Len(lines) \in Nat /\ DOMAIN lines = 1..Len(lines)
    OBVIOUS
  <1>2. text \in SUBSET Nat /\ \A i \in text : i \in DOMAIN lines /\ start =< i
    BY <1>1
  <1>3. CASE text = {}
    BY <1>3 DEF BlockAfter, PieceFrom
  <1>4. CASE text # {}
    <2>1. first \in text
      <3> HIDE DEF text
      <3>1. QED BY <1>2, <1>4, MinOf
    <2>2. first \in Nat /\ start =< first /\ first \in DOMAIN lines
      BY <1>2, <2>1
    <2>3. BlockAfter(lines, start) =
              CASE lines[first] = "fence" -> FencedContent(lines, first)
                [] lines[first] = "quote" -> BlockquoteContent(lines, first)
                [] OTHER -> PlainContent(lines, first)
      BY <1>4 DEF BlockAfter
    <2> HIDE DEF first, text
    <2>4. CASE lines[first] = "fence"
      <3> DEFINE good == {k \in DOMAIN lines : lines[k] # "fence"}
                 content == RunFrom(first + 1, good)
      <3>1. BlockAfter(lines, start) = content
        BY <2>3, <2>4 DEF FencedContent
      <3> SUFFICES ASSUME content # {} PROVE PieceFrom(lines, start, content)
        BY <3>1 DEF PieceFrom
      <3>2. first + 1 \in Nat /\ good \in SUBSET DOMAIN lines
        BY <2>2
      <3> HIDE DEF good
      <3>3. PICK last \in good : content = (first + 1)..last /\ last + 1 \notin good
        BY <3>2, RunIsInterval
      <3>4. first + 1 \in good /\ content \subseteq good
        BY <3>2, RunIsInterval DEF RunFrom
      <3> HIDE DEF content
      <3>5. \A k \in content : lines[k] # "fence"
        BY <3>4 DEF good
      <3>6. last = Len(lines) \/ lines[last + 1] = "fence"
        BY <1>1, <3>3 DEF good
      <3>7. first + 1 \in DOMAIN lines /\ last \in DOMAIN lines
        BY <3>3, <3>4 DEF good
      <3>8. first + 1 > 1 /\ (first + 1) - 1 = first /\ start =< first + 1
        BY <2>2
      <3>9. IsPiece(lines, content, first + 1, last)
        BY <2>4, <3>3, <3>5, <3>6, <3>8 DEF IsPiece
      <3>10. QED BY <3>7, <3>8, <3>9 DEF PieceFrom
    <2>5. ASSUME NEW good \in SUBSET {k \in DOMAIN lines : lines[k] \notin {"blank", "meta", "stop"}},
                 RunFrom(first, good) # {}
          PROVE  PieceFrom(lines, start, RunFrom(first, good))
      <3>1. good \in SUBSET DOMAIN lines
        OBVIOUS
      <3>2. PICK last \in good : RunFrom(first, good) = first..last
        BY <2>2, <2>5, <3>1, RunIsInterval
      <3>3. \A k \in RunFrom(first, good) : lines[k] \notin {"blank", "meta", "stop"}
        BY <2>5 DEF RunFrom
      <3>4. IsPiece(lines, RunFrom(first, good), first, last)
        BY <3>2, <3>3 DEF IsPiece
      <3>5. QED BY <2>2, <3>1, <3>4 DEF PieceFrom
    <2>6. CASE lines[first] # "fence"
      <3> DEFINE quoted == {k \in DOMAIN lines : lines[k] = "quote"}
                 plain == {k \in DOMAIN lines : /\ lines[k] \notin {"blank", "stop", "meta"}
                                                /\ k > first => ~IsGeneratedLabel(lines[k])}
      <3>1. BlockAfter(lines, start) \in {RunFrom(first, quoted), RunFrom(first, plain)}
        BY <2>3, <2>6 DEF BlockquoteContent, PlainContent
      <3>2. /\ quoted \in SUBSET {k \in DOMAIN lines : lines[k] \notin {"blank", "meta", "stop"}}
            /\ plain \in SUBSET {k \in DOMAIN lines : lines[k] \notin {"blank", "meta", "stop"}}
        OBVIOUS
      <3> HIDE DEF quoted, plain
      <3>3. /\ RunFrom(first, quoted) # {} => PieceFrom(lines, start, RunFrom(first, quoted))
            /\ RunFrom(first, plain) # {} => PieceFrom(lines, start, RunFrom(first, plain))
        BY <2>5, <3>2
      <3>4. QED BY <3>1, <3>3 DEF PieceFrom
    <2>7. QED BY <2>4, <2>6
  <1>5. QED BY <1>3, <1>4

LEMMA LineIsPiece ==
    ASSUME NEW lines \in Seq(LineKinds), NEW i \in DOMAIN lines, NEW start \in Nat, start =< i,
           lines[i] \notin {"blank", "meta", "stop"}
    PROVE  PieceFrom(lines, start, {i})
  <1>1. {i} = i..i
    OBVIOUS
  <1>2. IsPiece(lines, {i}, i, i)
    BY <1>1 DEF IsPiece
  <1>3. QED BY <1>2 DEF PieceFrom

LEMMA InlineIsPiece ==
    ASSUME NEW lines \in Seq(LineKinds), NEW i \in DOMAIN lines
    PROVE  PieceFrom(lines, i, Inline(lines, i))
  <1>1. CASE HasInlineContent(lines[i])
    <2>1. lines[i] \notin {"blank", "meta", "stop"}
      BY <1>1 DEF HasInlineContent
    <2>2. i \in Nat /\ i =< i
      OBVIOUS
    <2>3. PieceFrom(lines, i, {i})
      BY <2>1, <2>2, LineIsPiece
    <2>4. QED BY <1>1, <2>3 DEF Inline
  <1>2. CASE ~HasInlineContent(lines[i])
    BY <1>2 DEF Inline, PieceFrom
  <1>3. QED BY <1>1, <1>2

LEMMA LabelledPiece ==
    ASSUME NEW lines \in Seq(LineKinds), NEW i \in DOMAIN lines
    PROVE  PieceFrom(lines, i, InlineOrBlock(lines, i))
  <1>1. i \in Nat /\ i + 1 \in Nat /\ i + 1 > 0 /\ i =< i + 1
    OBVIOUS
  <1>2. PieceFrom(lines, i + 1, BlockAfter(lines, i + 1))
    BY <1>1, BlockIsPiece
  <1>3. PieceFrom(lines, i, BlockAfter(lines, i + 1))
    BY <1>1, <1>2, LowerPiece
  <1>4. QED BY <1>3, InlineIsPiece DEF InlineOrBlock, FirstOf

(* What follows a value label, below it. *)
LEMMA ExplicitIsPiece ==
    ASSUME NEW lines \in Seq(LineKinds), NEW start \in Nat, start > 0,
           ExplicitContent(lines, start) # {}
    PROVE  \E i \in start..Len(lines) : /\ i \in DOMAIN lines /\ IsValueLabel(lines[i])
                                        /\ PieceFrom(lines, i, ExplicitContent(lines, start))
  <1> DEFINE labels == {i \in start..Len(lines) : /\ IsValueLabel(lines[i])
                                                  /\ \A k \in start..i : lines[k] # "stop"}
             cut == {f \in {[at |-> i, content |-> InlineOrBlock(lines, i)] : i \in labels} :
                        Usable(lines, f.content)}
  <1>1. \A f \in cut : f.at \in labels /\ f.content = InlineOrBlock(lines, f.at)
    OBVIOUS
  <1>2. \A i \in labels : i \in Nat /\ i \in DOMAIN lines
    OBVIOUS
  <1>3. ExplicitContent(lines, start) = OfFirstLabel(cut)
    BY DEF ExplicitContent
  <1>4. \A i \in labels : i \in start..Len(lines) /\ IsValueLabel(lines[i])
    OBVIOUS
  <1> HIDE DEF cut, labels
  <1>5. cut # {}
    BY <1>3 DEF OfFirstLabel
  <1>6. \A f \in cut : f.at \in Nat
    BY <1>1, <1>2
  <1>7. PICK f \in cut : OfFirstLabel(cut) = f.content
    BY <1>5, <1>6, FirstLabelOf
  <1>8. PICK i \in labels : i = f.at
    BY <1>1
  <1>9. ExplicitContent(lines, start) = InlineOrBlock(lines, i)
    BY <1>1, <1>3, <1>7, <1>8
  <1>10. PieceFrom(lines, i, InlineOrBlock(lines, i))
    BY <1>2, LabelledPiece
  <1>11. QED BY <1>2, <1>4, <1>9, <1>10

LEMMA TableIsPiece ==
    ASSUME NEW lines \in Seq(LineKinds), NEW start \in Nat, start > 0
    PROVE  PieceFrom(lines, start, TableContent(lines, start))
  <1> DEFINE tables == {i \in start..(Len(lines) - 2) :
                           /\ lines[i] = "header"
                           /\ lines[i + 1] = "separator"
                           /\ IsTableLine(lines[i + 2])}
  <1>1. Len(lines) \in Nat /\ DOMAIN lines = 1..Len(lines)
    OBVIOUS
  <1>2. tables \in SUBSET Nat
    BY <1>1
  <1>3. TableContent(lines, start) = IF tables = {} THEN {} ELSE {Min(tables) + 2}
    BY DEF TableContent
  <1>4. \A i \in tables : i \in start..(Len(lines) - 2) /\ IsTableLine(lines[i + 2])
    OBVIOUS
  <1> HIDE DEF tables
  <1>5. CASE tables = {}
    BY <1>3, <1>5 DEF PieceFrom
  <1>6. CASE tables # {}
    <2>1. PICK i \in tables : i = Min(tables)
      BY <1>2, <1>6, MinOf
    <2>2. i + 2 \in DOMAIN lines /\ start =< i + 2
      BY <1>1, <1>4, <2>1
    <2>3. lines[i + 2] \notin {"blank", "meta", "stop"}
      BY <1>4, <2>1 DEF IsTableLine
    <2>4. PieceFrom(lines, start, {i + 2})
      BY <2>2, <2>3, LineIsPiece
    <2>5. QED BY <1>3, <1>6, <2>1, <2>4
  <1>7. QED BY <1>5, <1>6

LEMMA LabelsBlockIsPiece ==
    ASSUME NEW lines \in Seq(LineKinds), NEW i \in DOMAIN lines
    PROVE  PieceFrom(lines, i, BlockAfterLabel(lines, i))
  <1>1. i \in Nat /\ i + 1 \in Nat /\ i + 1 > 0 /\ i =< i + 1
    OBVIOUS
  <1>2. PieceFrom(lines, i, ExplicitContent(lines, i + 1))
    <2> SUFFICES ASSUME ExplicitContent(lines, i + 1) # {}
                 PROVE  PieceFrom(lines, i, ExplicitContent(lines, i + 1))
      BY DEF PieceFrom
    <2>1. PICK k \in (i + 1)..Len(lines) : PieceFrom(lines, k, ExplicitContent(lines, i + 1))
      BY <1>1, ExplicitIsPiece
    <2>2. k \in Nat /\ i =< k
      BY <1>1
    <2>3. QED BY <1>1, <2>1, <2>2, LowerPiece
  <1>3. PieceFrom(lines, i, TableContent(lines, i + 1))
    <2>1. PieceFrom(lines, i + 1, TableContent(lines, i + 1))
      BY <1>1, TableIsPiece
    <2>2. QED BY <1>1, <2>1, LowerPiece
  <1>4. PieceFrom(lines, i, BlockAfter(lines, i + 1))
    <2>1. PieceFrom(lines, i + 1, BlockAfter(lines, i + 1))
      BY <1>1, BlockIsPiece
    <2>2. QED BY <1>1, <2>1, LowerPiece
  <1>5. PieceFrom(lines, i, Inline(lines, i)) /\ PieceFrom(lines, i, {})
    BY InlineIsPiece DEF PieceFrom
  <1>6. BlockAfterLabel(lines, i) \in {Inline(lines, i), ExplicitContent(lines, i + 1),
                                       TableContent(lines, i + 1), BlockAfter(lines, i + 1), {}}
    BY DEF BlockAfterLabel, FirstOf, UsableOnly
  <1>7. QED BY <1>2, <1>3, <1>4, <1>5, <1>6

LEMMA PieceIsClean ==
    ASSUME NEW lines \in Seq(LineKinds), NEW i \in DOMAIN lines, NEW content, content # {},
           IsGeneratedLabel(lines[i]) \/ IsValueLabel(lines[i]), PieceFrom(lines, i, content)
    PROVE  CleanContent(lines, content)
  <1>1. PICK first, last \in DOMAIN lines : i =< first /\ IsPiece(lines, content, first, last)
    BY DEF PieceFrom
  <1>2. i \in 1..first
    BY <1>1
  <1>3. QED BY <1>1, <1>2 DEF CleanContent, IsPiece

LEMMA TextIsClean ==
    ASSUME NEW lines \in Seq(LineKinds), GeneratedContent(lines) # {}
    PROVE  CleanContent(lines, GeneratedContent(lines))
  <1>1. CASE ExplicitContent(lines, 1) # {}
    <2>1. GeneratedContent(lines) = ExplicitContent(lines, 1)
      BY <1>1 DEF GeneratedContent, FirstOf
    <2>2. PICK i \in 1..Len(lines) : /\ i \in DOMAIN lines /\ IsValueLabel(lines[i])
                                     /\ PieceFrom(lines, i, ExplicitContent(lines, 1))
      BY <1>1, ExplicitIsPiece
    <2>3. QED BY <2>1, <2>2, PieceIsClean
  <1>2. CASE ExplicitContent(lines, 1) = {}
    <2> DEFINE labels == {i \in DOMAIN lines : IsGeneratedLabel(lines[i])}
               cut == {f \in {[at |-> i, content |-> BlockAfterLabel(lines, i)] : i \in labels} :
                          f.content # {}}
    <2>1. GeneratedContent(lines) = OfFirstLabel(cut)
      BY <1>2 DEF GeneratedContent, FirstOf, LabelledContent
    <2>2. \A f \in cut : f.at \in labels /\ f.content = BlockAfterLabel(lines, f.at)
      OBVIOUS
    <2>3. \A i \in labels : i \in Nat /\ i \in DOMAIN lines /\ IsGeneratedLabel(lines[i])
      OBVIOUS
    <2> HIDE DEF cut, labels
    <2>4. cut # {}
      BY <2>1 DEF OfFirstLabel
    <2>5. \A f \in cut : f.at \in Nat
      BY <2>2, <2>3
    <2>6. PICK f \in cut : OfFirstLabel(cut) = f.content
      BY <2>4, <2>5, FirstLabelOf
    <2>7. PICK i \in labels : i = f.at
      BY <2>2
    <2>8. GeneratedContent(lines) = BlockAfterLabel(lines, i)
      BY <2>1, <2>2, <2>6, <2>7
    <2>9. PieceFrom(lines, i, BlockAfterLabel(lines, i))
      BY <2>3, LabelsBlockIsPiece
    <2>10. QED BY <2>3, <2>8, <2>9, PieceIsClean
  <1>3. QED BY <1>1, <1>2

LEMMA TextIsOfLines ==
    ASSUME NEW lines \in Seq(LineKinds)
    PROVE  GeneratedContent(lines) \subseteq Nat
  <1> SUFFICES ASSUME GeneratedContent(lines) # {} PROVE GeneratedContent(lines) \subseteq Nat
    OBVIOUS
  <1>1. PICK first, last \in DOMAIN lines : GeneratedContent(lines) = first..last
    BY TextIsClean DEF CleanContent
  <1>2. first \in Nat /\ last \in Nat /\ first..last \subseteq Nat
    OBVIOUS
  <1>3. QED BY <1>1, <1>2

-------------------------------------------------------------------------------
(* Proposals *)

ActionTypes ==
    {"doc_append", "sheet_write", "bitable_create", "bitable_update", "bitable_delete",
     "message_send"}

(* The request has, or what was read for it is, a resource of this type. *)
Names(r, id, type) ==
    \/ \E i \in DOMAIN r.results : r.results[i].ref.id = id /\ r.results[i].ref.type = type
    \/ \E i \in DOMAIN r.refs : r.refs[i].id = id /\ r.refs[i].type = type

(* A proposal, whatever its preview says. *)
Draft(r, p) ==
    /\ p = [type |-> p.type, ref |-> p.ref, sheet |-> p.sheet, start |-> p.start,
            cell |-> p.cell, record |-> p.record, field |-> p.field, content |-> p.content,
            preview |-> p.preview, shown |-> p.shown]
    /\ p.type \in ActionTypes
    /\ p.content.lines \subseteq Nat
    /\ p.type # "message_send" => Names(r, p.ref, TypeOfAction(p))

(* One with a preview of what it writes. *)
Sound(r, p) == Draft(r, p) /\ p.preview = Shows(p.preview.by, p)

LEMMA FieldsMayChange ==
    ASSUME NEW r, NEW p, Draft(r, p), NEW value
    PROVE  /\ Draft(r, [p EXCEPT !.start = value]) /\ [p EXCEPT !.start = value].type = p.type
           /\ Draft(r, [p EXCEPT !.cell = value]) /\ [p EXCEPT !.cell = value].type = p.type
           /\ Draft(r, [p EXCEPT !.record = value]) /\ [p EXCEPT !.record = value].type = p.type
           /\ Draft(r, [p EXCEPT !.field = value]) /\ [p EXCEPT !.field = value].type = p.type
           /\ \A field : Draft(r, [p EXCEPT !.record = value, !.field = field])
           /\ value.lines \subseteq Nat =>
                  Draft(r, [p EXCEPT !.content = value]) /\ [p EXCEPT !.content = value].type = p.type
  <1> DEFINE With(start, cell, record, field, content) ==
                 [type |-> p.type, ref |-> p.ref, sheet |-> p.sheet, start |-> start,
                  cell |-> cell, record |-> record, field |-> field, content |-> content,
                  preview |-> p.preview, shown |-> p.shown]
  <1>1. ASSUME NEW start, NEW cell, NEW record, NEW field, NEW content,
               content.lines \subseteq Nat
        PROVE  LET q == With(start, cell, record, field, content)
               IN  Draft(r, q) /\ q.type = p.type
    <2> DEFINE q == With(start, cell, record, field, content)
    <2>1. /\ q.type = p.type /\ q.ref = p.ref /\ q.content = content
          /\ q = [type |-> q.type, ref |-> q.ref, sheet |-> q.sheet, start |-> q.start,
                  cell |-> q.cell, record |-> q.record, field |-> q.field,
                  content |-> q.content, preview |-> q.preview, shown |-> q.shown]
      OBVIOUS
    <2> HIDE DEF With, q
    <2>2. TypeOfAction(q) = TypeOfAction(p)
      BY <2>1 DEF TypeOfAction
    <2>3. Draft(r, q)
      BY <1>1, <2>1, <2>2 DEF Draft
    <2>4. QED BY <2>1, <2>3 DEF q
  <1>2. p = With(p.start, p.cell, p.record, p.field, p.content) /\ p.content.lines \subseteq Nat
    BY DEF Draft
  <1>3. [p EXCEPT !.start = value] = With(value, p.cell, p.record, p.field, p.content)
    BY <1>2
  <1>4. [p EXCEPT !.cell = value] = With(p.start, value, p.record, p.field, p.content)
    BY <1>2
  <1>5. [p EXCEPT !.record = value] = With(p.start, p.cell, value, p.field, p.content)
    BY <1>2
  <1>6. [p EXCEPT !.field = value] = With(p.start, p.cell, p.record, value, p.content)
    BY <1>2
  <1>7. ASSUME NEW field
        PROVE  [p EXCEPT !.record = value, !.field = field] =
                   With(p.start, p.cell, value, field, p.content)
    <2>1. [p EXCEPT !.record = value, !.field = field] =
              [[p EXCEPT !.record = value] EXCEPT !.field = field]
      OBVIOUS
    <2>2. [[p EXCEPT !.record = value] EXCEPT !.field = field] =
              [With(p.start, p.cell, value, p.field, p.content) EXCEPT !.field = field]
      BY <1>5, Zenon
    <2>3. [With(p.start, p.cell, value, p.field, p.content) EXCEPT !.field = field] =
              With(p.start, p.cell, value, field, p.content)
      OBVIOUS
    <2>4. QED BY <2>1, <2>2, <2>3
  <1>8. [p EXCEPT !.content = value] = With(p.start, p.cell, p.record, p.field, value)
    BY <1>2
  <1> HIDE DEF With
  <1>9. \A start, cell, record, field, content : content.lines \subseteq Nat =>
            /\ Draft(r, With(start, cell, record, field, content))
            /\ With(start, cell, record, field, content).type = p.type
    BY <1>1
  <1>10. \A field : Draft(r, [p EXCEPT !.record = value, !.field = field])
    <2>1. ASSUME NEW field PROVE Draft(r, [p EXCEPT !.record = value, !.field = field])
      <3>1. Draft(r, With(p.start, p.cell, value, field, p.content))
        BY <1>2, <1>9
      <3>2. QED BY <1>7, <3>1
    <2>2. QED BY <2>1
  <1>11. /\ Draft(r, [p EXCEPT !.start = value]) /\ [p EXCEPT !.start = value].type = p.type
         /\ Draft(r, [p EXCEPT !.cell = value]) /\ [p EXCEPT !.cell = value].type = p.type
    BY <1>2, <1>3, <1>4, <1>9
  <1>12. /\ Draft(r, [p EXCEPT !.record = value]) /\ [p EXCEPT !.record = value].type = p.type
         /\ Draft(r, [p EXCEPT !.field = value]) /\ [p EXCEPT !.field = value].type = p.type
    BY <1>2, <1>5, <1>6, <1>9
  <1>13. value.lines \subseteq Nat =>
             Draft(r, [p EXCEPT !.content = value]) /\ [p EXCEPT !.content = value].type = p.type
    BY <1>8, <1>9
  <1>14. QED BY <1>10, <1>11, <1>12, <1>13

LEMMA PreviewIsMade ==
    ASSUME NEW r, NEW p, Draft(r, p)
    PROVE  /\ Sound(r, Previewed(p)) /\ Previewed(p).type = p.type
           /\ Previewed(p).content = p.content
           /\ \A plan : Sound(r, Worded(plan, p)) /\ Worded(plan, p).type = p.type
  <1>1. ASSUME NEW by
        PROVE  LET q == [p EXCEPT !.preview = Shows(by, p)]
               IN  Sound(r, q) /\ q.type = p.type /\ q.content = p.content
    BY DEF Sound, Draft, Shows, TypeOfAction
  <1>2. QED BY <1>1 DEF Previewed, Worded

LEMMA ProposalIsDraft ==
    ASSUME NEW r, NEW type \in ActionTypes, NEW ref, NEW content, content.lines \subseteq Nat,
           type # "message_send" =>
               \A p : p.type = type => Names(r, ref.id, TypeOfAction(p))
    PROVE  /\ Draft(r, Proposal(type, ref, content))
           /\ Proposal(type, ref, content).type = type
           /\ Proposal(type, ref, content).content = content
  <1> DEFINE p == [type |-> type, ref |-> ref.id, sheet |-> ref.sheet, start |-> FALSE,
                   cell |-> NoCell, record |-> "none", field |-> "none", content |-> content,
                   preview |-> <<>>, shown |-> "none"]
  <1>1. Draft(r, p) /\ p.type = type /\ p.content = content
    BY DEF Draft
  <1>2. Proposal(type, ref, content) = Previewed(p)
    BY DEF Proposal
  <1> HIDE DEF p
  <1>3. QED BY <1>1, <1>2, PreviewIsMade DEF Sound

-------------------------------------------------------------------------------
(* Plans *)

(* What is written to is the first result that can be written to, or else a link. *)
LEMMA WritableIsFound ==
    ASSUME NEW r \in RequestType, NEW type
    PROVE  LET ref == FirstWritable(r, type)
               Fits(i) == r.results[i].ref.type = type /\ (r.results[i].error => type = "bitable")
           IN  \/ ref = NoRef
               \/ \E i \in DOMAIN r.results :
                     /\ ref = r.results[i].ref /\ Fits(i)
                     /\ \A j \in DOMAIN r.results : Fits(j) => i =< j
               \/ /\ \A j \in DOMAIN r.results : ~Fits(j)
                  /\ \E i \in DOMAIN r.refs : ref = r.refs[i] /\ r.refs[i].type = type
  <1> DEFINE readAt == {i \in 1..Len(r.results) :
                           /\ r.results[i].ref.type = type
                           /\ r.results[i].error => type = "bitable"}
             linkAt == {i \in 1..Len(r.refs) : r.refs[i].type = type /\ r.refs[i].kind # "wiki"}
             read == IF readAt # {} THEN Min(readAt) ELSE 0
             link == IF linkAt # {} THEN Min(linkAt) ELSE 0
  <1>1. r.results \in Seq(ResultType) /\ r.refs \in Seq(KnownRefType)
    BY DEF RequestType
  <1>2. FirstWritable(r, type) =
            IF read > 0 THEN r.results[read].ref ELSE IF link > 0 THEN r.refs[link] ELSE NoRef
    BY DEF FirstWritable, SelectInSeq
  <1>3. \A j \in DOMAIN r.results :
            r.results[j].ref.type = type /\ (r.results[j].error => type = "bitable")
                => j \in readAt
    BY <1>1
  <1>4. readAt # {} =>
            /\ read > 0 /\ read \in DOMAIN r.results
            /\ r.results[read].ref.type = type /\ (r.results[read].error => type = "bitable")
            /\ \A j \in readAt : read =< j
    <2> SUFFICES ASSUME readAt # {}
                 PROVE  /\ Min(readAt) > 0 /\ Min(readAt) \in DOMAIN r.results
                        /\ r.results[Min(readAt)].ref.type = type
                        /\ r.results[Min(readAt)].error => type = "bitable"
                        /\ \A j \in readAt : Min(readAt) =< j
      OBVIOUS
    <2>1. readAt \in SUBSET (1..Len(r.results)) /\ readAt \in SUBSET Nat
      OBVIOUS
    <2>2. \A i \in readAt :
              r.results[i].ref.type = type /\ (r.results[i].error => type = "bitable")
      OBVIOUS
    <2> HIDE DEF readAt
    <2>3. Min(readAt) \in readAt /\ Min(readAt) \in DOMAIN r.results /\ Min(readAt) > 0
      BY <1>1, <2>1, PlaceOf
    <2>4. PICK n \in readAt : \A m \in readAt : n =< m
      BY <2>1, LeastOf
    <2>5. \A j \in readAt : Min(readAt) =< j
      BY <2>4 DEF Min
    <2>6. QED BY <2>2, <2>3, <2>5
  <1>5. link > 0 => link \in DOMAIN r.refs /\ r.refs[link].type = type
    <2>1. linkAt \in SUBSET (1..Len(r.refs))
      OBVIOUS
    <2> HIDE DEF linkAt
    <2>2. linkAt # {} => Min(linkAt) \in linkAt /\ Min(linkAt) \in DOMAIN r.refs
      BY <1>1, <2>1, PlaceOf
    <2>3. linkAt # {} => r.refs[Min(linkAt)].type = type
      BY <2>2 DEF linkAt
    <2>4. QED BY <2>2, <2>3
  <1>6. readAt = {} => ~(read > 0)
    OBVIOUS
  <1> HIDE DEF readAt, read, link
  <1>7. CASE readAt # {}
    <2>1. FirstWritable(r, type) = r.results[read].ref
      BY <1>2, <1>4, <1>7
    <2>2. QED BY <1>3, <1>4, <1>7, <2>1
  <1>8. CASE readAt = {}
    <2>1. \A j \in DOMAIN r.results :
              ~(r.results[j].ref.type = type /\ (r.results[j].error => type = "bitable"))
      BY <1>3, <1>8
    <2>2. CASE link > 0
      <3>1. FirstWritable(r, type) = r.refs[link]
        BY <1>2, <1>6, <1>8, <2>2
      <3>2. QED BY <1>5, <2>1, <2>2, <3>1
    <2>3. CASE ~(link > 0)
      BY <1>2, <1>6, <1>8, <2>3
    <2>4. QED BY <2>2, <2>3
  <1>9. QED BY <1>7, <1>8

(* What is written to is one of the request's resources. *)
LEMMA WritableIsNamed ==
    ASSUME NEW r \in RequestType, NEW type
    PROVE  LET ref == FirstWritable(r, type) IN ref # NoRef => Names(r, ref.id, type)
  <1> DEFINE ref == FirstWritable(r, type)
  <1>1. \/ ref = NoRef
        \/ \E i \in DOMAIN r.results : ref = r.results[i].ref /\ r.results[i].ref.type = type
        \/ \E i \in DOMAIN r.refs : ref = r.refs[i] /\ r.refs[i].type = type
    BY WritableIsFound
  <1> HIDE DEF ref
  <1>2. ref # NoRef => Names(r, ref.id, type)
    BY <1>1 DEF Names
  <1>3. QED BY <1>2 DEF ref

(* A step that proposes nothing, or one sound proposal. *)
One(r, made) == made = <<>> \/ \E p : made = <<p>> /\ Sound(r, p)

LEMMA PlanIsSound ==
    ASSUME NEW r \in RequestType, NEW plan \in PlanType, plan.type # "none"
    PROVE  One(r, PlanProposal(r, plan))
  <1> DEFINE ref == FirstWritable(r, plan.type)
  <1>1. plan.content.lines \subseteq Nat /\ NoContent.lines \subseteq Nat
    BY DEF PlanType, ContentType, NoContent, Content
  <1>2. ref # NoRef => Names(r, ref.id, plan.type)
    BY WritableIsNamed
  <1>3. PlanProposal(r, plan) = PlanProposalTo(r, plan, ref)
    BY DEF PlanProposal
  <1> HIDE DEF ref
  <1>4. CASE plan.type = "doc"
    <2>1. PlanProposal(r, plan) = DocPlanProposal(plan, ref)
      BY <1>3, <1>4 DEF PlanProposalTo
    <2>2. ref # NoRef => Draft(r, Proposal("doc_append", ref, plan.content))
      BY <1>1, <1>2, <1>4, ProposalIsDraft DEF ActionTypes, TypeOfAction
    <2>3. QED BY <2>1, <2>2, PreviewIsMade DEF DocPlanProposal, One
  <1>5. CASE plan.type = "sheet"
    <2>1. PICK cell : PlanProposal(r, plan) = SheetPlanProposal(plan, ref, cell)
      BY <1>3, <1>5 DEF PlanProposalTo
    <2>2. ref # NoRef => Draft(r, Proposal("sheet_write", ref, plan.content))
      BY <1>1, <1>2, <1>5, ProposalIsDraft DEF ActionTypes, TypeOfAction
    <2>3. ref # NoRef =>
              Draft(r, [Proposal("sheet_write", ref, plan.content) EXCEPT !.cell = cell])
      BY <2>2, FieldsMayChange
    <2>4. QED BY <2>1, <2>3, PreviewIsMade DEF SheetPlanProposal, One
  <1>6. CASE plan.type = "bitable"
    <2>1. PICK record, field :
              PlanProposal(r, plan) = BitablePlanProposal(plan, ref, record, field)
      BY <1>3, <1>6 DEF PlanProposalTo
    <2>2. ref # NoRef => /\ Draft(r, Proposal("bitable_delete", ref, NoContent))
                         /\ Draft(r, Proposal("bitable_update", ref, plan.content))
                         /\ Draft(r, Proposal("bitable_create", ref, plan.content))
      BY <1>1, <1>2, <1>6, ProposalIsDraft DEF ActionTypes, TypeOfAction
    <2>3. ref # NoRef =>
              /\ Draft(r, [Proposal("bitable_delete", ref, NoContent) EXCEPT !.record = record])
              /\ Draft(r, [Proposal("bitable_update", ref, plan.content)
                              EXCEPT !.record = record, !.field = field])
              /\ Draft(r, [Proposal("bitable_create", ref, plan.content) EXCEPT !.field = field])
      BY <2>2, FieldsMayChange
    <2>4. CASE BitablePlanProposal(plan, ref, record, field) = <<>>
      BY <2>1, <2>4 DEF One
    <2>5. ASSUME NEW p, Draft(r, p), BitablePlanProposal(plan, ref, record, field) = <<Worded(plan, p)>>
          PROVE  One(r, PlanProposal(r, plan))
      BY <2>1, <2>5, PreviewIsMade DEF One
    <2>6. QED BY <2>3, <2>4, <2>5 DEF BitablePlanProposal
  <1>7. CASE plan.type = "message"
    <2>1. PlanProposal(r, plan) = MessagePlanProposal(plan)
      BY <1>3, <1>7 DEF PlanProposalTo
    <2>2. Draft(r, Proposal("message_send", [NoRef EXCEPT !.id = "chat"], plan.content))
      BY <1>1, ProposalIsDraft DEF ActionTypes
    <2>3. QED BY <2>1, <2>2, PreviewIsMade DEF MessagePlanProposal, One
  <1>8. QED BY <1>4, <1>5, <1>6, <1>7 DEF PlanType

-------------------------------------------------------------------------------
(* Inference *)

LEMMA ContentIsOfLines ==
    ASSUME NEW text \in TextType, NEW lines \in Seq(LineKinds), NEW content,
           content.lines \subseteq Nat
    PROVE  /\ OfAnswer(GeneratedContent(lines)).lines \subseteq Nat
           /\ ContentOr(text.quoted, ContentOr(OfAnswer(GeneratedContent(lines)), content)).lines
                  \subseteq Nat
           /\ text.unquoted.lines \subseteq Nat
  <1>1. text.quoted.lines \subseteq Nat /\ text.unquoted.lines \subseteq Nat
    BY DEF TextType, ContentType
  <1>2. \A S : S \subseteq Nat => OfAnswer(S).lines \subseteq Nat
    BY DEF OfAnswer, NoContent, Content
  <1>3. OfAnswer(GeneratedContent(lines)).lines \subseteq Nat
    BY <1>2, TextIsOfLines
  <1>4. QED BY <1>1, <1>3 DEF ContentOr

LEMMA InferenceIsSound ==
    ASSUME NEW r \in RequestType, NEW answer, answer.prose \in ProseType
    PROVE  /\ One(r, InferWriteback(r, answer))
           /\ InferWriteback(r, answer) # <<>> =>
                  HasWritebackIntent(ContextualWritebackText(r))
  <1> DEFINE text == ContextualWritebackText(r)
             prose == answer.prose
             content == WritebackContent(text, prose)
             operation == ModelOperation(ModelPlans(answer), prose)
             doc == FirstWritable(r, "doc")
             sheet == FirstWritable(r, "sheet")
             bitable == FirstWritable(r, "bitable")
             table == TableOf(r, bitable)
             cell == SheetWriteRange(r, sheet, prose)
             update == InferredUpdate(r, prose, operation, table)
             field == InferredField(r, prose, operation, table)
             made == InferWriteback(r, answer)
  <1>1. content.lines \subseteq Nat
    <2>1. text \in TextType /\ prose.lines \in Seq(LineKinds)
      BY TextsAreTyped DEF ProseType
    <2>2. PICK t \in TextType, lines \in Seq(LineKinds) : t = text /\ lines = prose.lines
      BY <2>1
    <2>3. t.unquoted.lines \subseteq Nat
      <3>1. NoContent.lines \subseteq Nat
        BY DEF NoContent, Content
      <3>2. QED BY <3>1, ContentIsOfLines
    <2>4. ContentOr(t.quoted, ContentOr(OfAnswer(GeneratedContent(lines)), t.unquoted)).lines
              \subseteq Nat
      BY <2>3, ContentIsOfLines
    <2>5. QED BY <2>2, <2>4 DEF WritebackContent
  <1>2. made = InferInto(r, text, content, prose, operation)
    BY DEF InferWriteback
  <1>3. \/ made = <<>>
        \/ /\ HasWritebackIntent(text)
           /\ \/ doc # NoRef /\ made = InferDoc(text, doc, content, operation)
              \/ sheet # NoRef /\ made = InferSheet(sheet, content, cell)
              \/ bitable # NoRef /\ made = InferBitable(bitable, content, update, field)
    <2> HIDE DEF text, prose, content, operation, made
    <2> QED BY <1>2 DEF InferInto
  <1>4. /\ doc # NoRef => Draft(r, Proposal("doc_append", doc, content))
        /\ sheet # NoRef => Draft(r, Proposal("sheet_write", sheet, content))
        /\ bitable # NoRef => Draft(r, Proposal("bitable_update", bitable, content))
        /\ bitable # NoRef => Draft(r, Proposal("bitable_create", bitable, content))
    <2>1. /\ doc # NoRef => Names(r, doc.id, "doc")
          /\ sheet # NoRef => Names(r, sheet.id, "sheet")
          /\ bitable # NoRef => Names(r, bitable.id, "bitable")
      BY WritableIsNamed
    <2> HIDE DEF doc, sheet, bitable, content
    <2>2. QED BY <1>1, <2>1, ProposalIsDraft DEF ActionTypes, TypeOfAction
  <1> HIDE DEF text, prose, content, operation, doc, sheet, bitable, table, cell, update, field, made
  <1>5. One(r, made)
    <2>1. CASE doc # NoRef /\ made = InferDoc(text, doc, content, operation)
      <3>1. Draft(r, [Proposal("doc_append", doc, content) EXCEPT !.start = text.start])
        BY <1>4, <2>1, FieldsMayChange
      <3>2. QED BY <2>1, <3>1, PreviewIsMade DEF InferDoc, One
    <2>2. CASE sheet # NoRef /\ made = InferSheet(sheet, content, cell)
      <3>1. Draft(r, [Proposal("sheet_write", sheet, content) EXCEPT !.cell = cell])
        BY <1>4, <2>2, FieldsMayChange
      <3>2. QED BY <2>2, <3>1, PreviewIsMade DEF InferSheet, One
    <2>3. CASE bitable # NoRef /\ made = InferBitable(bitable, content, update, field)
      <3>1. /\ Draft(r, [Proposal("bitable_update", bitable, content)
                            EXCEPT !.record = update.record, !.field = update.field])
            /\ Draft(r, [Proposal("bitable_create", bitable, content) EXCEPT !.field = field])
        BY <1>4, <2>3, FieldsMayChange
      <3>2. QED BY <2>3, <3>1, PreviewIsMade DEF InferBitable, UpdateOf, One
    <2>4. QED BY <1>3, <2>1, <2>2, <2>3 DEF One
  <1>6. QED BY <1>3, <1>5 DEF made, text

-------------------------------------------------------------------------------
(* Corrections *)

Placed(r, p) == p.type = "doc_append" => ~ContextualWritebackText(r).asset

(* Where the user quoted what to write, this is what is written. *)
Quotes(r, p) ==
    LET quoted == ContextualWritebackText(r).quoted
    IN  HasContent(p) /\ quoted # NoContent => p.content = quoted

LEMMA ContentIsReplaced ==
    ASSUME NEW r \in RequestType, NEW p, Sound(r, p), NEW prose, prose.lines \in Seq(LineKinds)
    PROVE  LET q == NormalizeContent(r, p, prose) IN Sound(r, q) /\ q.type = p.type /\ Quotes(r, q)
  <1> DEFINE text == ContextualWritebackText(r)
             content == ContentOr(text.quoted,
                                  ContentOr(OfAnswer(GeneratedContent(prose.lines)), p.content))
             q == NormalizeContent(r, p, prose)
  <1>1. Draft(r, p) /\ p.content.lines \subseteq Nat
    BY DEF Sound, Draft
  <1>2. content.lines \subseteq Nat
    BY <1>1, TextsAreTyped, ContentIsOfLines
  <1>3. q = p \/ q = Previewed([p EXCEPT !.content = content])
    BY DEF NormalizeContent, WithContent
  <1> HIDE DEF content, q
  <1>4. Draft(r, [p EXCEPT !.content = content]) /\ [p EXCEPT !.content = content].type = p.type
    BY <1>1, <1>2, FieldsMayChange
  <1>5. Sound(r, q) /\ q.type = p.type
    BY <1>3, <1>4, PreviewIsMade
  <1>6. Quotes(r, q)
    <2> SUFFICES ASSUME HasContent(q), text.quoted # NoContent PROVE q.content = text.quoted
      BY DEF Quotes
    <2>1. HasContent(p) /\ content = text.quoted
      BY <1>5 DEF HasContent, ContentOr, content
    <2>2. q = WithContent(p, content)
      BY <2>1 DEF NormalizeContent, q, content
    <2>3. [p EXCEPT !.content = content].content = content
      BY <1>1 DEF Draft
    <2>4. Previewed([p EXCEPT !.content = content]).content = content
      <3> DEFINE d == [p EXCEPT !.content = content]
      <3>1. d.content = content /\ Draft(r, d)
        BY <1>4, <2>3
      <3> HIDE DEF d
      <3>2. Previewed(d).content = d.content
        BY <3>1, PreviewIsMade
      <3>3. QED BY <3>1, <3>2 DEF d
    <2>5. QED BY <2>1, <2>2, <2>4 DEF WithContent
  <1>7. QED BY <1>5, <1>6 DEF q

LEMMA BitableTargetIsSound ==
    ASSUME NEW r \in RequestType, NEW p, Sound(r, p), Quotes(r, p), NEW prose,
           p.type \in {"bitable_create", "bitable_update", "bitable_delete"}
    PROVE  LET q == NormalizeBitableTarget(r, p, prose, FirstWritable(r, "bitable"))
           IN  Sound(r, q) /\ q.type # "doc_append" /\ Quotes(r, q)
  <1> DEFINE ref == FirstWritable(r, "bitable")
             q == NormalizeBitableTarget(r, p, prose, ref)
  <1>1. Draft(r, p) /\ p.content.lines \subseteq Nat /\ Names(r, p.ref, "bitable")
    BY DEF Sound, Draft, TypeOfAction
  <1>2. ref # NoRef => Names(r, ref.id, "bitable")
    BY WritableIsNamed
  <1>3. \/ q = p
        \/ /\ p.type # "bitable_delete"
           /\ \/ q = Previewed([p EXCEPT !.type = "bitable_create", !.record = "none"])
              \/ ref # NoRef /\ \E update : q = UpdateOf(ref, p.content, update)
    BY DEF NormalizeBitableTarget, Created, Updated
  <1>4. Draft(r, [p EXCEPT !.type = "bitable_create", !.record = "none"])
        /\ [p EXCEPT !.type = "bitable_create", !.record = "none"].type = "bitable_create"
        /\ [p EXCEPT !.type = "bitable_create", !.record = "none"].content = p.content
    <2> DEFINE d == [p EXCEPT !.type = "bitable_create", !.record = "none"]
    <2>1. /\ p = [type |-> p.type, ref |-> p.ref, sheet |-> p.sheet, start |-> p.start,
                  cell |-> p.cell, record |-> p.record, field |-> p.field,
                  content |-> p.content, preview |-> p.preview, shown |-> p.shown]
      BY <1>1 DEF Draft
    <2>2. d = [type |-> "bitable_create", ref |-> p.ref, sheet |-> p.sheet, start |-> p.start,
               cell |-> p.cell, record |-> "none", field |-> p.field,
               content |-> p.content, preview |-> p.preview, shown |-> p.shown]
      <3> DEFINE e == [p EXCEPT !.type = "bitable_create"]
      <3>1. e = [type |-> "bitable_create", ref |-> p.ref, sheet |-> p.sheet,
                 start |-> p.start, cell |-> p.cell, record |-> p.record, field |-> p.field,
                 content |-> p.content, preview |-> p.preview, shown |-> p.shown]
        BY <2>1
      <3>2. d = [e EXCEPT !.record = "none"]
        OBVIOUS
      <3> HIDE DEF e
      <3>3. QED BY <3>1, <3>2
    <2> HIDE DEF d
    <2>3. TypeOfAction(d) = "bitable"
      BY <2>2 DEF TypeOfAction
    <2>4. QED BY <1>1, <2>2, <2>3 DEF Draft, ActionTypes, d
  <1>5. ASSUME NEW update, ref # NoRef
        PROVE  Sound(r, UpdateOf(ref, p.content, update))
               /\ UpdateOf(ref, p.content, update).type = "bitable_update"
               /\ UpdateOf(ref, p.content, update).content = p.content
    <2> DEFINE d == Proposal("bitable_update", ref, p.content)
    <2>1. Draft(r, d) /\ d.type = "bitable_update" /\ d.content = p.content
      <3>1. \A x : x.type = "bitable_update" => Names(r, ref.id, TypeOfAction(x))
        BY <1>2, <1>5 DEF TypeOfAction
      <3>2. "bitable_update" \in ActionTypes
        BY DEF ActionTypes
      <3>3. PICK content : content = p.content
        OBVIOUS
      <3> HIDE DEF ref
      <3>4. /\ Draft(r, Proposal("bitable_update", ref, content))
            /\ Proposal("bitable_update", ref, content).type = "bitable_update"
            /\ Proposal("bitable_update", ref, content).content = content
        BY <1>1, <3>1, <3>2, <3>3, ProposalIsDraft
      <3>5. QED BY <3>3, <3>4
    <2> DEFINE e == [d EXCEPT !.record = update.record, !.field = update.field]
    <2>2. UpdateOf(ref, p.content, update) = Previewed(e)
      BY DEF UpdateOf
    <2>3. e.type = d.type /\ e.content = d.content
      <3>1. d = [type |-> d.type, ref |-> d.ref, sheet |-> d.sheet, start |-> d.start,
                 cell |-> d.cell, record |-> d.record, field |-> d.field,
                 content |-> d.content, preview |-> d.preview, shown |-> d.shown]
        BY <2>1 DEF Draft
      <3> HIDE DEF d
      <3>2. QED BY <3>1
    <2> HIDE DEF d
    <2>4. Draft(r, e)
      BY <2>1, FieldsMayChange
    <2> HIDE DEF e
    <2>5. QED BY <2>1, <2>2, <2>3, <2>4, PreviewIsMade
  <1> HIDE DEF ref, q
  <1>6. Sound(r, q) /\ q.type # "doc_append"
    BY <1>3, <1>4, <1>5, PreviewIsMade
  <1>7. q = p \/ (HasContent(p) /\ q.content = p.content)
    BY <1>3, <1>4, <1>5, PreviewIsMade DEF HasContent
  <1>8. Quotes(r, q)
    BY <1>7 DEF Quotes
  <1>9. QED BY <1>6, <1>8 DEF ref, q

LEMMA CorrectionIsSound ==
    ASSUME NEW r \in RequestType, NEW p, Sound(r, p), NEW prose, prose.lines \in Seq(LineKinds)
    PROVE  \/ Normalize(r, p, prose) = <<>>
           \/ \E q : Normalize(r, p, prose) = <<q>> /\ Sound(r, q) /\ Placed(r, q) /\ Quotes(r, q)
  <1> DEFINE c == NormalizeContent(r, p, prose)
             made == Normalize(r, p, prose)
  <1>1. Sound(r, c) /\ Quotes(r, c) /\ c.type = p.type /\ c.type \in ActionTypes /\ Draft(r, c)
    BY ContentIsReplaced DEF Sound, Draft
  <1>2. made = NormalizeTarget(r, c, prose)
    BY DEF Normalize
  <1> HIDE DEF c, made
  <1>3. CASE c.type = "doc_append"
    <2>1. made = NormalizeDocTarget(r, c)
      BY <1>2, <1>3 DEF NormalizeTarget
    <2>2. /\ Sound(r, Previewed([c EXCEPT !.start = TRUE]))
          /\ Previewed([c EXCEPT !.start = TRUE]).type = c.type
          /\ Quotes(r, Previewed([c EXCEPT !.start = TRUE]))
      <3>1. Draft(r, [c EXCEPT !.start = TRUE]) /\ [c EXCEPT !.start = TRUE].type = c.type
        BY <1>1, FieldsMayChange
      <3>2. [c EXCEPT !.start = TRUE].content = c.content
        BY <1>1 DEF Draft
      <3>3. Previewed([c EXCEPT !.start = TRUE]).type = c.type
            /\ Previewed([c EXCEPT !.start = TRUE]).content = c.content
        BY <3>1, <3>2, PreviewIsMade
      <3>4. Quotes(r, Previewed([c EXCEPT !.start = TRUE]))
        BY <1>1, <3>3 DEF Quotes, HasContent
      <3>5. QED BY <3>1, <3>4, PreviewIsMade
    <2>3. QED BY <1>1, <2>1, <2>2 DEF NormalizeDocTarget, Placed, made
  <1>4. CASE c.type = "sheet_write"
    <2>1. PICK cell : made = <<WithCell(c, cell)>>
      BY <1>2, <1>4 DEF NormalizeTarget, NormalizeSheetTarget
    <2>2. /\ Sound(r, Previewed([c EXCEPT !.cell = cell]))
          /\ Previewed([c EXCEPT !.cell = cell]).type = c.type
          /\ Quotes(r, Previewed([c EXCEPT !.cell = cell]))
      <3>1. Draft(r, [c EXCEPT !.cell = cell]) /\ [c EXCEPT !.cell = cell].type = c.type
        BY <1>1, FieldsMayChange
      <3>2. [c EXCEPT !.cell = cell].content = c.content
        BY <1>1 DEF Draft
      <3>3. Previewed([c EXCEPT !.cell = cell]).type = c.type
            /\ Previewed([c EXCEPT !.cell = cell]).content = c.content
        BY <3>1, <3>2, PreviewIsMade
      <3>4. Quotes(r, Previewed([c EXCEPT !.cell = cell]))
        BY <1>1, <3>3 DEF Quotes, HasContent
      <3>5. QED BY <3>1, <3>4, PreviewIsMade
    <2>3. QED BY <1>1, <1>4, <2>1, <2>2 DEF WithCell, Placed, made
  <1>5. CASE c.type = "message_send"
    <2>1. made = <<c>>
      BY <1>2, <1>5 DEF NormalizeTarget
    <2>2. QED BY <1>1, <1>5, <2>1 DEF Placed, made
  <1>6. CASE c.type \in {"bitable_create", "bitable_update", "bitable_delete"}
    <2> DEFINE q == NormalizeBitableTarget(r, c, prose, FirstWritable(r, "bitable"))
    <2>1. made = <<q>>
      BY <1>2, <1>6 DEF NormalizeTarget
    <2>2. Sound(r, q) /\ q.type # "doc_append" /\ Quotes(r, q)
      BY <1>1, <1>6, BitableTargetIsSound
    <2> HIDE DEF q
    <2>3. QED BY <2>1, <2>2 DEF Placed, made
  <1>7. QED BY <1>1, <1>3, <1>4, <1>5, <1>6 DEF ActionTypes

-------------------------------------------------------------------------------
(* From an answer to the proposals *)

(* Of steps that make one proposal or none, nothing but these proposals is left. *)
LEMMA PresentOnes ==
    ASSUME NEW T, NEW made \in Seq(T)
    PROVE  Present(made) \in Seq({made[i][1] : i \in {k \in DOMAIN made : made[k] # <<>>}})
  <1> DEFINE at == {i \in DOMAIN made : made[i] # <<>>}
             some == Those(made, at)
  <1>1. at \in SUBSET DOMAIN made
    OBVIOUS
  <1>2. Present(made) = [i \in DOMAIN some |-> some[i][1]]
    BY DEF Present
  <1> DEFINE S == {made[i] : i \in at}
             P == {made[i][1] : i \in at}
  <1> HIDE DEF at, some
  <1>3. some \in Seq(S)
    BY <1>1, ThoseThereAre DEF some
  <1>4. \A m \in S : m[1] \in P
    OBVIOUS
  <1> HIDE DEF S, P
  <1>5. DOMAIN some = 1..Len(some) /\ Len(some) \in Nat /\ \A i \in DOMAIN some : some[i] \in S
    BY <1>3
  <1>6. Present(made) \in Seq(P)
    BY <1>2, <1>4, <1>5
  <1>7. QED BY <1>6 DEF P, at

LEMMA EmptyOnes ==
    ASSUME NEW s, s \in Seq({})
    PROVE  s = <<>>
  <1>1. s = <<>> \/ s[1] \in {}
    OBVIOUS
  <1>2. QED BY <1>1

(* A trusted or replaced answer has the parts that Apply reads. *)
AnswerOK(answer) ==
    answer.plans \in Seq(PlanType) /\ answer.prose \in ProseType /\ answer.left \in ProseType

LEMMA PlansAreKnown ==
    ASSUME NEW answer, AnswerOK(answer)
    PROVE  /\ ModelPlans(answer) \in Seq({plan \in PlanType : plan.type # "none"})
           /\ ModelPlans(answer) # <<>> => answer.plans # <<>>
  <1> DEFINE plans == answer.plans
             at == {i \in DOMAIN plans : "none" \notin {plans[i].operation, plans[i].type}}
             known == Those(plans, at)
             Known == {plan \in PlanType : plan.type # "none"}
  <1>1. plans \in Seq(PlanType)
    BY DEF AnswerOK
  <1>2. ModelPlans(answer) = IF answer.twice THEN known \o known ELSE known
    BY DEF ModelPlans
  <1>3. at \in SUBSET DOMAIN plans /\ {plans[i] : i \in at} \subseteq Known
    <2> HIDE DEF plans
    <2>1. \A i \in DOMAIN plans : plans[i] \in PlanType
      BY <1>1
    <2>2. QED BY <2>1
  <1> HIDE DEF plans, at, known
  <1>4. known \in Seq({plans[i] : i \in at})
    BY <1>1, <1>3, ThoseThereAre DEF known
  <1>5. known \in Seq(Known) /\ (plans = <<>> => known = <<>>)
    <2> DEFINE S == {plans[i] : i \in at}
    <2>1. S \subseteq Known /\ known \in Seq(S)
      BY <1>3, <1>4
    <2>2. plans = <<>> => S = {}
      <3>1. plans = <<>> => at = {}
        BY <1>3
      <3>2. QED BY <3>1
    <2> HIDE DEF S, Known
    <2>3. known \in Seq(Known)
      BY <2>1
    <2>4. QED BY <2>1, <2>2, <2>3, EmptyOnes
  <1> HIDE DEF Known
  <1>6. known \o known \in Seq(Known) /\ (known = <<>> => known \o known = <<>>)
    BY <1>5
  <1>7. QED BY <1>2, <1>5, <1>6 DEF plans, Known

(* The proposals of an answer, before they are corrected. *)
LEMMA InferredAreSound ==
    ASSUME NEW r \in RequestType, NEW answer, AnswerOK(answer)
    PROVE  LET made == InferWritebackProposals(r, answer)
           IN  /\ made \in Seq({p \in {made[i] : i \in DOMAIN made} : Sound(r, p)})
               /\ made # <<>> => \/ HasWritebackIntent(ContextualWritebackText(r))
                                 \/ answer.plans # <<>>
  <1> DEFINE plans == ModelPlans(answer)
             steps == [i \in DOMAIN plans |-> PlanProposal(r, plans[i])]
             planned == PlannedProposals(r, plans)
             inferred == InferWriteback(r, answer)
             made == InferWritebackProposals(r, answer)
             P == {steps[i][1] : i \in {k \in DOMAIN steps : steps[k] # <<>>}}
  <1>1. made = planned \/ made = inferred
    BY DEF InferWritebackProposals, ProposalsOr
  <1>2. DOMAIN plans = 1..Len(plans) /\ Len(plans) \in Nat
        /\ \A i \in DOMAIN plans : plans[i] \in PlanType /\ plans[i].type # "none"
    <2> HIDE DEF plans
    <2>1. plans \in Seq({plan \in PlanType : plan.type # "none"})
      BY PlansAreKnown DEF plans
    <2>2. QED BY <2>1
  <1>3. \A i \in DOMAIN steps : One(r, steps[i])
    BY <1>2, PlanIsSound
  <1>4. planned = Present(steps) /\ steps \in Seq({steps[i] : i \in DOMAIN steps})
    BY <1>2 DEF PlannedProposals
  <1>5. \A p \in P : Sound(r, p)
    <2> SUFFICES ASSUME NEW i \in DOMAIN steps, steps[i] # <<>> PROVE Sound(r, steps[i][1])
      OBVIOUS
    <2> HIDE DEF steps
    <2>1. PICK p : steps[i] = <<p>> /\ Sound(r, p)
      BY <1>3 DEF One
    <2>2. QED BY <2>1
  <1>6. planned \in Seq(P)
    <2> DEFINE T == {steps[i] : i \in DOMAIN steps}
    <2> HIDE DEF steps, T
    <2>1. steps \in Seq(T)
      BY <1>4 DEF T
    <2>2. QED BY <1>4, <2>1, PresentOnes
  <1>7. planned # <<>> => answer.plans # <<>>
    <2>1. plans = <<>> => steps = <<>>
      OBVIOUS
    <2>2. steps = <<>> => P = {}
      OBVIOUS
    <2> HIDE DEF plans, steps, P, planned
    <2>3. plans = <<>> => planned = <<>>
      BY <1>6, <2>1, <2>2, EmptyOnes
    <2>4. QED BY <2>3, PlansAreKnown DEF plans
  <1>8. /\ One(r, inferred)
        /\ inferred # <<>> => HasWritebackIntent(ContextualWritebackText(r))
    BY InferenceIsSound DEF AnswerOK
  <1> HIDE DEF planned, inferred, made, P
  <1>9. made \in Seq({p \in {made[i] : i \in DOMAIN made} : Sound(r, p)})
    <2> SUFFICES ASSUME NEW T, T = {p \in {made[i] : i \in DOMAIN made} : Sound(r, p)}
                 PROVE  made \in Seq(T)
      OBVIOUS
    <2>1. CASE made = planned
      <3>1. /\ DOMAIN planned = 1..Len(planned) /\ Len(planned) \in Nat
            /\ \A i \in DOMAIN planned : Sound(r, planned[i])
        BY <1>5, <1>6
      <3>2. \A i \in DOMAIN made : made[i] \in T
        BY <2>1, <3>1
      <3>3. made \in Seq(P)
        BY <1>6, <2>1
      <3>4. QED BY <3>2, <3>3
    <2>2. CASE made = inferred
      <3>1. CASE made = <<>>
        BY <3>1
      <3>2. CASE made # <<>>
        <4>1. PICK p : made = <<p>> /\ Sound(r, p)
          BY <1>8, <2>2, <3>2 DEF One
        <4>2. p \in T
          BY <4>1
        <4>3. QED BY <4>1, <4>2
      <3>3. QED BY <3>1, <3>2
    <2>3. QED BY <1>1, <2>1, <2>2
  <1>10. made # <<>> => \/ HasWritebackIntent(ContextualWritebackText(r))
                        \/ answer.plans # <<>>
    BY <1>1, <1>7, <1>8
  <1>11. QED BY <1>9, <1>10 DEF made

(* What is left to be shown when the target is one of the request's resources. *)
Final(r, p) ==
    /\ Sound(r, p) /\ Placed(r, p) /\ Quotes(r, p)
    /\ p.type # "message_send" => p.shown = p.ref

LEMMA DisplayKeeps ==
    ASSUME NEW r, NEW p, Sound(r, p), Placed(r, p), Quotes(r, p)
    PROVE  Final(r, DisplayTarget(r, p))
  <1> DEFINE q == DisplayTarget(r, p)
  <1>1. Draft(r, p) /\ p.preview = Shows(p.preview.by, p)
    BY DEF Sound
  <1>2. p.type # "message_send" => q = [p EXCEPT !.shown = p.ref]
    <2> SUFFICES ASSUME p.type # "message_send" PROVE q = [p EXCEPT !.shown = p.ref]
      OBVIOUS
    <2>1. Names(r, p.ref, TypeOfAction(p))
      BY <1>1 DEF Draft
    <2>2. [id |-> p.ref, type |-> TypeOfAction(p)] \in
              {[id |-> r.results[i].ref.id, type |-> r.results[i].ref.type] :
                  i \in DOMAIN r.results}
              \cup {[id |-> r.refs[i].id, type |-> r.refs[i].type] : i \in DOMAIN r.refs}
      BY <2>1 DEF Names
    <2>3. QED BY <2>2 DEF DisplayTarget
  <1>3. q = p \/ q = [p EXCEPT !.shown = p.ref]
    BY DEF DisplayTarget
  <1>4. LET d == [p EXCEPT !.shown = p.ref]
        IN  Sound(r, d) /\ d.type = p.type /\ d.shown = d.ref /\ d.content = p.content
    <2> DEFINE d == [p EXCEPT !.shown = p.ref]
    <2>1. p = [type |-> p.type, ref |-> p.ref, sheet |-> p.sheet, start |-> p.start,
               cell |-> p.cell, record |-> p.record, field |-> p.field,
               content |-> p.content, preview |-> p.preview, shown |-> p.shown]
      BY <1>1 DEF Draft
    <2>2. d = [type |-> p.type, ref |-> p.ref, sheet |-> p.sheet, start |-> p.start,
               cell |-> p.cell, record |-> p.record, field |-> p.field,
               content |-> p.content, preview |-> p.preview, shown |-> p.ref]
      BY <2>1
    <2> HIDE DEF d
    <2>3. TypeOfAction(d) = TypeOfAction(p) /\ Shows(d.preview.by, d) = Shows(p.preview.by, p)
      BY <2>2 DEF TypeOfAction, Shows
    <2>4. /\ d.type = p.type /\ d.ref = p.ref /\ d.content = p.content
          /\ d.preview = p.preview /\ d.shown = d.ref
          /\ d = [type |-> d.type, ref |-> d.ref, sheet |-> d.sheet, start |-> d.start,
                  cell |-> d.cell, record |-> d.record, field |-> d.field,
                  content |-> d.content, preview |-> d.preview, shown |-> d.shown]
      BY <2>2
    <2>5. Draft(r, d)
      BY <1>1, <2>3, <2>4 DEF Draft
    <2>6. Sound(r, d)
      BY <1>1, <2>3, <2>4, <2>5 DEF Sound
    <2>7. QED BY <2>4, <2>6 DEF d
  <1> HIDE DEF q
  <1>5. CASE p.type = "message_send"
    BY <1>3, <1>4, <1>5 DEF Final, Placed, Quotes, HasContent, q
  <1>6. CASE p.type # "message_send"
    BY <1>2, <1>4, <1>6 DEF Final, Placed, Quotes, HasContent, q
  <1>7. QED BY <1>5, <1>6

(* The reply has the place and the words about a table of what is left of the answer. *)
LEMMA RewrittenLines ==
    ASSUME NEW answer, AnswerOK(answer)
    PROVE  LET prose == RewrittenProse(answer)
           IN  /\ prose.lines \in Seq(LineKinds)
               /\ prose.lines \in {answer.left.lines \o Note, <<>>}
               /\ \/ prose = PlainProse
                  \/ prose.cell = answer.left.cell /\ prose.about = answer.left.about
  <1>1. PICK q \in ProseType : q = answer.left
    BY DEF AnswerOK
  <1>2. q.lines \in Seq(LineKinds) /\ "blank" \in LineKinds /\ "stop" \in LineKinds
    BY DEF ProseType, LineKinds
  <1>3. q.lines \o Note \in Seq(LineKinds) /\ <<>> \in Seq(LineKinds)
    BY <1>2 DEF Note
  <1>4. ASSUME NEW natural, NEW label
        PROVE  LET s == [q EXCEPT !.lines = q.lines \o Note, !.natural = natural, !.label = label]
               IN  s.lines = q.lines \o Note /\ s.cell = q.cell /\ s.about = q.about
    BY DEF ProseType
  <1>5. PlainProse.lines = <<>>
    BY DEF PlainProse
  <1>6. PICK natural, label :
            /\ natural = IF q.section THEN q.natural ELSE "none"
            /\ label = IF Len(PlansLeft(answer)) = 1 THEN PlansLeft(answer)[1].operation
                       ELSE q.label
    OBVIOUS
  <1>7. PICK s : s = [q EXCEPT !.lines = q.lines \o Note, !.natural = natural, !.label = label]
    OBVIOUS
  <1>8. RewrittenProse(answer) = IF q.dismissed THEN PlainProse ELSE s
    BY <1>1, <1>6, <1>7 DEF RewrittenProse
  <1>9. s.lines = q.lines \o Note /\ s.cell = q.cell /\ s.about = q.about
    BY <1>4, <1>7
  <1>10. QED BY <1>1, <1>3, <1>5, <1>8, <1>9

(* An answer proposes p, or the request does, and the correction makes q of it. *)
Corrected(r, answer, p, q) ==
    LET inferred == InferWritebackProposals(r, answer)
    IN  /\ \E i \in DOMAIN inferred : inferred[i] = p
        /\ Normalize(r, p, RewrittenProse(answer)) = <<q>>
        /\ Sound(r, p) /\ Sound(r, q) /\ Placed(r, q) /\ Quotes(r, q)

LEMMA AppliedOnes ==
    ASSUME NEW r \in RequestType, NEW answer, AnswerOK(answer)
    PROVE  LET made == Apply(r, answer)
           IN  \A k \in DOMAIN made : \E p, q : /\ Corrected(r, answer, p, q)
                                                /\ made[k] = DisplayTarget(r, q)
  <1> DEFINE inferred == InferWritebackProposals(r, answer)
             prose == RewrittenProse(answer)
             steps == [i \in DOMAIN inferred |-> Normalize(r, inferred[i], prose)]
             corrected == NormalizeExplicitTargets(r, inferred, prose)
             P == {steps[i][1] : i \in {k \in DOMAIN steps : steps[k] # <<>>}}
             Corrects(p, q) == Corrected(r, answer, p, q)
  <1>1. /\ DOMAIN inferred = 1..Len(inferred) /\ Len(inferred) \in Nat
        /\ \A i \in DOMAIN inferred : Sound(r, inferred[i])
    <2> HIDE DEF inferred
    <2>1. inferred \in Seq({p \in {inferred[i] : i \in DOMAIN inferred} : Sound(r, p)})
      BY InferredAreSound DEF inferred
    <2>2. QED BY <2>1
  <1>2. prose.lines \in Seq(LineKinds)
    BY RewrittenLines
  <1>3. Apply(r, answer) = Displayed(r, corrected)
    BY DEF Apply
  <1>4. ASSUME NEW i \in DOMAIN inferred, NEW q, Normalize(r, inferred[i], prose) = <<q>>,
               Sound(r, q), Placed(r, q), Quotes(r, q)
        PROVE  Corrects(inferred[i], q)
    BY <1>1, <1>4 DEF Corrected
  <1> HIDE DEF inferred, prose, Corrects
  <1>5. \A i \in DOMAIN steps : steps[i] = <<>> \/ Corrects(inferred[i], steps[i][1])
    <2> SUFFICES ASSUME NEW i \in DOMAIN steps, steps[i] # <<>>
                 PROVE  Corrects(inferred[i], steps[i][1])
      OBVIOUS
    <2>1. i \in DOMAIN inferred /\ steps[i] = Normalize(r, inferred[i], prose)
          /\ Sound(r, inferred[i])
      BY <1>1
    <2> HIDE DEF steps
    <2>2. PICK q : /\ Normalize(r, inferred[i], prose) = <<q>>
                   /\ Sound(r, q) /\ Placed(r, q) /\ Quotes(r, q)
      BY <1>2, <2>1, CorrectionIsSound
    <2>3. steps[i][1] = q
      BY <2>1, <2>2
    <2>4. QED BY <1>4, <2>1, <2>2, <2>3
  <1>6. \A q \in P : \E p : Corrects(p, q)
    BY <1>5
  <1>7. corrected = Present(steps) /\ steps \in Seq({steps[i] : i \in DOMAIN steps})
    BY <1>1 DEF NormalizeExplicitTargets
  <1>8. corrected \in Seq(P)
    <2> DEFINE T == {steps[i] : i \in DOMAIN steps}
    <2> HIDE DEF steps, T
    <2>1. steps \in Seq(T)
      BY <1>7 DEF T
    <2>2. QED BY <1>7, <2>1, PresentOnes
  <1>9. /\ DOMAIN Apply(r, answer) = DOMAIN corrected
        /\ \A k \in DOMAIN corrected : Apply(r, answer)[k] = DisplayTarget(r, corrected[k])
    BY <1>3 DEF Displayed
  <1> HIDE DEF steps, corrected, P
  <1>10. \A k \in DOMAIN corrected : \E p : Corrects(p, corrected[k])
    BY <1>6, <1>8
  <1>11. QED BY <1>9, <1>10 DEF Corrects

LEMMA ProposalsAreFinal ==
    ASSUME NEW r \in RequestType, NEW answer, AnswerOK(answer)
    PROVE  LET made == Apply(r, answer)
           IN  /\ \A i \in DOMAIN made : Final(r, made[i])
               /\ DOMAIN made # {} => \/ HasWritebackIntent(ContextualWritebackText(r))
                                      \/ answer.plans # <<>>
  <1> DEFINE made == Apply(r, answer)
             inferred == InferWritebackProposals(r, answer)
  <1>1. ASSUME NEW k \in DOMAIN made
        PROVE  Final(r, made[k]) /\ inferred # <<>>
    <2>1. PICK p, q : Corrected(r, answer, p, q) /\ made[k] = DisplayTarget(r, q)
      BY AppliedOnes
    <2>2. /\ inferred # <<>>
          /\ Sound(r, q) /\ Placed(r, q) /\ Quotes(r, q)
      BY <2>1 DEF Corrected
    <2> HIDE DEF made, inferred
    <2>3. QED BY <2>1, <2>2, DisplayKeeps
  <1>2. inferred # <<>> => HasWritebackIntent(ContextualWritebackText(r)) \/ answer.plans # <<>>
    BY InferredAreSound
  <1> HIDE DEF inferred
  <1>3. QED BY <1>1, <1>2

-------------------------------------------------------------------------------
(* The turn *)

Searched == "executed" \in ToSet(audits)

(* One of the resources could be read. *)
Grounds == \E i \in DOMAIN request.results : request.results[i].readable /\ ~request.results[i].error

TypesInv ==
    /\ request \in RequestType
    /\ phase \in {"start", "search", "read", "model", "done"}
    /\ asked \in BOOLEAN
    /\ audits \in Seq({"planner_error", "planned", "executed"})
    /\ reply.kind \in {"none", "unresolved", "answer", "listed", "refused", "unsupported"}

(* The resources of a request are what its links name, or what a search found, and
   the audit tells which. *)
SourceInv ==
    /\ phase \in {"start", "search"} => request.refs = <<>> /\ request.results = <<>> /\ ~Searched
    /\ phase = "search" => found.refs \in Seq(FreshHits)
    /\ Searched => request.refs \in Seq(Hits)
    /\ ~Searched => request.refs \in Seq(LinkedRefType)

(* A search without a result leaves its status to be seen, and nothing that was
   searched for gets past the reader without having been read. *)
GroundsInv ==
    /\ phase = "read" /\ Searched /\ request.refs = <<>> =>
           request.results # <<>> /\ request.results[1].ref.id = "search"
    /\ (phase = "model" \/ asked) /\ Searched => Grounds
    /\ asked => phase = "done"

(* Nothing is said or proposed before the end. *)
OutcomeInv ==
    /\ phase # "done" => reply = NoReply /\ proposals = <<>>
    /\ \A link \in reply.links : Trusted(link) \/ link \in ReadableLinks
    /\ \A p \in Made : Final(request, p)
    /\ Made # {} => /\ request.writeback
                    /\ \/ HasWritebackIntent(ContextualWritebackText(request))
                       \/ \E answer \in request.answers : answer.plans # <<>>

TurnInv == TypesInv /\ SourceInv /\ GroundsInv /\ OutcomeInv

LEMMA InitOK == Init => TurnInv
  <1> SUFFICES ASSUME Init PROVE TurnInv
    OBVIOUS
  <1>1. request \in RequestType /\ request.refs = <<>> /\ request.results = <<>>
    BY RequestsAssumption DEF Init
  <1>2. ~Searched /\ audits \in Seq({"planner_error", "planned", "executed"})
    BY DEF Init, Searched, ToSet
  <1>3. Made = {}
    BY DEF Init, Made
  <1>4. TypesInv
    BY <1>1, <1>2 DEF Init, TypesInv, NoReply
  <1>5. SourceInv /\ GroundsInv
    BY <1>1, <1>2 DEF Init, SourceInv, GroundsInv
  <1>6. OutcomeInv
    BY <1>3 DEF Init, OutcomeInv, NoReply
  <1>7. QED BY <1>4, <1>5, <1>6 DEF TurnInv

LEMMA SettlesTyped ==
    ASSUME request \in RequestType, NEW T \in SUBSET KnownRefType, NEW refs \in Seq(T),
           \A r \in T, page \in PageType : [r EXCEPT !.page = page] \in T,
           NEW status \in Seq(ResultType), Settle(refs, status)
    PROVE  /\ request' \in RequestType /\ request'.refs \in Seq(T)
           /\ refs = <<>> <=> request'.refs = <<>>
           /\ request'.results = status
           /\ phase' = "read"
  <1>1. PICK hinted \in Seq(T) : hinted = WithPdfPageHint(refs) /\ (refs = <<>> <=> hinted = <<>>)
    BY PagesAreHinted
  <1>2. request' = [request EXCEPT !.refs = hinted, !.results = status] /\ phase' = "read"
    BY <1>1 DEF Settle
  <1>3. hinted \in Seq(KnownRefType)
    BY <1>1
  <1>4. request' \in RequestType /\ request'.refs = hinted /\ request'.results = status
    BY <1>2, <1>3 DEF RequestType
  <1>5. QED BY <1>1, <1>2, <1>4

LEMMA StatusIsResult ==
    /\ StatusResults \in Seq(ResultType) /\ StatusResults # <<>>
    /\ StatusResults[1].ref.id = "search"
    /\ <<>> \in Seq(ResultType)
  <1> DEFINE ref == [NoRef EXCEPT !.id = "search", !.type = "unknown", !.kind = "search"]
  <1>1. ref \in RefType
    BY PlainTypes, LiteralsAssumption DEF RefType
  <1>2. ref.id = "search"
    BY DEF NoRef
  <1> HIDE DEF ref
  <1>3. Failed(ref) \in ResultType /\ Failed(ref).ref = ref
    BY <1>1, ResultTypes DEF Failed, Result
  <1>4. PICK status \in ResultType : status = SearchStatus /\ status.ref.id = "search"
    BY <1>2, <1>3 DEF SearchStatus, ref
  <1>5. StatusResults \in {<<status>>, <<status, status>>}
    BY <1>4 DEF StatusResults
  <1>6. <<status>> \in Seq(ResultType) /\ <<status, status>> \in Seq(ResultType)
        /\ <<>> \in Seq(ResultType)
    OBVIOUS
  <1>7. CASE StatusResults = <<status>>
    <2>1. StatusResults[1] = status /\ StatusResults # <<>>
      BY <1>7
    <2>2. QED BY <1>4, <1>6, <1>7, <2>1
  <1>8. CASE StatusResults = <<status, status>>
    <2>1. StatusResults[1] = status /\ StatusResults # <<>>
      BY <1>8
    <2>2. QED BY <1>4, <1>6, <1>8, <2>1
  <1>9. QED BY <1>5, <1>7, <1>8

LEMMA RefSets ==
    /\ Hits \in SUBSET KnownRefType /\ LinkedRefType \in SUBSET KnownRefType
    /\ \A s \in Seq(Hits) : \A i \in DOMAIN s : s[i].kind = "search" /\ s[i].type \in KnownTypes
    /\ \A s \in Seq(LinkedRefType) : \A i \in DOMAIN s : s[i].kind # "search"
  BY DEF Hits, LinkedRefType

(* A request whose resources are settled, before anything is said. *)
LEMMA SettledKeeps ==
    ASSUME TurnInv, request' \in RequestType, phase' = "read", phase # "done",
           asked' = asked, reply' = reply, proposals' = proposals,
           audits' \in Seq({"planner_error", "planned", "executed"}),
           Searched' => /\ request'.refs \in Seq(Hits)
                        /\ request'.refs = <<>> => request'.results # <<>>
                                                   /\ request'.results[1].ref.id = "search",
           ~Searched' => request'.refs \in Seq(LinkedRefType)
    PROVE  TurnInv'
  <1>1. /\ asked \in BOOLEAN /\ ~asked /\ reply = NoReply /\ proposals = <<>>
    BY DEF TurnInv, TypesInv, GroundsInv, OutcomeInv
  <1>2. TypesInv'
    BY <1>1 DEF TypesInv, NoReply
  <1>3. SourceInv'
    BY DEF SourceInv
  <1>4. GroundsInv'
    BY <1>1 DEF GroundsInv
  <1>5. Made' = {}
    BY <1>1 DEF Made
  <1>6. OutcomeInv'
    BY <1>1, <1>5 DEF OutcomeInv, NoReply
  <1>7. QED BY <1>2, <1>3, <1>4, <1>6 DEF TurnInv

LEMMA TakeLinksOK == TurnInv /\ TakeLinks => TurnInv'
  <1> SUFFICES ASSUME TurnInv, TakeLinks PROVE TurnInv'
    OBVIOUS
  <1>1. request \in RequestType /\ ~Searched /\ phase = "start"
        /\ audits \in Seq({"planner_error", "planned", "executed"})
    BY DEF TurnInv, TypesInv, SourceInv, TakeLinks
  <1>2. PICK urls \in Seq(LinkedRefType) : urls = LinksOf(SearchText)
    BY <1>1, TextsAreTyped DEF TextType, LinksOf, SearchText
  <1>3. Settle(urls, <<>>) /\ audits' = audits /\ asked' = asked /\ reply' = reply
        /\ proposals' = proposals
    BY <1>2 DEF TakeLinks
  <1>4. request' \in RequestType /\ request'.refs \in Seq(LinkedRefType) /\ phase' = "read"
    BY <1>1, <1>3, SettlesTyped, RefSets, HintedHits, StatusIsResult
  <1>5. ~Searched'
    BY <1>1, <1>3 DEF Searched
  <1>6. QED BY <1>1, <1>3, <1>4, <1>5, SettledKeeps

LEMMA PlanSearchOK == TurnInv /\ PlanSearch => TurnInv'
  <1> SUFFICES ASSUME TurnInv, PlanSearch PROVE TurnInv'
    OBVIOUS
  <1>1. /\ request \in RequestType /\ ~Searched /\ phase = "start"
        /\ request.refs = <<>> /\ request.results = <<>>
        /\ asked \in BOOLEAN /\ ~asked /\ reply = NoReply /\ proposals = <<>>
    BY DEF TurnInv, TypesInv, SourceInv, GroundsInv, OutcomeInv, PlanSearch
  <1>2. PICK errors \in {<<"planner_error">>, <<>>}, noted \in {<<"planned">>, <<>>} :
            audits' = errors \o noted
    BY DEF PlanSearch
  <1>3. audits' \in Seq({"planner_error", "planned"})
    <2>1. errors \in Seq({"planner_error", "planned"})
      BY <<"planner_error">> \in Seq({"planner_error", "planned"}),
         <<>> \in Seq({"planner_error", "planned"})
    <2>2. noted \in Seq({"planner_error", "planned"})
      BY <<"planned">> \in Seq({"planner_error", "planned"}),
         <<>> \in Seq({"planner_error", "planned"})
    <2>3. QED BY <1>2, <2>1, <2>2
  <1>4. ~Searched' /\ audits' \in Seq({"planner_error", "planned", "executed"})
    BY <1>3 DEF Searched, ToSet
  <1>5. asked' = asked /\ reply' = reply /\ proposals' = proposals
    BY DEF PlanSearch
  <1>6. CASE phase' = "search" /\ found'.refs = <<>> /\ request' = request
    <2>1. Made' = {}
      BY <1>1, <1>5 DEF Made
    <2>2. TypesInv'
      BY <1>1, <1>4, <1>5, <1>6 DEF TypesInv, NoReply
    <2>3. SourceInv' /\ GroundsInv'
      <3>1. request'.refs = <<>> /\ <<>> \in Seq(LinkedRefType) /\ <<>> \in Seq(FreshHits)
        BY <1>1, <1>6
      <3>2. found'.refs \in Seq(FreshHits) /\ request'.refs \in Seq(LinkedRefType)
        BY <1>6, <3>1
      <3>3. QED BY <1>1, <1>4, <1>5, <1>6, <3>2 DEF SourceInv, GroundsInv
    <2>4. OutcomeInv'
      BY <1>1, <1>5, <1>6, <2>1 DEF OutcomeInv, NoReply
    <2>5. QED BY <2>2, <2>3, <2>4 DEF TurnInv
  <1>7. CASE Settle(<<>>, <<>>)
    <2>1. <<>> \in Seq(LinkedRefType)
      OBVIOUS
    <2>2. request' \in RequestType /\ request'.refs \in Seq(LinkedRefType) /\ phase' = "read"
      BY <1>1, <1>7, <2>1, SettlesTyped, RefSets, HintedHits, StatusIsResult
    <2>3. QED BY <1>1, <1>4, <1>5, <2>2, SettledKeeps
  <1>8. QED BY <1>6, <1>7 DEF PlanSearch

LEMMA AuditedSearch ==
    ASSUME audits \in Seq({"planner_error", "planned", "executed"}),
           audits' = Append(audits, "executed")
    PROVE  audits' \in Seq({"planner_error", "planned", "executed"}) /\ Searched'
  <1>1. audits' \in Seq({"planner_error", "planned", "executed"})
    OBVIOUS
  <1>2. Len(audits) + 1 \in DOMAIN audits' /\ audits'[Len(audits) + 1] = "executed"
    OBVIOUS
  <1>3. QED BY <1>1, <1>2 DEF Searched, ToSet

LEMMA SearchFailsOK == TurnInv /\ SearchFails => TurnInv'
  <1> SUFFICES ASSUME TurnInv, SearchFails PROVE TurnInv'
    OBVIOUS
  <1>1. request \in RequestType /\ phase = "search"
        /\ audits \in Seq({"planner_error", "planned", "executed"})
    BY DEF TurnInv, TypesInv, SearchFails
  <1>2. Settle(<<>>, StatusResults) /\ audits' = Append(audits, "executed")
        /\ asked' = asked /\ reply' = reply /\ proposals' = proposals
    BY DEF SearchFails
  <1>3. <<>> \in Seq(Hits)
    OBVIOUS
  <1>4. /\ request' \in RequestType /\ request'.refs \in Seq(Hits) /\ phase' = "read"
        /\ request'.results = StatusResults
    BY <1>1, <1>2, <1>3, SettlesTyped, RefSets, HintedHits, StatusIsResult
  <1>5. audits' \in Seq({"planner_error", "planned", "executed"}) /\ Searched'
    BY <1>1, <1>2, AuditedSearch
  <1>6. QED BY <1>1, <1>2, <1>4, <1>5, StatusIsResult, SettledKeeps

LEMMA SearchQueryOK == TurnInv /\ SearchQuery => TurnInv'
  <1> SUFFICES ASSUME TurnInv, SearchQuery PROVE TurnInv'
    OBVIOUS
  <1>1. /\ request \in RequestType /\ phase = "search" /\ found.refs \in Seq(FreshHits) /\ ~Searched
        /\ audits \in Seq({"planner_error", "planned", "executed"})
        /\ request.refs = <<>> /\ request.results = <<>>
        /\ asked \in BOOLEAN /\ ~asked /\ reply = NoReply /\ proposals = <<>>
    BY DEF TurnInv, TypesInv, SourceInv, GroundsInv, OutcomeInv, SearchQuery
  <1> DEFINE limit == Min({SearchLimit, found.limit - Len(found.refs)})
             hits == Search(Indexes[request.index], Head(todo), limit)
             taken == TakeHits(found.refs, hits, found.limit)
  <1>2. hits \in Seq(FreshHits)
    <2>1. request.index \in DOMAIN Indexes
      BY <1>1 DEF RequestType
    <2>2. QED BY <2>1, SearchFindsHits
  <1>3. taken \in Seq(FreshHits)
    <2> HIDE DEF hits
    <2> QED BY <1>1, <1>2, TakenHits
  <1>4. /\ \/ /\ Settle(taken, IF taken = <<>> THEN StatusResults ELSE <<>>)
              /\ audits' = Append(audits, "executed")
           \/ found'.refs = taken /\ UNCHANGED <<request, phase, audits>>
        /\ asked' = asked /\ reply' = reply /\ proposals' = proposals
    <2> HIDE DEF hits, limit
    <2> QED BY DEF SearchQuery, hits, limit
  <1> HIDE DEF taken
  <1>5. CASE /\ Settle(taken, IF taken = <<>> THEN StatusResults ELSE <<>>)
             /\ audits' = Append(audits, "executed")
    <2>1. PICK status \in Seq(ResultType) :
              /\ status = IF taken = <<>> THEN StatusResults ELSE <<>>
              /\ taken = <<>> => status # <<>> /\ status[1].ref.id = "search"
      BY StatusIsResult
    <2>2. Settle(taken, status)
      BY <1>5, <2>1
    <2>6. taken \in Seq(Hits)
      BY <1>3 DEF FreshHits
    <2>3. /\ request' \in RequestType /\ request'.refs \in Seq(Hits) /\ phase' = "read"
          /\ request'.results = status /\ (taken = <<>> <=> request'.refs = <<>>)
      BY <1>1, <2>2, <2>6, SettlesTyped, RefSets, HintedHits
    <2>4. audits' \in Seq({"planner_error", "planned", "executed"}) /\ Searched'
      BY <1>1, <1>5, AuditedSearch
    <2>5. QED BY <1>1, <1>4, <2>1, <2>3, <2>4, SettledKeeps
  <1>6. CASE found'.refs = taken /\ UNCHANGED <<request, phase, audits>>
    <2>1. ~Searched' /\ Made' = {}
      BY <1>1, <1>4, <1>6 DEF Searched, Made
    <2>2. TypesInv'
      BY <1>1, <1>4, <1>6 DEF TypesInv, NoReply
    <2>3. SourceInv' /\ GroundsInv'
      <3>1. request'.refs = <<>> /\ <<>> \in Seq(LinkedRefType)
        BY <1>1, <1>6
      <3>2. request'.refs \in Seq(LinkedRefType)
        BY <3>1
      <3>3. QED BY <1>1, <1>3, <1>4, <1>6, <2>1, <3>2 DEF SourceInv, GroundsInv
    <2>4. OutcomeInv'
      BY <1>1, <1>4, <1>6, <2>1 DEF OutcomeInv, NoReply
    <2>5. QED BY <2>2, <2>3, <2>4 DEF TurnInv
  <1>7. QED BY <1>4, <1>5, <1>6

(* What was found is readable by its type, so something of it is read. *)
LEMMA ResourcesAreRead ==
    ASSUME request \in RequestType
    PROVE  /\ ReadResources \in Seq(ResultType)
           /\ request.refs \in Seq(Hits) /\ request.refs # <<>> => ReadResources # <<>>
  <1> DEFINE refs == IF request.searcher /\ SearchGenerated(request.refs)
                     THEN FirstOnes(request.refs, ReadLimit) ELSE request.refs
             at == {i \in DOMAIN refs : refs[i].type \in ReadableTypes}
             Readable == {r \in KnownRefType : r.type \in ReadableTypes}
  <1>1. ReadRefs = Those(refs, at)
    BY DEF ReadRefs
  <1>2. ReadLimit \in Int /\ ReadLimit > 0
    BY LimitsAssumption
  <1>3. refs \in Seq(KnownRefType)
    <2>1. request.refs \in Seq(KnownRefType)
      BY DEF RequestType
    <2>2. QED BY <1>2, <2>1, FirstOnesOf
  <1>4. request.refs \in Seq(Hits) /\ request.refs # <<>> => refs \in Seq(Hits) /\ refs # <<>>
    BY <1>2, FirstOnesOf
  <1> HIDE DEF refs
  <1>5. at \in SUBSET DOMAIN refs /\ {refs[i] : i \in at} \subseteq Readable
    <2>1. \A i \in DOMAIN refs : refs[i] \in KnownRefType
      BY <1>3
    <2>2. QED BY <2>1
  <1>6. refs \in Seq(Hits) /\ refs # <<>> => at # {}
    <2> SUFFICES ASSUME refs \in Seq(Hits), refs # <<>> PROVE at # {}
      OBVIOUS
    <2>1. 1 \in DOMAIN refs
      OBVIOUS
    <2>2. refs[1].type \in KnownTypes
      BY <2>1, RefSets
    <2>3. QED BY <2>1, <2>2 DEF KnownTypes, ReadableTypes
  <1> HIDE DEF at
  <1>7. /\ ReadRefs \in Seq({refs[i] : i \in at})
        /\ at # {} => ReadRefs # <<>>
    BY <1>1, <1>3, <1>5, ThoseThereAre
  <1>8. /\ DOMAIN ReadRefs = 1..Len(ReadRefs) /\ Len(ReadRefs) \in Nat
        /\ \A i \in DOMAIN ReadRefs : ReadRefs[i] \in KnownRefType
                                      /\ ReadRefs[i].type \in ReadableTypes
    BY <1>5, <1>7
  <1>9. Worlds[request.world] \in [Resources -> RemoteType]
    BY WorldsAssumption DEF RequestType
  <1>10. \A i \in DOMAIN ReadRefs : ReadResource(Worlds[request.world], ReadRefs[i]) \in ResultType
    BY <1>8, <1>9, ReadResourceType
  <1>11. ReadResources \in Seq(ResultType)
    BY <1>8, <1>10 DEF ReadResources
  <1>12. ReadRefs # <<>> => ReadResources # <<>>
    <2>1. ReadRefs # <<>> => 1 \in DOMAIN ReadRefs
      BY <1>7
    <2>2. DOMAIN ReadResources = DOMAIN ReadRefs
      BY DEF ReadResources
    <2>3. QED BY <2>1, <2>2
  <1>13. QED BY <1>4, <1>6, <1>7, <1>11, <1>12

LEMMA ReadOK == TurnInv /\ Read => TurnInv'
  <1> SUFFICES ASSUME TurnInv, Read PROVE TurnInv'
    OBVIOUS
  <1>1. /\ request \in RequestType /\ phase = "read"
        /\ audits \in Seq({"planner_error", "planned", "executed"})
        /\ Searched => request.refs \in Seq(Hits)
        /\ ~Searched => request.refs \in Seq(LinkedRefType)
        /\ Searched /\ request.refs = <<>> => request.results # <<>>
                                              /\ request.results[1].ref.id = "search"
        /\ asked \in BOOLEAN /\ ~asked /\ reply = NoReply /\ proposals = <<>>
    BY DEF TurnInv, TypesInv, SourceInv, GroundsInv, OutcomeInv, Read
  <1>2. PICK new \in Seq(ResultType) :
            /\ new = ReadResources
            /\ request.refs \in Seq(Hits) /\ request.refs # <<>> => new # <<>>
    BY <1>1, ResourcesAreRead
  <1>3. PICK old \in Seq(ResultType) : old = request.results
    BY <1>1 DEF RequestType
  <1> DEFINE results == old \o new
  <1>4. results \in Seq(ResultType) /\ (old # <<>> => results # <<>> /\ results[1] = old[1])
        /\ (new # <<>> => results # <<>>)
    OBVIOUS
  <1>5. /\ request' = [request EXCEPT !.results = results]
        /\ \/ /\ UnresolvedSearch(request.refs, results)
              /\ phase' = "done" /\ reply' = [kind |-> "unresolved", links |-> {}]
           \/ /\ ~UnresolvedSearch(request.refs, results)
              /\ phase' = "model" /\ reply' = reply
        /\ audits' = audits /\ asked' = asked /\ proposals' = proposals
    BY <1>2, <1>3 DEF Read
  <1> HIDE DEF results
  <1>6. request' \in RequestType /\ request'.results = results /\ request'.refs = request.refs
    BY <1>1, <1>4, <1>5 DEF RequestType
  <1>7. Searched' = Searched /\ Made' = {}
    BY <1>1, <1>5 DEF Searched, Made
  <1>8. TypesInv'
    BY <1>1, <1>5, <1>6 DEF TypesInv, NoReply
  <1>9. SourceInv'
    BY <1>1, <1>5, <1>6, <1>7 DEF SourceInv
  <1>10. ASSUME Searched, phase' = "model" PROVE Grounds'
    <2>1. request.refs \in Seq(Hits) /\ ~UnresolvedSearch(request.refs, results)
      BY <1>1, <1>5, <1>10
    <2>2. CASE request.refs = <<>>
      <3>1. results # <<>> /\ results[1].ref.id = "search" /\ 1 \in DOMAIN results
        BY <1>1, <1>3, <1>4, <1>10, <2>2
      <3>2. UnresolvedSearch(request.refs, results)
        BY <2>2, <3>1 DEF UnresolvedSearch
      <3>3. QED BY <2>1, <3>2
    <2>3. CASE request.refs # <<>>
      <3>1. results # <<>>
        BY <1>2, <1>4, <2>1, <2>3
      <3>2. 1 \in DOMAIN request.refs /\ request.refs[1].kind = "search"
        <4>1. 1 \in DOMAIN request.refs
          BY <2>1, <2>3
        <4>2. QED BY <2>1, <4>1, RefSets
      <3>3. \E i \in DOMAIN results : results[i].readable /\ ~results[i].error
        BY <2>1, <3>1, <3>2 DEF UnresolvedSearch
      <3>4. QED BY <1>6, <3>3 DEF Grounds
    <2>4. QED BY <2>2, <2>3
  <1>11. GroundsInv'
    BY <1>1, <1>5, <1>7, <1>10 DEF GroundsInv
  <1>12. OutcomeInv'
    BY <1>1, <1>5, <1>7 DEF OutcomeInv, NoReply
  <1>13. QED BY <1>8, <1>9, <1>11, <1>12 DEF TurnInv

LEMMA PlainProseType == PlainProse \in ProseType
  <1>1. NoPair \in [field : STRING, value : STRING]
    BY LiteralsAssumption DEF NoPair
  <1>2. PICK mentions \in [FieldTitles -> SUBSET DOMAIN ModelWeight] :
            mentions = [f \in FieldTitles |-> {}]
    OBVIOUS
  <1>3. Silent \in SaysType
    BY <1>1, <1>2, LiteralsAssumption DEF Silent, SaysType
  <1>4. <<>> \in Seq(LineKinds) /\ "none" \in Operations
    BY DEF Operations
  <1>5. QED BY <1>3, <1>4, PlainTypes DEF PlainProse, ProseType

(* What is shown: an answer that links to nothing unknown, or what was read. *)
LEMMA AnswersAreTrusted ==
    ASSUME NEW answer \in AnswerType
    PROVE  LET shown == TrustedAnswer(answer)
           IN  /\ AnswerOK(shown)
               /\ shown.kind \in {"answer", "listed", "refused"}
               /\ shown.plans # <<>> => answer.plans # <<>>
               /\ \A link \in shown.links : Trusted(link) \/ link \in ReadableLinks
  <1>1. answer.plans \in Seq(PlanType) /\ answer.prose \in ProseType /\ answer.left \in ProseType
    BY DEF AnswerType
  <1>2. CASE \A link \in answer.links : Trusted(link)
    BY <1>1, <1>2 DEF TrustedAnswer, AnswerOK
  <1>3. CASE ~\A link \in answer.links : Trusted(link)
    BY <1>3, PlainProseType DEF TrustedAnswer, AnswerOK
  <1>4. QED BY <1>2, <1>3

LEMMA GenerateOK == TurnInv /\ Generate => TurnInv'
  <1> SUFFICES ASSUME TurnInv, Generate PROVE TurnInv'
    OBVIOUS
  <1>1. /\ request \in RequestType /\ phase = "model"
        /\ audits \in Seq({"planner_error", "planned", "executed"})
        /\ Searched => request.refs \in Seq(Hits)
        /\ ~Searched => request.refs \in Seq(LinkedRefType)
        /\ Searched => Grounds
        /\ proposals = <<>>
    BY DEF TurnInv, TypesInv, SourceInv, GroundsInv, OutcomeInv, Generate
  <1>2. PICK answer \in request.answers :
            /\ proposals' = IF request.writeback THEN Apply(request, TrustedAnswer(answer))
                            ELSE <<>>
            /\ reply' = IF request.writeback /\ proposals' = <<>> /\ UnsupportedPlace(request)
                        THEN [kind |-> "unsupported", links |-> {}]
                        ELSE [kind |-> TrustedAnswer(answer).kind,
                              links |-> TrustedAnswer(answer).links]
    BY DEF Generate
  <1>3. PICK shown : shown = TrustedAnswer(answer)
    OBVIOUS
  <1>4. /\ AnswerOK(shown)
        /\ shown.kind \in {"answer", "listed", "refused"}
        /\ shown.plans # <<>> => answer.plans # <<>>
        /\ \A link \in shown.links : Trusted(link) \/ link \in ReadableLinks
    <2>1. answer \in AnswerType
      BY <1>1 DEF RequestType
    <2>2. QED BY <1>3, <2>1, AnswersAreTrusted
  <1>5. asked' = TRUE /\ phase' = "done" /\ request' = request /\ audits' = audits
    BY DEF Generate
  <1>6. \/ reply' = [kind |-> "unsupported", links |-> {}]
        \/ reply' = [kind |-> shown.kind, links |-> shown.links]
    BY <1>2, <1>3
  <1>7. /\ Searched' = Searched /\ Grounds' = Grounds
        /\ ReadableLinks' = ReadableLinks
        /\ \A link : Trusted(link)' = Trusted(link)
    BY <1>5 DEF Searched, Grounds, ReadableLinks, Trusted, KnownTokens
  <1>8. TypesInv'
    BY <1>1, <1>4, <1>5, <1>6 DEF TypesInv
  <1>9. SourceInv' /\ GroundsInv'
    BY <1>1, <1>5, <1>7 DEF SourceInv, GroundsInv
  <1>10. \A link \in reply'.links : Trusted(link) \/ link \in ReadableLinks
    BY <1>4, <1>6
  <1>11. /\ \A p \in Made' : Final(request, p)
         /\ Made' # {} => /\ request.writeback
                          /\ \/ HasWritebackIntent(ContextualWritebackText(request))
                             \/ \E a \in request.answers : a.plans # <<>>
    <2>1. CASE ~request.writeback
      <3>1. Made' = {}
        BY <1>2, <2>1 DEF Made
      <3>2. QED BY <3>1
    <2>2. CASE request.writeback
      <3>1. PICK made : made = Apply(request, shown) /\ proposals' = made
        BY <1>2, <1>3, <2>2
      <3>2. /\ \A i \in DOMAIN made : Final(request, made[i])
            /\ DOMAIN made # {} => \/ HasWritebackIntent(ContextualWritebackText(request))
                                   \/ shown.plans # <<>>
        BY <1>1, <1>4, <3>1, ProposalsAreFinal
      <3>3. Made' = {made[i] : i \in DOMAIN made}
        BY <3>1 DEF Made
      <3>4. QED BY <1>4, <2>2, <3>2, <3>3
    <2>3. QED BY <2>1, <2>2
  <1>12. OutcomeInv'
    BY <1>5, <1>7, <1>10, <1>11 DEF OutcomeInv, Final, Sound, Draft, Names, Placed
  <1>13. QED BY <1>8, <1>9, <1>12 DEF TurnInv

LEMMA NextOK == TurnInv /\ [Next]_vars => TurnInv'
  <1> SUFFICES ASSUME TurnInv, [Next]_vars PROVE TurnInv'
    OBVIOUS
  <1>1. CASE TakeLinks
    BY <1>1, TakeLinksOK
  <1>2. CASE PlanSearch
    BY <1>2, PlanSearchOK
  <1>3. CASE SearchQuery
    BY <1>3, SearchQueryOK
  <1>4. CASE SearchFails
    BY <1>4, SearchFailsOK
  <1>5. CASE Read
    BY <1>5, ReadOK
  <1>6. CASE Generate
    BY <1>6, GenerateOK
  <1>7. CASE UNCHANGED vars
    <2>1. /\ request' = request /\ phase' = phase /\ found' = found /\ audits' = audits
          /\ asked' = asked /\ reply' = reply /\ proposals' = proposals
      BY <1>7 DEF vars
    <2>2. /\ Searched' = Searched /\ Grounds' = Grounds /\ ReadableLinks' = ReadableLinks
          /\ Made' = Made /\ \A link : Trusted(link)' = Trusted(link)
      BY <2>1 DEF Searched, Grounds, ReadableLinks, Trusted, KnownTokens, Made
    <2>3. TypesInv' /\ SourceInv' /\ GroundsInv'
      BY <2>1, <2>2 DEF TurnInv, TypesInv, SourceInv, GroundsInv
    <2>4. OutcomeInv'
      BY <2>1, <2>2 DEF TurnInv, OutcomeInv, Final, Sound, Draft, Names, Placed
    <2>5. QED BY <2>3, <2>4 DEF TurnInv
  <1>8. QED BY <1>1, <1>2, <1>3, <1>4, <1>5, <1>6, <1>7 DEF Next

-------------------------------------------------------------------------------
(* From where the resources of a request come to what is proposed at its end: the
   invariant of a turn, whatever is asked, found, refused and answered. *)
THEOREM TurnInvariant == Spec => []TurnInv
  <1>1. QED BY InitOK, NextOK, PTL DEF Spec

(* A turn keeps its types: whatever the worlds and indexes hold, what is read is a
   result, and what is proposed is one of the actions there are. *)
THEOREM TurnTyped == Spec => []AssistantTypeOK
  <1>1. TurnInv => AssistantTypeOK
    <2> SUFFICES ASSUME TurnInv PROVE AssistantTypeOK
      OBVIOUS
    <2>1. TypesInv /\ \A p \in Made : Final(request, p)
      BY DEF TurnInv, OutcomeInv
    <2>2. ToSet(audits) \subseteq {"planner_error", "planned", "executed"}
      BY <2>1 DEF TypesInv, ToSet
    <2>3. \A p \in Made : p.type \in ActionTypes /\ p.content.lines \subseteq Nat
      BY <2>1 DEF Final, Sound, Draft
    <2>4. QED BY <2>1, <2>2, <2>3 DEF TypesInv, AssistantTypeOK, ActionTypes
  <1>2. QED BY TurnInvariant, <1>1, PTL

(* A search that found or could read nothing is never put before the model, and no
   reply links to a document, sheet or table the request did not name, find or
   read (_is_unresolved_search_request, _has_untrusted_feishu_url). *)
THEOREM AnswersStayGrounded == Spec => []AnswersAreGrounded
  <1>1. TurnInv => AnswersAreGrounded
    <2> SUFFICES ASSUME TurnInv PROVE AnswersAreGrounded
      OBVIOUS
    <2>1. asked /\ SearchGenerated(request.refs) => Searched
      <3> SUFFICES ASSUME SearchGenerated(request.refs), ~Searched PROVE FALSE
        OBVIOUS
      <3>1. request.refs \in Seq(LinkedRefType) /\ request.refs # <<>>
        BY DEF TurnInv, SourceInv, SearchGenerated
      <3>2. 1 \in DOMAIN request.refs
        BY <3>1
      <3>3. request.refs[1].kind # "search"
        BY <3>1, <3>2, RefSets
      <3>4. QED BY <3>2, <3>3 DEF SearchGenerated
    <2>2. asked /\ Searched => Grounds
      BY DEF TurnInv, GroundsInv
    <2>3. QED BY <2>1, <2>2 DEF TurnInv, OutcomeInv, AnswersAreGrounded, Grounds, Searched
  <1>2. QED BY TurnInvariant, <1>1, PTL

(* What the preview of a proposal says is what the proposal writes, after every
   correction of its place, its record, its field or its text
   (_normalize_explicit_writeback_targets). *)
THEOREM PreviewsStayTrue == Spec => []PreviewsFollow
  <1>1. TurnInv => PreviewsFollow
    <2> SUFFICES ASSUME TurnInv, NEW p \in Made
                 PROVE  [p.preview EXCEPT !.by = "code"] = Shows("code", p)
      BY DEF PreviewsFollow
    <2>1. p.preview = Shows(p.preview.by, p)
      BY DEF TurnInv, OutcomeInv, Final, Sound
    <2>2. PICK by : by = p.preview.by
      OBVIOUS
    <2>3. [Shows(by, p) EXCEPT !.by = "code"] = Shows("code", p)
      BY DEF Shows
    <2>4. QED BY <2>1, <2>2, <2>3
  <1>2. QED BY TurnInvariant, <1>1, PTL

(* Nothing is proposed that neither the user asked for nor the model planned, or
   while writing is off, or to a resource that is not the request's (apply,
   _first_writable_doc_ref and the like). *)
THEOREM NothingUnasked == Spec => []WritesAreAskedFor
  <1>1. TurnInv => WritesAreAskedFor
    BY DEF TurnInv, OutcomeInv, Final, Placed, WritesAreAskedFor, Texts
  <1>2. QED BY TurnInvariant, <1>1, PTL

(* What the user put in quotation marks is written as he put it, whatever the model
   planned or answered, and whichever record or place it goes to in the end
   (_explicit_quoted_writeback_content, _force_proposal_content). *)
THEOREM QuotationsAreWritten == Spec => []QuotationIsWritten
  <1>1. TurnInv => QuotationIsWritten
    BY DEF TurnInv, OutcomeInv, Final, Quotes, QuotationIsWritten
  <1>2. QED BY TurnInvariant, <1>1, PTL

-------------------------------------------------------------------------------
(* What was read *)

(* A result that is no failure holds what stands behind its address: of a sheet the
   row below the cells that were read, of a table what is read back from the lines
   of its records, in the order of the view. *)
IsRead(world, ref, result) ==
    /\ ~result.error
    /\ result.ref.type \in {"sheet", "bitable"} => result.ref.id \in Resources
    /\ result.ref.type = "sheet" =>
          /\ result.ref.hint = ref.hint
          /\ \E k \in DOMAIN world[result.ref.id].sheets :
                LET sheet == world[result.ref.id].sheets[k]
                IN  /\ sheet.id = result.ref.sheet
                    /\ result.append = NextAppendRow(ReadCells(sheet, result.ref))
    /\ result.ref.type = "bitable" =>
          result.table.records = Numbered(RecordsOf(world[result.ref.id], result.ref),
                                          result.table.fields, world[result.ref.id].cut)

IsFailure(result) == result.error /\ result.append = 0 /\ result.table = NoTable

LEMMA FailedIsFailure ==
    ASSUME NEW ref
    PROVE  IsFailure(Failed(ref)) /\ Failed(ref).ref = ref
  BY DEF Failed, Result, IsFailure

LEMMA ResourceIsResolved ==
    ASSUME NEW world \in [Resources -> RemoteType], NEW ref \in KnownRefType,
           ref.type \in ReadableTypes
    PROVE  \/ ReadResource(world, ref) = Failed(ref)
           \/ \E r \in KnownRefType :
                 /\ r.type \in ReadableTypes /\ r.hint = ref.hint /\ r.page = ref.page
                 /\ ReadResource(world, ref) =
                       CASE r.type = "doc" -> ReadDoc(world[r.id], r)
                         [] r.type = "sheet" -> ReadSheet(world[r.id], r)
                         [] r.type = "bitable" -> ReadBitable(world[r.id], r)
                         [] r.type = "web" -> ReadWeb(world[r.id], r)
  <1> DEFINE resolved == IF ref.kind = "wiki" THEN ResolveWikiRef(world, ref) ELSE ref
  <1>1. ref \in RefType /\ ref.id \in Resources /\ world[ref.id] \in RemoteType
    BY DEF KnownRefType
  <1>2. \/ resolved = NoRef
        \/ /\ resolved \in KnownRefType /\ resolved.type \in ReadableTypes
           /\ resolved.hint = ref.hint /\ resolved.page = ref.page
    <2>1. CASE ref.kind # "wiki"
      BY <2>1
    <2>2. CASE ref.kind = "wiki"
      <3> DEFINE node == world[ref.id]
      <3>1. \/ ResolveWikiRef(world, ref) = NoRef
            \/ /\ node.leads # "none"
               /\ world[node.leads].type \in KnownTypes
               /\ ResolveWikiRef(world, ref) =
                     [ref EXCEPT !.id = node.leads, !.type = world[node.leads].type,
                                 !.kind = "resolved"]
        BY DEF ResolveWikiRef
      <3>2. node.leads \in Resources \cup {"none"}
        BY <1>1, RemoteTypes
      <3>3. ASSUME node.leads \in Resources, world[node.leads].type \in KnownTypes
            PROVE  LET r == [ref EXCEPT !.id = node.leads, !.type = world[node.leads].type,
                                        !.kind = "resolved"]
                   IN  /\ r \in KnownRefType /\ r.type \in ReadableTypes
                       /\ r.hint = ref.hint /\ r.page = ref.page
        <4>1. PICK id \in Resources, type \in KnownTypes :
                  id = node.leads /\ type = world[node.leads].type
          BY <3>3
        <4>2. id \in STRING /\ type \in STRING /\ type \in ReadableTypes
          BY ReaderAssumption, LiteralsAssumption DEF KnownTypes, ReadableTypes
        <4>3. [ref EXCEPT !.id = id, !.type = type, !.kind = "resolved"] \in RefType
          BY <1>1, <4>2, LiteralsAssumption DEF RefType
        <4> HIDE DEF node
        <4>4. [ref EXCEPT !.id = id, !.type = type, !.kind = "resolved"].id = id
              /\ [ref EXCEPT !.id = id, !.type = type, !.kind = "resolved"].type = type
              /\ [ref EXCEPT !.id = id, !.type = type, !.kind = "resolved"].hint = ref.hint
              /\ [ref EXCEPT !.id = id, !.type = type, !.kind = "resolved"].page = ref.page
          BY <1>1 DEF RefType
        <4>5. QED BY <4>1, <4>2, <4>3, <4>4 DEF KnownRefType
      <3>4. QED BY <2>2, <3>1, <3>2, <3>3
    <2>3. QED BY <2>1, <2>2
  <1>3. PICK r : r = resolved
    OBVIOUS
  <1>4. ReadResource(world, ref) =
            IF r = NoRef THEN Failed(ref)
            ELSE CASE r.type = "doc" -> ReadDoc(world[r.id], r)
                   [] r.type = "sheet" -> ReadSheet(world[r.id], r)
                   [] r.type = "bitable" -> ReadBitable(world[r.id], r)
                   [] r.type = "web" -> ReadWeb(world[r.id], r)
    BY <1>3 DEF ReadResource
  <1> HIDE DEF resolved
  <1>5. CASE r = NoRef
    BY <1>4, <1>5
  <1>6. CASE r # NoRef
    <2>1. /\ r \in KnownRefType /\ r.type \in ReadableTypes
          /\ r.hint = ref.hint /\ r.page = ref.page
      BY <1>2, <1>3, <1>6
    <2>2. QED BY <1>4, <1>6, <2>1
  <1>7. QED BY <1>5, <1>6

LEMMA SheetIsRead ==
    ASSUME NEW world \in [Resources -> RemoteType], NEW ref \in KnownRefType,
           NEW r \in KnownRefType, r.type = "sheet", r.hint = ref.hint
    PROVE  LET result == ReadSheet(world[r.id], r)
           IN  IsFailure(result) \/ IsRead(world, ref, result)
  <1> DEFINE remote == world[r.id]
             sheets == remote.sheets
             SheetType == [id : STRING, hidden : BOOLEAN, cells : SUBSET (Nat \X Nat)]
             at == {i \in 1..Len(sheets) : sheets[i].id = r.sheet}
             shown == {i \in 1..Len(sheets) : ~sheets[i].hidden}
             named == SelectInSeq(sheets, LAMBDA s : s.id = r.sheet)
             sheet == IF r.sheet = "none" THEN FirstVisibleSheet(sheets) ELSE sheets[named]
  <1>1. remote \in RemoteType /\ sheets \in Seq(SheetType) /\ r \in RefType
    BY RemoteTypes DEF KnownRefType
  <1>2. named = IF at # {} THEN Min(at) ELSE 0
    BY DEF SelectInSeq
  <1>3. named # 0 => named \in DOMAIN sheets
    <2> HIDE DEF sheets, SheetType
    <2> QED BY <1>1, <1>2, PlaceOf
  <1>4. sheets # <<>> => \E k \in DOMAIN sheets : FirstVisibleSheet(sheets) = sheets[k]
    <2> HIDE DEF SheetType
    <2>1. FirstVisibleSheet(sheets) =
              IF (IF shown # {} THEN Min(shown) ELSE 0) > 0
              THEN sheets[IF shown # {} THEN Min(shown) ELSE 0] ELSE sheets[1]
      BY DEF FirstVisibleSheet, SelectInSeq
    <2> HIDE DEF sheets
    <2>2. shown # {} => Min(shown) \in DOMAIN sheets /\ Min(shown) > 0
      BY <1>1, PlaceOf
    <2>3. CASE shown # {}
      BY <1>1, <2>1, <2>2, <2>3
    <2>4. CASE shown = {}
      BY <1>1, <2>1, <2>4
    <2>5. QED BY <2>3, <2>4
  <1> DEFINE fails == \/ r.sheet = "none" /\ (Refuses(remote, "sheets", "sheet") \/ sheets = <<>>)
                      \/ r.sheet # "none" /\ named = 0
                      \/ Refuses(remote, "values", "sheet") \/ r.page # NoPage
  <1>5. CASE fails
    <2>1. ReadSheet(remote, r) = Failed(r)
      BY <1>5 DEF ReadSheet
    <2>2. QED BY <2>1, FailedIsFailure
  <1>6. CASE ~fails
    <2>1. ReadSheet(remote, r) = [Result([r EXCEPT !.sheet = sheet.id])
                EXCEPT !.append = NextAppendRow(ReadCells(sheet, r))]
      BY <1>6 DEF ReadSheet
    <2>2. \E k \in DOMAIN sheets : sheet = sheets[k]
      <3> HIDE DEF SheetType, named, sheets
      <3> QED BY <1>1, <1>3, <1>4, <1>6
    <2>10. PICK k \in DOMAIN sheets : sheet = sheets[k]
      BY <2>2
    <2>3. PICK x : x = sheet /\ x = sheets[k]
      BY <2>10
    <2>4. PICK result : result = ReadSheet(remote, r)
      OBVIOUS
    <2> HIDE DEF sheet, named, SheetType, fails, at, shown
    <2>5. /\ result.ref = [r EXCEPT !.sheet = x.id] /\ result.error = FALSE
          /\ result.append = NextAppendRow(ReadCells(x, r))
      BY <2>1, <2>3, <2>4 DEF Result
    <2>6. /\ result.ref.id = r.id /\ result.ref.type = "sheet" /\ result.ref.hint = ref.hint
          /\ result.ref.hint = r.hint /\ result.ref.sheet = x.id
      BY <1>1, <2>5 DEF RefType
    <2>7. ReadCells(x, result.ref) = ReadCells(x, r)
      BY <2>6 DEF ReadCells
    <2>8. IsRead(world, ref, result)
      BY <2>3, <2>5, <2>6, <2>7 DEF IsRead, KnownRefType
    <2>9. QED BY <2>4, <2>8
  <1>7. QED BY <1>5, <1>6

LEMMA TableIsRead ==
    ASSUME NEW world \in [Resources -> RemoteType], NEW ref, NEW r \in KnownRefType,
           r.type = "bitable"
    PROVE  LET result == ReadBitable(world[r.id], r)
           IN  IsFailure(result) \/ IsRead(world, ref, result)
  <1> DEFINE remote == world[r.id]
             table == ResolveBitableTable(remote, r)
             records == RecordsOf(remote, r)
             fields == FieldsOf(remote, records)
             numbered == Numbered(records, fields, remote.cut)
  <1>1. CASE remote.type # "bitable" \/ table = "none"
    <2>1. ReadBitable(remote, r) = Failed(r)
      BY <1>1 DEF ReadBitable
    <2>2. QED BY <2>1, FailedIsFailure
  <1>2. CASE ~(remote.type # "bitable" \/ table = "none")
    <2>1. ReadBitable(remote, r) =
              [Result([r EXCEPT !.table = table])
                  EXCEPT !.table = [fields |-> fields, records |-> numbered]]
      BY <1>2 DEF ReadBitable
    <2>2. PICK result : result = ReadBitable(remote, r)
      OBVIOUS
    <2>3. r \in RefType
      BY DEF KnownRefType
    <2> HIDE DEF table, fields, numbered
    <2>4. /\ result.ref = [r EXCEPT !.table = table] /\ result.error = FALSE
          /\ result.table.records = numbered /\ result.table.fields = fields
      BY <2>1, <2>2 DEF Result
    <2>5. result.ref.id = r.id /\ result.ref.type = "bitable" /\ result.ref.view = r.view
      BY <2>3, <2>4 DEF RefType
    <2>6. RecordsOf(remote, result.ref) = RecordsOf(remote, r)
      BY <2>5 DEF RecordsOf
    <2>7. result.table.records = Numbered(RecordsOf(world[result.ref.id], result.ref),
                                          result.table.fields, world[result.ref.id].cut)
      BY <2>4, <2>5, <2>6 DEF numbered
    <2>8. IsRead(world, ref, result)
      BY <2>4, <2>5, <2>7 DEF IsRead, KnownRefType
    <2>9. QED BY <2>2, <2>8
  <1>3. QED BY <1>1, <1>2

LEMMA ResourceIsRead ==
    ASSUME NEW world \in [Resources -> RemoteType], NEW ref \in KnownRefType,
           ref.type \in ReadableTypes
    PROVE  LET result == ReadResource(world, ref)
           IN  IsFailure(result) \/ IsRead(world, ref, result)
  <1>1. CASE ReadResource(world, ref) = Failed(ref)
    BY <1>1, FailedIsFailure
  <1>2. ASSUME NEW r \in KnownRefType, r.type \in ReadableTypes, r.hint = ref.hint,
               ReadResource(world, ref) =
                   CASE r.type = "doc" -> ReadDoc(world[r.id], r)
                     [] r.type = "sheet" -> ReadSheet(world[r.id], r)
                     [] r.type = "bitable" -> ReadBitable(world[r.id], r)
                     [] r.type = "web" -> ReadWeb(world[r.id], r)
        PROVE  LET result == ReadResource(world, ref)
               IN  IsFailure(result) \/ IsRead(world, ref, result)
    <2>1. CASE r.type = "doc"
      <3>1. ReadResource(world, ref) = ReadDoc(world[r.id], r)
        BY <1>2, <2>1
      <3>2. PICK result : result = ReadDoc(world[r.id], r)
        OBVIOUS
      <3>3. result = Failed(r) \/ (result.ref = r /\ result.error = FALSE)
        BY <3>2 DEF ReadDoc, Result
      <3>4. IsFailure(result) \/ IsRead(world, ref, result)
        BY <2>1, <3>3, FailedIsFailure DEF IsRead
      <3>5. QED BY <3>1, <3>2, <3>4
    <2>2. CASE r.type = "web"
      <3>1. ReadResource(world, ref) = ReadWeb(world[r.id], r)
        BY <1>2, <2>2
      <3>2. PICK result : result = ReadWeb(world[r.id], r)
        OBVIOUS
      <3>3. result = Failed(r) \/ (result.ref = r /\ result.error = FALSE)
        BY <3>2 DEF ReadWeb, Result
      <3>4. IsFailure(result) \/ IsRead(world, ref, result)
        BY <2>2, <3>3, FailedIsFailure DEF IsRead
      <3>5. QED BY <3>1, <3>2, <3>4
    <2>3. CASE r.type = "sheet"
      BY <1>2, <2>3, SheetIsRead
    <2>4. CASE r.type = "bitable"
      BY <1>2, <2>4, TableIsRead
    <2>5. QED BY <1>2, <2>1, <2>2, <2>3, <2>4 DEF ReadableTypes
  <1>3. QED BY <1>1, <1>2, ResourceIsResolved

-------------------------------------------------------------------------------
(* Fields of tables *)

(* A score a field can have. *)
Scores == {n \in Int : -1000 =< n /\ n =< 1000}

(* Of some scores there is a greatest one. *)
LEMMA GreatestScore ==
    ASSUME NEW S, S # {}, NEW score, \A i \in S : score[i] \in Scores
    PROVE  \E i \in S : \A j \in S : score[j] =< score[i]
  <1> DEFINE T == {1000 - score[i] : i \in S}
  <1>1. T \in SUBSET Nat /\ T # {}
    <2>1. \A n \in Scores : 1000 - n \in Nat
      BY DEF Scores
    <2>2. QED BY <2>1
  <1> HIDE DEF T
  <1>2. PICK n \in T : \A m \in T : n =< m
    BY <1>1, LeastOf
  <1>3. PICK i \in S : n = 1000 - score[i]
    BY <1>2 DEF T
  <1>4. ASSUME NEW j \in S PROVE score[j] =< score[i]
    <2>1. score[j] \in Int /\ score[i] \in Int
      BY <1>3 DEF Scores
    <2>2. 1000 - score[j] \in T
      BY DEF T
    <2>3. 1000 - score[i] =< 1000 - score[j]
      BY <1>2, <1>3, <2>2
    <2>4. QED BY <2>1, <2>3
  <1>5. QED BY <1>3, <1>4

LEMMA BestIsField ==
    ASSUME NEW table \in TableType, NEW S \in SUBSET DOMAIN table.fields, S # {}, NEW score,
           \A i \in S : score[i] \in Scores
    PROVE  BestOf(table, S, score) \in FieldNames(table)
  <1> DEFINE best == {i \in S : \A j \in S : score[j] =< score[i]}
  <1>1. PICK fields \in Seq(FieldType) : fields = table.fields
    BY DEF TableType
  <1>2. best # {}
    BY GreatestScore
  <1>3. best \in SUBSET Nat /\ best \subseteq DOMAIN fields
    BY <1>1
  <1>4. BestOf(table, S, score) = table.fields[Min(best)].name
    BY DEF BestOf
  <1> HIDE DEF best
  <1>5. Min(best) \in best
    BY <1>2, <1>3, MinOf
  <1>6. QED BY <1>1, <1>3, <1>4, <1>5 DEF FieldNames

LEMMA ScoresAreBounded ==
    ASSUME NEW says, NEW field
    PROVE  /\ ModelScore(says, field) \in Scores
           /\ RequestScore(says, field) \in Scores
           /\ FieldScore(field, says) \in Scores
  <1>1. \A mentions : LET n == Weigh(mentions, ModelWeight)
                      IN  n \in Int /\ -100 =< n /\ n =< 200
    BY DEF Weigh, ModelWeight
  <1>2. \A mentions : LET n == Weigh(mentions, RequestWeight)
                      IN  n \in Int /\ 0 =< n /\ n =< 100
    BY DEF Weigh, RequestWeight
  <1>3. ModelScore(says, field) \in Scores
    BY <1>1 DEF ModelScore, Scores
  <1>4. RequestScore(says, field) \in Scores
    BY <1>2 DEF RequestScore, Scores
  <1>5. FieldScore(field, says) \in Scores
    BY DEF FieldScore, Scores
  <1>6. QED BY <1>3, <1>4, <1>5

(* A field an update or a new record goes to is one of the table's. *)
LEMMA FieldsAreNamed ==
    ASSUME NEW table \in TableType, NEW wanted, NEW answer
    PROVE  /\ UpdateField(wanted, answer, table) \in FieldNames(table) \cup {"none"}
           /\ InferWriteField(wanted, answer, table) \in FieldNames(table) \cup {"none"}
  <1> DEFINE fields == table.fields
             scored == {i \in DOMAIN fields : ModelScore(answer, fields[i]) # 0}
             named == {i \in DOMAIN fields : wanted.mentions[fields[i].name] # {}}
  <1>1. scored # {} =>
            BestOf(table, scored, [i \in scored |-> ModelScore(answer, fields[i])])
                \in FieldNames(table)
    <2> SUFFICES ASSUME scored # {}
                 PROVE  BestOf(table, scored, [i \in scored |-> ModelScore(answer, fields[i])])
                            \in FieldNames(table)
      OBVIOUS
    <2>1. PICK S \in SUBSET DOMAIN fields : S = scored
      OBVIOUS
    <2>2. PICK score : score = [i \in S |-> ModelScore(answer, fields[i])]
      OBVIOUS
    <2>3. \A i \in S : score[i] \in Scores
      BY <2>2, ScoresAreBounded
    <2> HIDE DEF scored
    <2>4. BestOf(table, S, score) \in FieldNames(table)
      BY <2>1, <2>3, BestIsField
    <2>5. QED BY <2>1, <2>2, <2>4
  <1>2. named # {} =>
            BestOf(table, named, [i \in named |-> RequestScore(wanted, fields[i])])
                \in FieldNames(table)
    <2> SUFFICES ASSUME named # {}
                 PROVE  BestOf(table, named, [i \in named |-> RequestScore(wanted, fields[i])])
                            \in FieldNames(table)
      OBVIOUS
    <2>1. PICK S \in SUBSET DOMAIN fields : S = named
      OBVIOUS
    <2>2. PICK score : score = [i \in S |-> RequestScore(wanted, fields[i])]
      OBVIOUS
    <2>3. \A i \in S : score[i] \in Scores
      BY <2>2, ScoresAreBounded
    <2> HIDE DEF named
    <2>4. BestOf(table, S, score) \in FieldNames(table)
      BY <2>1, <2>3, BestIsField
    <2>5. QED BY <2>1, <2>2, <2>4
  <1>3. fields # <<>> =>
            BestOf(table, DOMAIN fields, [i \in DOMAIN fields |-> FieldScore(fields[i], wanted)])
                \in FieldNames(table)
    <2> SUFFICES ASSUME fields # <<>>
                 PROVE  BestOf(table, DOMAIN fields,
                               [i \in DOMAIN fields |-> FieldScore(fields[i], wanted)])
                            \in FieldNames(table)
      OBVIOUS
    <2>1. DOMAIN fields # {}
      <3>1. PICK s \in Seq(FieldType) : s = fields
        BY DEF TableType
      <3>2. 1 \in DOMAIN s
        BY <3>1
      <3>3. QED BY <3>1, <3>2
    <2>2. PICK score : score = [i \in DOMAIN fields |-> FieldScore(fields[i], wanted)]
      OBVIOUS
    <2>3. \A i \in DOMAIN fields : score[i] \in Scores
      BY <2>2, ScoresAreBounded
    <2>4. BestOf(table, DOMAIN fields, score) \in FieldNames(table)
      BY <2>1, <2>3, BestIsField
    <2>5. QED BY <2>2, <2>4
  <1>4. UpdateFieldFromModelText(answer, table) \in FieldNames(table) \cup {"none"}
    BY <1>1 DEF UpdateFieldFromModelText
  <1>5. UpdateFieldFromRequest(wanted, table) \in FieldNames(table) \cup {"none"}
    BY <1>2 DEF UpdateFieldFromRequest
  <1>6. InferWriteField(wanted, answer, table) \in FieldNames(table) \cup {"none"}
    BY <1>3 DEF InferWriteField
  <1>7. QED BY <1>4, <1>5, <1>6 DEF UpdateField, NameOr

-------------------------------------------------------------------------------
(* Records of tables *)

LEMMA RecordsAreFinite ==
    ASSUME NEW T, NEW s \in Seq(T)
    PROVE  IsFiniteSet(ToSet(s))
  <1>1. IsFiniteSet(1..Len(s)) /\ DOMAIN s = 1..Len(s)
    BY FS_Interval
  <1>2. s \in Surjection(1..Len(s), ToSet(s))
    BY <1>1 DEF Surjection, ToSet
  <1>3. QED BY <1>1, <1>2, FS_Surjection

(* Only one of the records fits, and this is it. *)
LEMMA OnlyOneMatches ==
    ASSUME NEW T, NEW s \in Seq(T), NEW at \in SUBSET ToSet(s), OnlyMatch(at) # "none"
    PROVE  \E r \in ToSet(s) : at = {r} /\ r.id = OnlyMatch(at)
  <1>1. IsFiniteSet(at)
    BY RecordsAreFinite, FS_Subset
  <1>2. Cardinality(at) = 1
    BY DEF OnlyMatch
  <1>3. PICK r : at = {r}
    BY <1>1, <1>2, FS_Singleton
  <1>4. r \in ToSet(s) /\ OnlyMatch(at) = r.id
    BY <1>2, <1>3 DEF OnlyMatch
  <1>5. QED BY <1>3, <1>4

(* How a record is told: by its id, its row, the last row, or by a value that no
   other record has. *)
ToldBy(table, id, row, record) ==
    \/ id = record
    \/ \E q \in ToSet(table.records) : q.index = row /\ q.id = record
    \/ row = -1 /\ table.records # <<>> /\ record = LastRecord(table).id

ToldByValue(table, pair, field, record) ==
    /\ pair # NoPair /\ pair.value # "none"
    /\ \E q : /\ {r \in ToSet(table.records) : Matches(r, [pair |-> pair], field)} = {q}
              /\ q.id = record

LEMMA SelectedRecord ==
    ASSUME NEW table \in TableType, NEW says, NEW field,
           \A q \in ToSet(table.records) : q.index > 0, table.records # <<>>,
           FindBitableRecord(table, SelectorOf(says), field) # "none"
    PROVE  LET record == FindBitableRecord(table, SelectorOf(says), field)
           IN  \/ ToldBy(table, says.id, says.row, record)
               \/ ToldByValue(table, says.pair, field, record)
  <1> DEFINE selector == SelectorOf(says)
             record == FindBitableRecord(table, selector, field)
             at == {r \in ToSet(table.records) : r.index = selector.row}
             fit == {r \in ToSet(table.records) : Matches(r, selector, field)}
  <1>1. /\ selector.id \in {says.id, "none"} /\ selector.pair \in {says.pair, NoPair}
        /\ selector.row \in {says.row, 0}
        /\ selector.id # "none" => selector.id = says.id
    BY DEF SelectorOf, NoSelector
  <1>2. table.records \in Seq(RecordType)
    BY DEF TableType
  <1>3. \A q \in ToSet(table.records) : q.index # 0
    <2> SUFFICES ASSUME NEW q \in ToSet(table.records) PROVE q.index # 0
      OBVIOUS
    <2>1. q.index > 0
      OBVIOUS
    <2>2. QED BY <2>1
  <1>4. CASE selector.id # "none"
    <2>1. record = says.id
      BY <1>1, <1>4 DEF FindBitableRecord
    <2>2. QED BY <2>1 DEF ToldBy
  <1>5. CASE selector.id = "none" /\ selector.row = -1
    <2>1. record = LastRecord(table).id
      BY <1>5 DEF FindBitableRecord
    <2>2. says.row = -1
      BY <1>1, <1>5
    <2>3. QED BY <2>1, <2>2 DEF ToldBy
  <1>6. CASE selector.id = "none" /\ selector.row # -1 /\ at # {}
    <2>1. record = OnlyMatch(at)
      BY <1>6 DEF FindBitableRecord
    <2>2. at \in SUBSET ToSet(table.records) /\ OnlyMatch(at) # "none"
      BY <2>1
    <2>3. PICK q \in ToSet(table.records) : at = {q} /\ q.id = record
      <3> HIDE DEF at
      <3> QED BY <1>2, <2>1, <2>2, OnlyOneMatches
    <2>4. q.index = selector.row
      BY <2>3
    <2>5. selector.row = says.row
      BY <1>1, <1>3, <2>4
    <2>6. QED BY <2>3, <2>4, <2>5 DEF ToldBy
  <1>7. CASE selector.id = "none" /\ selector.row # -1 /\ at = {}
    <2>1. record = IF selector.pair.value = "none" THEN "none" ELSE OnlyMatch(fit)
      BY <1>7 DEF FindBitableRecord
    <2>2. /\ selector.pair # NoPair /\ selector.pair.value # "none"
          /\ record = OnlyMatch(fit) /\ OnlyMatch(fit) # "none"
      BY <2>1 DEF NoPair
    <2>3. fit \in SUBSET ToSet(table.records)
      OBVIOUS
    <2>4. PICK q \in ToSet(table.records) : fit = {q} /\ q.id = record
      <3> HIDE DEF fit
      <3> QED BY <1>2, <2>2, <2>3, OnlyOneMatches
    <2>5. selector.pair = says.pair
      BY <1>1, <2>2
    <2>6. \A r : Matches(r, selector, field) = Matches(r, [pair |-> says.pair], field)
      BY <2>5 DEF Matches
    <2>7. fit = {r \in ToSet(table.records) : Matches(r, [pair |-> says.pair], field)}
      BY <2>6
    <2>8. ToldByValue(table, says.pair, field, record)
      BY <2>2, <2>4, <2>5, <2>7 DEF ToldByValue
    <2>9. QED BY <2>8
  <1>8. QED BY <1>4, <1>5, <1>6, <1>7

(* The last record that is numbered has the greatest number. *)
LEMMA LastIsNumbered ==
    ASSUME NEW table, NEW records \in Seq(RecordType), table.records = records, records # <<>>,
           \A i \in DOMAIN records : records[i].index = i
    PROVE  LastRecord(table) = records[Len(records)]
  <1> DEFINE last == records[Len(records)]
  <1>1. Len(records) \in DOMAIN records /\ DOMAIN records = 1..Len(records) /\ Len(records) \in Nat
    OBVIOUS
  <1>2. ToSet(records) = {records[i] : i \in DOMAIN records}
    BY DEF ToSet
  <1>3. last \in ToSet(records) /\ \A q \in ToSet(records) : q.index =< last.index
    BY <1>1, <1>2
  <1>4. ASSUME NEW q \in ToSet(records), \A x \in ToSet(records) : x.index =< q.index
        PROVE  q = last
    <2>1. PICK i \in DOMAIN records : q = records[i]
      BY <1>2
    <2>2. last.index =< q.index
      BY <1>3, <1>4
    <2>3. Len(records) =< i
      BY <1>1, <2>1, <2>2
    <2>4. i = Len(records)
      BY <1>1, <2>3
    <2>5. QED BY <2>1, <2>4
  <1> HIDE DEF last
  <1>5. (CHOOSE x \in ToSet(records) : \A q \in ToSet(records) : q.index =< x.index) = last
    BY <1>3, <1>4
  <1>6. QED BY <1>5 DEF LastRecord, last

(* Every result of a request is a failure, or what stands behind an address. *)
Reads(r) ==
    \A i \in DOMAIN r.results :
        \/ IsFailure(r.results[i])
        \/ \E j \in DOMAIN r.refs : IsRead(Worlds[r.world], r.refs[j], r.results[i])

LEMMA TableIsNumbered ==
    ASSUME NEW r \in RequestType, Reads(r), NEW ref
    PROVE  LET table == TableOf(r, ref)
           IN  /\ table \in TableType
               /\ \A q \in ToSet(table.records) : q.index > 0
               /\ table.records # <<>> =>
                      \E i \in DOMAIN r.results :
                          LET order == RecordsOf(Worlds[r.world][ref.id], r.results[i].ref)
                              remote == Worlds[r.world][ref.id]
                          IN  /\ r.results[i].ref.id = ref.id
                              /\ order \in Seq(StoredRecordType) /\ remote \in RemoteType
                              /\ table.records = Numbered(order, table.fields, remote.cut)
  <1> DEFINE at == {i \in 1..Len(r.results) : /\ r.results[i].ref.type = "bitable"
                                              /\ r.results[i].ref.id = ref.id}
             k == IF at # {} THEN Min(at) ELSE 0
             table == TableOf(r, ref)
  <1>1. PICK results \in Seq(ResultType) : results = r.results
    BY DEF RequestType
  <1>2. table = IF k = 0 THEN NoTable ELSE r.results[k].table
    BY DEF TableOf, SelectInSeq
  <1>3. k = 0 \/ (k \in DOMAIN results /\ k # 0 /\ results[k].ref.type = "bitable"
                  /\ results[k].ref.id = ref.id)
    <2>1. at \in SUBSET (1..Len(results))
      BY <1>1
    <2>2. \A i \in at : results[i].ref.type = "bitable" /\ results[i].ref.id = ref.id
      BY <1>1
    <2> HIDE DEF at
    <2>3. at # {} => Min(at) \in at /\ Min(at) \in DOMAIN results /\ Min(at) > 0
      BY <2>1, PlaceOf
    <2>4. QED BY <2>2, <2>3
  <1> HIDE DEF k, table
  <1>4. NoTable.records = <<>> /\ ToSet(NoTable.records) = {}
    BY DEF NoTable, ToSet
  <1>5. CASE k = 0
    BY <1>2, <1>4, <1>5, PlainTypes DEF table
  <1>6. CASE k # 0
    <2>1. k \in DOMAIN results /\ results[k] \in ResultType /\ table = results[k].table
          /\ results[k].ref.type = "bitable" /\ results[k].ref.id = ref.id
      BY <1>1, <1>2, <1>3, <1>6
    <2>2. table \in TableType
      BY <2>1 DEF ResultType
    <2>3. CASE IsFailure(results[k])
      <3>1. table = NoTable
        BY <2>1, <2>3 DEF IsFailure
      <3>2. QED BY <1>4, <2>2, <3>1 DEF table
    <2>4. CASE ~IsFailure(results[k])
      <3>1. PICK j \in DOMAIN r.refs : IsRead(Worlds[r.world], r.refs[j], results[k])
        BY <1>1, <2>1, <2>4 DEF Reads
      <3>2. ref.id \in Resources
            /\ table.records = Numbered(RecordsOf(Worlds[r.world][ref.id], results[k].ref),
                                        table.fields, Worlds[r.world][ref.id].cut)
        BY <2>1, <3>1 DEF IsRead
      <3>3. PICK order : order = RecordsOf(Worlds[r.world][ref.id], results[k].ref)
        OBVIOUS
      <3>4. order \in Seq(StoredRecordType) /\ Worlds[r.world][ref.id] \in RemoteType
        <4>1. Worlds[r.world][ref.id] \in RemoteType
          BY <3>2, WorldsAssumption DEF RequestType
        <4>2. QED BY <3>3, <4>1, RemoteTypes DEF RecordsOf
      <3>5. PICK numbered \in Seq(RecordType) :
                /\ numbered = table.records
                /\ numbered = Numbered(order, table.fields, Worlds[r.world][ref.id].cut)
                /\ \A i \in DOMAIN numbered : numbered[i].index = i
        <4>1. PICK fields \in Seq(FieldType) : fields = table.fields
          BY <2>2 DEF TableType
        <4>2. PICK cut \in CutType : cut = Worlds[r.world][ref.id].cut
          BY <3>4, RemoteTypes
        <4>3. PICK numbered : numbered = Numbered(order, fields, cut)
          OBVIOUS
        <4>4. /\ numbered \in Seq(RecordType)
              /\ \A i \in DOMAIN numbered :
                     numbered[i] = RecordFromLine(i, LineLeft(order[i], fields, i, cut))
          BY <3>4, <4>3, NumberedType
        <4>5. \A i \in DOMAIN numbered : numbered[i].index = i
          BY <4>4 DEF RecordFromLine
        <4>6. QED BY <3>2, <3>3, <4>1, <4>2, <4>3, <4>4, <4>5
      <3>6. \A q \in ToSet(table.records) : q.index > 0
        <4>1. \A i \in DOMAIN numbered : i > 0
          OBVIOUS
        <4>2. QED BY <3>5, <4>1 DEF ToSet
      <3>7. QED BY <1>1, <2>1, <2>2, <3>3, <3>4, <3>5, <3>6 DEF table
    <2>5. QED BY <2>3, <2>4
  <1>7. QED BY <1>5, <1>6

-------------------------------------------------------------------------------
(* Where proposals go *)

PlansOf(r) == UNION {ToSet(answer.plans) : answer \in r.answers}
ProsesOf(r) == {a.prose : a \in r.answers} \cup {a.left : a \in r.answers}
SaysOf(r) == {r.text.about} \cup {prose.about : prose \in ProsesOf(r)}

(* The cells somebody stated: the user, the answer, a plan or a link. *)
Stated(r) ==
    {SheetRangeFromText(r.text.place)} \cup {prose.cell : prose \in ProsesOf(r)}
    \cup {plan.cell : plan \in PlansOf(r)} \cup {r.refs[i].hint : i \in DOMAIN r.refs}

(* A write to a sheet goes to a cell that was stated, or below what was read. *)
Lands(r, p) ==
    LET ref == FirstWritable(r, "sheet")
    IN  /\ ref # NoRef /\ p.ref = ref.id /\ p.sheet = ref.sheet
        /\ \/ p.cell \in Stated(r)
           \/ ref.hint = NoCell /\ p.cell.row = SheetAppendRow(r, ref)

(* An update goes to a record that was told, and to a field of the table or a plan. *)
Picks(r, p) ==
    LET ref == FirstWritable(r, "bitable")
        table == TableOf(r, ref)
    IN  /\ p.ref = ref.id /\ p.record # "none"
        /\ p.field \in FieldNames(table) \cup {plan.field : plan \in PlansOf(r)}
        /\ \/ \E plan \in PlansOf(r) : ToldBy(table, plan.record, plan.row, p.record)
           \/ \E says \in SaysOf(r) : \/ ToldBy(table, says.id, says.row, p.record)
                                      \/ ToldByValue(table, says.pair, p.field, p.record)

Aims(r, p) ==
    (p.type = "sheet_write" => Lands(r, p)) /\ (p.type = "bitable_update" => Picks(r, p))

(* What a correction may read of an answer. *)
Said(r, prose) ==
    prose.cell \in {NoCell} \cup Stated(r) /\ prose.about \in {Silent} \cup SaysOf(r)

(* The fields of a proposal, and those that say where it goes. *)
Shaped(p) ==
    p = [type |-> p.type, ref |-> p.ref, sheet |-> p.sheet, start |-> p.start,
         cell |-> p.cell, record |-> p.record, field |-> p.field, content |-> p.content,
         preview |-> p.preview, shown |-> p.shown]

Goes(p) == <<p.type, p.ref, p.sheet, p.cell, p.record, p.field>>

LEMMA SameAim ==
    ASSUME NEW r, NEW p, NEW q, Goes(q) = Goes(p)
    PROVE  Aims(r, q) <=> Aims(r, p)
  <1>1. /\ q.type = p.type /\ q.ref = p.ref /\ q.sheet = p.sheet /\ q.cell = p.cell
        /\ q.record = p.record /\ q.field = p.field
    BY DEF Goes
  <1>2. QED BY <1>1 DEF Aims, Lands, Picks

LEMMA GoesOn ==
    ASSUME NEW p, Shaped(p), NEW value
    PROVE  /\ Shaped([p EXCEPT !.content = value]) /\ Goes([p EXCEPT !.content = value]) = Goes(p)
           /\ Shaped([p EXCEPT !.start = value]) /\ Goes([p EXCEPT !.start = value]) = Goes(p)
           /\ Shaped([p EXCEPT !.preview = value]) /\ Goes([p EXCEPT !.preview = value]) = Goes(p)
           /\ Shaped([p EXCEPT !.shown = value]) /\ Goes([p EXCEPT !.shown = value]) = Goes(p)
           /\ Shaped([p EXCEPT !.cell = value])
           /\ Goes([p EXCEPT !.cell = value]) =
                  <<p.type, p.ref, p.sheet, value, p.record, p.field>>
           /\ Shaped([p EXCEPT !.record = value])
           /\ Goes([p EXCEPT !.record = value]) =
                  <<p.type, p.ref, p.sheet, p.cell, value, p.field>>
           /\ Shaped([p EXCEPT !.field = value])
           /\ Goes([p EXCEPT !.field = value]) =
                  <<p.type, p.ref, p.sheet, p.cell, p.record, value>>
           /\ Shaped([p EXCEPT !.type = value])
           /\ Goes([p EXCEPT !.type = value]) =
                  <<value, p.ref, p.sheet, p.cell, p.record, p.field>>
  <1>1. PICK type, ref, sheet, start, cell, record, field, content, preview, shown :
            p = [type |-> type, ref |-> ref, sheet |-> sheet, start |-> start, cell |-> cell,
                 record |-> record, field |-> field, content |-> content,
                 preview |-> preview, shown |-> shown]
    BY DEF Shaped
  <1>2. QED BY <1>1 DEF Shaped, Goes

LEMMA PreviewGoes ==
    ASSUME NEW p, Shaped(p), NEW plan
    PROVE  /\ Shaped(Previewed(p)) /\ Goes(Previewed(p)) = Goes(p)
           /\ Shaped(Worded(plan, p)) /\ Goes(Worded(plan, p)) = Goes(p)
  BY GoesOn DEF Previewed, Worded

LEMMA ProposalGoes ==
    ASSUME NEW type, NEW ref, NEW content
    PROVE  /\ Shaped(Proposal(type, ref, content))
           /\ Goes(Proposal(type, ref, content)) =
                  <<type, ref.id, ref.sheet, NoCell, "none", "none">>
  <1> DEFINE p == [type |-> type, ref |-> ref.id, sheet |-> ref.sheet, start |-> FALSE,
                   cell |-> NoCell, record |-> "none", field |-> "none", content |-> content,
                   preview |-> <<>>, shown |-> "none"]
  <1>1. Shaped(p) /\ Goes(p) = <<type, ref.id, ref.sheet, NoCell, "none", "none">>
    BY DEF Shaped, Goes
  <1>2. Proposal(type, ref, content) = Previewed(p)
    BY DEF Proposal
  <1> HIDE DEF p
  <1>3. QED BY <1>1, <1>2, PreviewGoes

LEMMA HintIsStated ==
    ASSUME NEW r \in RequestType, Reads(r), FirstWritable(r, "sheet") # NoRef
    PROVE  FirstWritable(r, "sheet").hint \in Stated(r)
  <1> DEFINE ref == FirstWritable(r, "sheet")
  <1>1. \A i \in DOMAIN r.refs : r.refs[i].hint \in Stated(r)
    BY DEF Stated
  <1>2. CASE \E i \in DOMAIN r.refs : ref = r.refs[i]
    BY <1>1, <1>2
  <1>3. ASSUME NEW i \in DOMAIN r.results, ref = r.results[i].ref, r.results[i].ref.type = "sheet",
               ~r.results[i].error
        PROVE  ref.hint \in Stated(r)
    <2>1. ~IsFailure(r.results[i])
      BY <1>3 DEF IsFailure
    <2>2. PICK j \in DOMAIN r.refs : IsRead(Worlds[r.world], r.refs[j], r.results[i])
      BY <2>1 DEF Reads
    <2>3. r.results[i].ref.hint = r.refs[j].hint
      BY <1>3, <2>2 DEF IsRead
    <2>4. QED BY <1>1, <1>3, <2>3
  <1> HIDE DEF ref
  <1>4. \/ \E i \in DOMAIN r.results : /\ ref = r.results[i].ref
                                       /\ r.results[i].ref.type = "sheet" /\ ~r.results[i].error
        \/ \E i \in DOMAIN r.refs : ref = r.refs[i]
    BY WritableIsFound, "sheet" # "bitable" DEF ref
  <1>5. QED BY <1>2, <1>3, <1>4 DEF ref

(* The cell a write without a plan goes to. *)
LEMMA RangeLands ==
    ASSUME NEW r \in RequestType, Reads(r), NEW prose, Said(r, prose),
           FirstWritable(r, "sheet") # NoRef
    PROVE  LET ref == FirstWritable(r, "sheet")
               cell == SheetWriteRange(r, ref, prose)
           IN  \/ cell = NoCell \/ cell \in Stated(r)
               \/ ref.hint = NoCell /\ cell.row = SheetAppendRow(r, ref)
  <1> DEFINE ref == FirstWritable(r, "sheet")
             last == [column |-> <<0>>, row |-> SheetAppendRow(r, ref)]
             target == SheetWriteTarget(r.text, prose)
             cell == SheetWriteRange(r, ref, prose)
  <1>1. ref.hint \in Stated(r)
    BY HintIsStated
  <1>2. target \in {NoCell} \cup Stated(r)
    BY DEF SheetWriteTarget, CellOr, Said, Stated
  <1>3. last.row = SheetAppendRow(r, ref)
    OBVIOUS
  <1> HIDE DEF last, target
  <1>4. cell = CellOr(ref.hint, CellOr(target, IF HasReplacementOrDeleteIntent(r.text)
                                               THEN NoCell ELSE last))
    BY DEF SheetWriteRange, last, target
  <1> HIDE DEF ref, cell
  <1>5. \/ cell = NoCell \/ cell \in Stated(r) \/ (ref.hint = NoCell /\ cell = last)
    BY <1>1, <1>2, <1>4 DEF CellOr
  <1>6. QED BY <1>3, <1>5 DEF ref, cell

(* The record and the field of an update without a plan. *)
LEMMA UpdateIsTold ==
    ASSUME NEW r \in RequestType, Reads(r), NEW prose, Said(r, prose), NEW ref,
           BitableUpdatePlan(r.text.about, prose.about, TableOf(r, ref)) # NoUpdate
    PROVE  LET table == TableOf(r, ref)
               update == BitableUpdatePlan(r.text.about, prose.about, table)
           IN  /\ update.field \in FieldNames(table) /\ update.record # "none"
               /\ \E says \in SaysOf(r) :
                     \/ ToldBy(table, says.id, says.row, update.record)
                     \/ ToldByValue(table, says.pair, update.field, update.record)
  <1> DEFINE about == r.text.about
             table == TableOf(r, ref)
             field == UpdateField(about, prose.about, table)
             selector == MatchSelector(about, prose.about)
             record == FindBitableRecord(table, selector, field)
             update == BitableUpdatePlan(about, prose.about, table)
  <1>1. table \in TableType /\ \A q \in ToSet(table.records) : q.index > 0
    BY TableIsNumbered
  <1>2. /\ table.records # <<>> /\ field # "none" /\ selector # NoSelector
        /\ record # "none" /\ update = [record |-> record, field |-> field]
    <2> HIDE DEF about, table, field, selector, record
    <2>1. update = IF table.fields = <<>> \/ table.records = <<>> THEN NoUpdate
                   ELSE IF field = "none" \/ selector = NoSelector THEN NoUpdate
                   ELSE IF record = "none" THEN NoUpdate
                   ELSE [record |-> record, field |-> field]
      BY DEF BitableUpdatePlan, UpdateWhere, UpdateTo, field, selector, record
    <2>2. update # NoUpdate
      BY DEF about, table
    <2> HIDE DEF update
    <2>3. QED BY <2>1, <2>2
  <1>3. field \in FieldNames(table)
    <2>1. field \in FieldNames(table) \cup {"none"}
      BY <1>1, FieldsAreNamed
    <2>2. QED BY <1>2, <2>1
  <1>4. PICK says \in {about, prose.about} : selector = SelectorOf(says)
    BY DEF MatchSelector
  <1>5. says \in SaysOf(r)
    <2>1. SelectorOf(Silent) = NoSelector
      BY DEF SelectorOf, Silent, NoSelector
    <2>2. says # Silent
      BY <1>2, <1>4, <2>1
    <2>3. QED BY <1>4, <2>2 DEF Said, SaysOf
  <1>6. \/ ToldBy(table, says.id, says.row, record)
        \/ ToldByValue(table, says.pair, field, record)
    <2> HIDE DEF about, table, field, selector
    <2>1. FindBitableRecord(table, SelectorOf(says), field) = record
      BY <1>4
    <2>2. FindBitableRecord(table, SelectorOf(says), field) # "none"
      BY <1>2, <2>1
    <2>3. QED BY <1>1, <1>2, <2>1, <2>2, SelectedRecord
  <1> HIDE DEF about, table, field, selector, record, update
  <1>7. update.record = record /\ update.field = field
    BY <1>2
  <1>8. QED BY <1>2, <1>3, <1>5, <1>6, <1>7 DEF table, update, about

-------------------------------------------------------------------------------
(* Plans *)

LEMMA PlainSaysNothing ==
    ASSUME NEW r
    PROVE  Said(r, PlainProse)
  BY DEF Said, PlainProse

LEMMA SheetPlanLands ==
    ASSUME NEW r \in RequestType, Reads(r), NEW plan \in PlansOf(r), NEW p,
           LET ref == FirstWritable(r, "sheet")
           IN  SheetPlanProposal(plan, ref, PlannedCell(r, plan, ref)) = <<p>>
    PROVE  Aims(r, p)
  <1> DEFINE ref == FirstWritable(r, "sheet")
             cell == PlannedCell(r, plan, ref)
             d == Proposal("sheet_write", ref, plan.content)
             made == SheetPlanProposal(plan, ref, cell)
  <1>1. made # <<>> => /\ ref # NoRef /\ cell # NoCell
                       /\ made = <<Worded(plan, [d EXCEPT !.cell = cell])>>
    <2> HIDE DEF ref, cell
    <2>1. QED BY DEF SheetPlanProposal
  <1>2. made = <<p>>
    OBVIOUS
  <1>3. plan.cell \in Stated(r)
    BY DEF Stated
  <1>4. ref # NoRef /\ cell # NoCell =>
            \/ cell \in Stated(r) \/ (ref.hint = NoCell /\ cell.row = SheetAppendRow(r, ref))
    <2> SUFFICES ASSUME ref # NoRef, cell # NoCell
                 PROVE  \/ cell \in Stated(r)
                        \/ ref.hint = NoCell /\ cell.row = SheetAppendRow(r, ref)
      OBVIOUS
    <2>1. cell = CellOr(plan.cell, SheetWriteRange(r, ref, PlainProse))
      BY DEF PlannedCell
    <2>2. LET range == SheetWriteRange(r, ref, PlainProse)
          IN  \/ range = NoCell \/ range \in Stated(r)
              \/ ref.hint = NoCell /\ range.row = SheetAppendRow(r, ref)
      BY RangeLands, PlainSaysNothing
    <2> HIDE DEF ref, cell
    <2>3. QED BY <1>3, <2>1, <2>2 DEF CellOr
  <1> HIDE DEF cell, made
  <1>5. made # <<>>
    BY <1>2
  <1>6. p = Worded(plan, [d EXCEPT !.cell = cell])
    BY <1>1, <1>2, <1>5
  <1>7. Shaped(d) /\ Goes(d) = <<"sheet_write", ref.id, ref.sheet, NoCell, "none", "none">>
    BY ProposalGoes
  <1> HIDE DEF d, ref
  <1>8. Goes(p) = <<"sheet_write", ref.id, ref.sheet, cell, "none", "none">>
    <2>1. d.type = "sheet_write" /\ d.ref = ref.id /\ d.sheet = ref.sheet /\ d.record = "none"
          /\ d.field = "none"
      BY <1>7 DEF Goes
    <2>2. Shaped([d EXCEPT !.cell = cell])
          /\ Goes([d EXCEPT !.cell = cell]) =
                <<"sheet_write", ref.id, ref.sheet, cell, "none", "none">>
      <3>1. Shaped([d EXCEPT !.cell = cell])
            /\ Goes([d EXCEPT !.cell = cell]) =
                  <<d.type, d.ref, d.sheet, cell, d.record, d.field>>
        BY <1>7, GoesOn
      <3>2. QED BY <2>1, <3>1
    <2>3. QED BY <1>6, <2>2, PreviewGoes
  <1>9. p.type = "sheet_write" /\ p.ref = ref.id /\ p.sheet = ref.sheet /\ p.cell = cell
    BY <1>8 DEF Goes
  <1>10. QED BY <1>1, <1>4, <1>5, <1>9 DEF Aims, Lands, ref

(* An update that is made for a record and a field. *)
LEMMA UpdateGoes ==
    ASSUME NEW p, Shaped(p), NEW record, NEW field
    PROVE  /\ Shaped([p EXCEPT !.record = record, !.field = field])
           /\ Goes([p EXCEPT !.record = record, !.field = field]) =
                  <<p.type, p.ref, p.sheet, p.cell, record, field>>
  <1> DEFINE q == [p EXCEPT !.record = record]
  <1>1. [p EXCEPT !.record = record, !.field = field] = [q EXCEPT !.field = field]
    OBVIOUS
  <1>2. Shaped(q) /\ Goes(q) = <<p.type, p.ref, p.sheet, p.cell, record, p.field>>
    BY GoesOn
  <1> HIDE DEF q
  <1>3. q.type = p.type /\ q.ref = p.ref /\ q.sheet = p.sheet /\ q.cell = p.cell
        /\ q.record = record
    BY <1>2 DEF Goes
  <1>4. Shaped([q EXCEPT !.field = field])
        /\ Goes([q EXCEPT !.field = field]) =
              <<p.type, p.ref, p.sheet, p.cell, record, field>>
    <2>1. Shaped([q EXCEPT !.field = field])
          /\ Goes([q EXCEPT !.field = field]) =
                <<q.type, q.ref, q.sheet, q.cell, q.record, field>>
      BY <1>2, GoesOn
    <2>2. QED BY <1>3, <2>1
  <1>5. QED BY <1>1, <1>4

LEMMA OtherAims ==
    ASSUME NEW r, NEW p, p.type \notin {"sheet_write", "bitable_update"}
    PROVE  Aims(r, p)
  BY DEF Aims

LEMMA PlannedRecordIsTold ==
    ASSUME NEW r \in RequestType, Reads(r), NEW plan, NEW ref,
           PlannedRecord(r, plan, ref) # "none"
    PROVE  ToldBy(TableOf(r, ref), plan.record, plan.row, PlannedRecord(r, plan, ref))
  <1> DEFINE table == TableOf(r, ref)
             at == {q \in ToSet(table.records) : q.index = plan.row}
             record == PlannedRecord(r, plan, ref)
  <1>1. table.records \in Seq(RecordType)
    BY TableIsNumbered DEF TableType
  <1>2. record = IF plan.record # "none" THEN plan.record
                 ELSE IF table.records = <<>> THEN "none"
                 ELSE IF plan.row = -1 THEN LastRecord(table).id
                 ELSE OnlyMatch(at)
    BY DEF PlannedRecord
  <1>3. CASE plan.record # "none"
    BY <1>2, <1>3 DEF ToldBy
  <1>4. CASE plan.record = "none" /\ plan.row = -1
    BY <1>2, <1>4 DEF ToldBy
  <1>5. CASE plan.record = "none" /\ plan.row # -1
    <2>1. record = OnlyMatch(at) /\ OnlyMatch(at) # "none"
      BY <1>2, <1>5
    <2>2. at \in SUBSET ToSet(table.records)
      OBVIOUS
    <2>3. PICK q \in ToSet(table.records) : at = {q} /\ q.id = record
      <3> HIDE DEF at
      <3> QED BY <1>1, <2>1, <2>2, OnlyOneMatches
    <2>4. q.index = plan.row
      BY <2>3
    <2>5. QED BY <2>3, <2>4 DEF ToldBy
  <1>6. QED BY <1>3, <1>4, <1>5

LEMMA BitablePlanPicks ==
    ASSUME NEW r \in RequestType, Reads(r), NEW plan \in PlansOf(r), NEW p,
           LET ref == FirstWritable(r, "bitable")
           IN  BitablePlanProposal(plan, ref, PlannedRecord(r, plan, ref),
                                   PlannedField(r, plan, ref)) = <<p>>
    PROVE  Aims(r, p)
  <1> DEFINE ref == FirstWritable(r, "bitable")
             record == PlannedRecord(r, plan, ref)
             field == PlannedField(r, plan, ref)
             table == TableOf(r, ref)
             update == Proposal("bitable_update", ref, plan.content)
             delete == Proposal("bitable_delete", ref, NoContent)
             create == Proposal("bitable_create", ref, plan.content)
             made == BitablePlanProposal(plan, ref, record, field)
  <1>1. made = <<p>>
    OBVIOUS
  <1>2. \/ made = <<>>
        \/ /\ record # "none" /\ field # "none"
           /\ made = <<Worded(plan, [update EXCEPT !.record = record, !.field = field])>>
        \/ made = <<Worded(plan, [delete EXCEPT !.record = record])>>
        \/ made = <<Worded(plan, [create EXCEPT !.field = field])>>
    <2> HIDE DEF ref, record, field
    <2> QED BY DEF BitablePlanProposal
  <1>3. record # "none" => ToldBy(table, plan.record, plan.row, record)
    BY PlannedRecordIsTold
  <1>4. field # "none" => field \in FieldNames(table) \cup {q.field : q \in PlansOf(r)}
    <2>1. table \in TableType
      BY TableIsNumbered
    <2>2. InferWriteField(r.text.about, Silent, table) \in FieldNames(table) \cup {"none"}
      BY <2>1, FieldsAreNamed
    <2>3. field = NameOr(plan.field, InferWriteField(r.text.about, Silent, table))
      BY DEF PlannedField
    <2> HIDE DEF field, table
    <2>4. QED BY <2>2, <2>3 DEF NameOr
  <1>5. /\ Shaped(update)
        /\ Goes(update) = <<"bitable_update", ref.id, ref.sheet, NoCell, "none", "none">>
        /\ Shaped(delete)
        /\ Goes(delete) = <<"bitable_delete", ref.id, ref.sheet, NoCell, "none", "none">>
        /\ Shaped(create)
        /\ Goes(create) = <<"bitable_create", ref.id, ref.sheet, NoCell, "none", "none">>
    BY ProposalGoes
  <1> HIDE DEF record, field, table, update, delete, create, made
  <1>6. update.type = "bitable_update" /\ update.ref = ref.id /\ delete.type = "bitable_delete"
        /\ create.type = "bitable_create"
    BY <1>5 DEF Goes
  <1>7. CASE /\ record # "none" /\ field # "none"
             /\ made = <<Worded(plan, [update EXCEPT !.record = record, !.field = field])>>
    <2>1. /\ Shaped([update EXCEPT !.record = record, !.field = field])
          /\ Goes([update EXCEPT !.record = record, !.field = field]) =
                <<update.type, update.ref, update.sheet, update.cell, record, field>>
      BY <1>5, UpdateGoes
    <2>2. p = Worded(plan, [update EXCEPT !.record = record, !.field = field])
      BY <1>1, <1>7
    <2>3. Goes(p) = <<update.type, update.ref, update.sheet, update.cell, record, field>>
      BY <2>1, <2>2, PreviewGoes
    <2>4. p.type = "bitable_update" /\ p.ref = ref.id /\ p.record = record /\ p.field = field
      BY <1>6, <2>3 DEF Goes
    <2>5. QED BY <1>3, <1>4, <1>7, <2>4 DEF Aims, Picks, table, ref
  <1>8. CASE made = <<Worded(plan, [delete EXCEPT !.record = record])>>
    <2>1. /\ Shaped([delete EXCEPT !.record = record])
          /\ Goes([delete EXCEPT !.record = record]) =
                <<delete.type, delete.ref, delete.sheet, delete.cell, record, delete.field>>
      BY <1>5, GoesOn
    <2>2. p = Worded(plan, [delete EXCEPT !.record = record])
      BY <1>1, <1>8
    <2>3. Goes(p) = <<delete.type, delete.ref, delete.sheet, delete.cell, record, delete.field>>
      BY <2>1, <2>2, PreviewGoes
    <2>4. p.type = "bitable_delete"
      BY <1>6, <2>3 DEF Goes
    <2>5. QED BY <2>4, OtherAims
  <1>9. CASE made = <<Worded(plan, [create EXCEPT !.field = field])>>
    <2>1. /\ Shaped([create EXCEPT !.field = field])
          /\ Goes([create EXCEPT !.field = field]) =
                <<create.type, create.ref, create.sheet, create.cell, create.record, field>>
      BY <1>5, GoesOn
    <2>2. p = Worded(plan, [create EXCEPT !.field = field])
      BY <1>1, <1>9
    <2>3. Goes(p) = <<create.type, create.ref, create.sheet, create.cell, create.record, field>>
      BY <2>1, <2>2, PreviewGoes
    <2>4. p.type = "bitable_create"
      BY <1>6, <2>3 DEF Goes
    <2>5. QED BY <2>4, OtherAims
  <1>10. made # <<>>
    BY <1>1
  <1>11. QED BY <1>2, <1>7, <1>8, <1>9, <1>10

(* What a plan proposes goes where something was stated. *)
LEMMA PlanAims ==
    ASSUME NEW r \in RequestType, Reads(r), NEW plan \in PlansOf(r), plan \in PlanType,
           plan.type # "none", NEW p, PlanProposal(r, plan) = <<p>>
    PROVE  Aims(r, p)
  <1> DEFINE ref == FirstWritable(r, plan.type)
  <1>1. PlanProposalTo(r, plan, ref) = <<p>>
    BY DEF PlanProposal
  <1>2. CASE plan.type = "doc"
    <2>1. DocPlanProposal(plan, ref) = <<p>>
      BY <1>1, <1>2 DEF PlanProposalTo
    <2> DEFINE d == Proposal("doc_append", ref, plan.content)
    <2>2. p = Worded(plan, d)
      BY <2>1 DEF DocPlanProposal
    <2>3. Shaped(d) /\ d.type = "doc_append"
      BY ProposalGoes DEF Goes
    <2> HIDE DEF d
    <2>4. Goes(p) = Goes(d)
      BY <2>2, <2>3, PreviewGoes
    <2>5. QED BY <2>3, <2>4, OtherAims DEF Goes
  <1>3. CASE plan.type = "sheet"
    <2>1. ref = FirstWritable(r, "sheet")
      BY <1>3
    <2>2. PlanProposalTo(r, plan, ref) = SheetPlanProposal(plan, ref, PlannedCell(r, plan, ref))
      BY <1>3 DEF PlanProposalTo
    <2> HIDE DEF ref
    <2>3. QED BY <1>1, <2>1, <2>2, SheetPlanLands
  <1>4. CASE plan.type = "bitable"
    <2>1. ref = FirstWritable(r, "bitable")
      BY <1>4
    <2>2. PlanProposalTo(r, plan, ref) =
              BitablePlanProposal(plan, ref, PlannedRecord(r, plan, ref),
                                  PlannedField(r, plan, ref))
      BY <1>4 DEF PlanProposalTo
    <2> HIDE DEF ref
    <2>3. QED BY <1>1, <2>1, <2>2, BitablePlanPicks
  <1>5. CASE plan.type = "message"
    <2> DEFINE d == Proposal("message_send", [NoRef EXCEPT !.id = "chat"], plan.content)
    <2>1. MessagePlanProposal(plan) = <<p>>
      BY <1>1, <1>5 DEF PlanProposalTo
    <2>2. p = Worded(plan, d)
      BY <2>1 DEF MessagePlanProposal
    <2>3. Shaped(d) /\ d.type = "message_send"
      BY ProposalGoes DEF Goes
    <2> HIDE DEF d
    <2>4. Goes(p) = Goes(d)
      BY <2>2, <2>3, PreviewGoes
    <2>5. QED BY <2>3, <2>4, OtherAims DEF Goes
  <1>6. QED BY <1>2, <1>3, <1>4, <1>5 DEF PlanType

-------------------------------------------------------------------------------
(* Inference and corrections *)

(* An update that is told goes to a record and a field of the table. *)
LEMMA ToldUpdatePicks ==
    ASSUME NEW r \in RequestType, Reads(r), NEW prose, Said(r, prose), NEW content,
           BitableUpdatePlan(r.text.about, prose.about, TableOf(r, FirstWritable(r, "bitable")))
               # NoUpdate
    PROVE  LET ref == FirstWritable(r, "bitable")
               update == BitableUpdatePlan(r.text.about, prose.about, TableOf(r, ref))
           IN  Aims(r, UpdateOf(ref, content, update))
  <1> DEFINE ref == FirstWritable(r, "bitable")
             table == TableOf(r, ref)
             update == BitableUpdatePlan(r.text.about, prose.about, table)
             d == Proposal("bitable_update", ref, content)
             e == [d EXCEPT !.record = update.record, !.field = update.field]
             p == UpdateOf(ref, content, update)
  <1>1. /\ update.field \in FieldNames(table) /\ update.record # "none"
        /\ \E says \in SaysOf(r) : \/ ToldBy(table, says.id, says.row, update.record)
                                   \/ ToldByValue(table, says.pair, update.field, update.record)
    BY UpdateIsTold
  <1>2. p = Previewed(e)
    BY DEF UpdateOf
  <1>3. Shaped(d) /\ Goes(d) = <<"bitable_update", ref.id, ref.sheet, NoCell, "none", "none">>
    BY ProposalGoes
  <1> HIDE DEF ref, table, update, d, p
  <1>4. /\ Shaped(e)
        /\ Goes(e) = <<d.type, d.ref, d.sheet, d.cell, update.record, update.field>>
    BY <1>3, UpdateGoes
  <1> HIDE DEF e
  <1>5. Goes(p) = <<d.type, d.ref, d.sheet, d.cell, update.record, update.field>>
    BY <1>2, <1>4, PreviewGoes
  <1>6. d.type = "bitable_update" /\ d.ref = ref.id
    BY <1>3 DEF Goes
  <1>7. p.type = "bitable_update" /\ p.ref = ref.id /\ p.record = update.record
        /\ p.field = update.field
    BY <1>5, <1>6 DEF Goes
  <1>8. Aims(r, p)
    BY <1>1, <1>7 DEF Aims, Picks, ref, table
  <1>9. QED BY <1>8 DEF p, ref, table, update

LEMMA InferenceAims ==
    ASSUME NEW r \in RequestType, Reads(r), NEW answer, Said(r, answer.prose), NEW p,
           InferWriteback(r, answer) = <<p>>
    PROVE  Aims(r, p)
  <1> DEFINE text == ContextualWritebackText(r)
             prose == answer.prose
             content == WritebackContent(text, prose)
             operation == ModelOperation(ModelPlans(answer), prose)
             doc == FirstWritable(r, "doc")
             sheet == FirstWritable(r, "sheet")
             bitable == FirstWritable(r, "bitable")
             table == TableOf(r, bitable)
             cell == SheetWriteRange(r, sheet, prose)
             update == InferredUpdate(r, prose, operation, table)
             field == InferredField(r, prose, operation, table)
             made == InferWriteback(r, answer)
  <1>1. made = <<p>> /\ made # <<>>
    OBVIOUS
  <1>2. made = InferInto(r, text, content, prose, operation)
    BY DEF InferWriteback
  <1>3. \/ doc # NoRef /\ made = InferDoc(text, doc, content, operation)
        \/ sheet # NoRef /\ made = InferSheet(sheet, content, cell)
        \/ bitable # NoRef /\ made = InferBitable(bitable, content, update, field)
    <2> HIDE DEF text, prose, content, operation, made
    <2> QED BY <1>1, <1>2 DEF InferInto
  <1>4. sheet # NoRef /\ cell # NoCell =>
            cell \in Stated(r) \/ (sheet.hint = NoCell /\ cell.row = SheetAppendRow(r, sheet))
    BY RangeLands
  <1>5. update # NoUpdate => Aims(r, UpdateOf(bitable, content, update))
    <2> SUFFICES ASSUME update # NoUpdate PROVE Aims(r, UpdateOf(bitable, content, update))
      OBVIOUS
    <2>1. update = BitableUpdatePlan(r.text.about, prose.about, table)
      BY DEF InferredUpdate
    <2>2. PICK c : c = content
      OBVIOUS
    <2> HIDE DEF content, update
    <2>3. Aims(r, UpdateOf(bitable, c, update))
      BY <2>1, ToldUpdatePicks
    <2>4. QED BY <2>2, <2>3
  <1> HIDE DEF text, prose, content, operation, doc, bitable, table, cell, update, field, made
  <1>6. CASE made = InferDoc(text, doc, content, operation)
    <2> DEFINE d == Proposal("doc_append", doc, content)
    <2>1. p = Previewed([d EXCEPT !.start = text.start])
      BY <1>1, <1>6 DEF InferDoc
    <2>2. Shaped(d) /\ d.type = "doc_append"
      BY ProposalGoes DEF Goes
    <2> HIDE DEF d
    <2>3. Shaped([d EXCEPT !.start = text.start]) /\ Goes([d EXCEPT !.start = text.start]) = Goes(d)
      BY <2>2, GoesOn
    <2>4. Goes(p) = Goes(d)
      BY <2>1, <2>3, PreviewGoes
    <2>5. QED BY <2>2, <2>4, OtherAims DEF Goes
  <1>7. CASE sheet # NoRef /\ made = InferSheet(sheet, content, cell)
    <2> DEFINE d == Proposal("sheet_write", sheet, content)
    <2>1. p = Previewed([d EXCEPT !.cell = cell]) /\ cell # NoCell
      BY <1>1, <1>7 DEF InferSheet
    <2>2. Shaped(d) /\ Goes(d) = <<"sheet_write", sheet.id, sheet.sheet, NoCell, "none", "none">>
      BY ProposalGoes
    <2> HIDE DEF d, sheet
    <2>3. /\ Shaped([d EXCEPT !.cell = cell])
          /\ Goes([d EXCEPT !.cell = cell]) =
                <<d.type, d.ref, d.sheet, cell, d.record, d.field>>
      BY <2>2, GoesOn
    <2>4. Goes(p) = <<d.type, d.ref, d.sheet, cell, d.record, d.field>>
      BY <2>1, <2>3, PreviewGoes
    <2>5. d.type = "sheet_write" /\ d.ref = sheet.id /\ d.sheet = sheet.sheet
      BY <2>2 DEF Goes
    <2>6. p.type = "sheet_write" /\ p.ref = sheet.id /\ p.sheet = sheet.sheet /\ p.cell = cell
      BY <2>4, <2>5 DEF Goes
    <2>7. QED BY <1>4, <1>7, <2>1, <2>6 DEF Aims, Lands, sheet
  <1>8. CASE made = InferBitable(bitable, content, update, field)
    <2>1. CASE update # NoUpdate
      <3>1. p = UpdateOf(bitable, content, update)
        BY <1>1, <1>8, <2>1 DEF InferBitable
      <3>2. QED BY <1>5, <2>1, <3>1
    <2>2. CASE update = NoUpdate
      <3> DEFINE d == Proposal("bitable_create", bitable, content)
      <3>1. p = Previewed([d EXCEPT !.field = field])
        BY <1>1, <1>8, <2>2 DEF InferBitable
      <3>2. Shaped(d) /\ d.type = "bitable_create"
        BY ProposalGoes DEF Goes
      <3> HIDE DEF d
      <3>3. /\ Shaped([d EXCEPT !.field = field])
            /\ Goes([d EXCEPT !.field = field]) =
                  <<d.type, d.ref, d.sheet, d.cell, d.record, field>>
        BY <3>2, GoesOn
      <3>4. Goes(p) = <<d.type, d.ref, d.sheet, d.cell, d.record, field>>
        BY <3>1, <3>3, PreviewGoes
      <3>5. p.type = "bitable_create"
        BY <3>2, <3>4 DEF Goes
      <3>6. QED BY <3>5, OtherAims
    <2>3. QED BY <2>1, <2>2
  <1>9. QED BY <1>3, <1>6, <1>7, <1>8

LEMMA ContentAims ==
    ASSUME NEW r, NEW p, Shaped(p), Aims(r, p), NEW prose
    PROVE  LET q == NormalizeContent(r, p, prose)
           IN  Shaped(q) /\ Aims(r, q) /\ q.type = p.type
  <1> DEFINE q == NormalizeContent(r, p, prose)
  <1>1. q = p \/ \E content : q = Previewed([p EXCEPT !.content = content])
    BY DEF NormalizeContent, WithContent
  <1>2. ASSUME NEW content, q = Previewed([p EXCEPT !.content = content])
        PROVE  Shaped(q) /\ Goes(q) = Goes(p)
    <2>1. Shaped([p EXCEPT !.content = content]) /\ Goes([p EXCEPT !.content = content]) = Goes(p)
      BY GoesOn
    <2> HIDE DEF q
    <2>2. QED BY <1>2, <2>1, PreviewGoes
  <1> HIDE DEF q
  <1>3. Shaped(q) /\ Goes(q) = Goes(p)
    BY <1>1, <1>2
  <1>4. q.type = p.type
    BY <1>3 DEF Goes
  <1>5. QED BY <1>3, <1>4, SameAim DEF q

LEMMA SheetTargetAims ==
    ASSUME NEW r \in RequestType, NEW p, Shaped(p), Aims(r, p), p.type = "sheet_write",
           NEW prose, Said(r, prose)
    PROVE  Aims(r, NormalizeSheetTarget(r, p, prose))
  <1> DEFINE cell == SheetWriteTarget(r.text, prose)
             q == NormalizeSheetTarget(r, p, prose)
  <1>1. cell \in {NoCell} \cup Stated(r)
    BY DEF SheetWriteTarget, CellOr, Said, Stated
  <1>2. \/ q = p
        \/ cell # NoCell /\ q = Previewed([p EXCEPT !.cell = cell])
    BY DEF NormalizeSheetTarget, WithCell
  <1> HIDE DEF cell, q
  <1>3. CASE cell # NoCell /\ q = Previewed([p EXCEPT !.cell = cell])
    <2>1. /\ Shaped([p EXCEPT !.cell = cell])
          /\ Goes([p EXCEPT !.cell = cell]) =
                <<p.type, p.ref, p.sheet, cell, p.record, p.field>>
      BY GoesOn
    <2>2. Goes(q) = <<p.type, p.ref, p.sheet, cell, p.record, p.field>>
      BY <1>3, <2>1, PreviewGoes
    <2>3. q.type = p.type /\ q.ref = p.ref /\ q.sheet = p.sheet /\ q.cell = cell
      BY <2>2 DEF Goes
    <2>4. QED BY <1>1, <1>3, <2>3 DEF Aims, Lands, q
  <1>4. QED BY <1>2, <1>3 DEF q

LEMMA BitableTargetAims ==
    ASSUME NEW r \in RequestType, Reads(r), NEW p, Shaped(p), Aims(r, p),
           NEW prose, Said(r, prose)
    PROVE  Aims(r, NormalizeBitableTarget(r, p, prose, FirstWritable(r, "bitable")))
  <1> DEFINE ref == FirstWritable(r, "bitable")
             update == BitableUpdatePlan(r.text.about, prose.about, TableOf(r, ref))
             d == [p EXCEPT !.type = "bitable_create"]
             q == NormalizeBitableTarget(r, p, prose, ref)
  <1>1. \/ q = p
        \/ q = Previewed([p EXCEPT !.type = "bitable_create", !.record = "none"])
        \/ update # NoUpdate /\ q = UpdateOf(ref, p.content, update)
    <2> HIDE DEF ref, update
    <2> QED BY DEF NormalizeBitableTarget, Created, Updated, update
  <1>2. CASE q = Previewed([p EXCEPT !.type = "bitable_create", !.record = "none"])
    <2>1. [p EXCEPT !.type = "bitable_create", !.record = "none"] = [d EXCEPT !.record = "none"]
      OBVIOUS
    <2>2. Shaped(d) /\ Goes(d) = <<"bitable_create", p.ref, p.sheet, p.cell, p.record, p.field>>
      BY GoesOn
    <2> HIDE DEF d, q
    <2>3. /\ Shaped([d EXCEPT !.record = "none"])
          /\ Goes([d EXCEPT !.record = "none"]) =
                <<d.type, d.ref, d.sheet, d.cell, "none", d.field>>
      BY <2>2, GoesOn
    <2>4. Goes(q) = <<d.type, d.ref, d.sheet, d.cell, "none", d.field>>
      BY <1>2, <2>1, <2>3, PreviewGoes
    <2>5. q.type = "bitable_create"
      BY <2>2, <2>4 DEF Goes
    <2>6. QED BY <2>5, OtherAims DEF q
  <1>3. CASE update # NoUpdate /\ q = UpdateOf(ref, p.content, update)
    <2>1. PICK content : content = p.content
      OBVIOUS
    <2>2. Aims(r, UpdateOf(ref, content, update))
      BY <1>3, ToldUpdatePicks
    <2> HIDE DEF q, ref, update
    <2>3. QED BY <1>3, <2>1, <2>2 DEF q, ref
  <1>4. QED BY <1>1, <1>2, <1>3

(* A corrected proposal still goes where something was stated. *)
LEMMA CorrectionAims ==
    ASSUME NEW r \in RequestType, Reads(r), NEW p, Shaped(p), Aims(r, p),
           NEW prose, Said(r, prose), NEW q, Normalize(r, p, prose) = <<q>>
    PROVE  Aims(r, q)
  <1> DEFINE c == NormalizeContent(r, p, prose)
  <1>1. Shaped(c) /\ Aims(r, c)
    BY ContentAims
  <1>2. NormalizeTarget(r, c, prose) = <<q>>
    BY DEF Normalize
  <1> HIDE DEF c
  <1>3. CASE c.type = "doc_append"
    <2>1. NormalizeDocTarget(r, c) = <<q>>
      BY <1>2, <1>3 DEF NormalizeTarget
    <2>2. q = c \/ q = Previewed([c EXCEPT !.start = TRUE])
      BY <2>1 DEF NormalizeDocTarget
    <2>3. Shaped([c EXCEPT !.start = TRUE]) /\ Goes([c EXCEPT !.start = TRUE]) = Goes(c)
      BY <1>1, GoesOn
    <2>4. Goes(q) = Goes(c)
      BY <2>2, <2>3, PreviewGoes
    <2>5. QED BY <1>1, <2>4, SameAim
  <1>4. CASE c.type = "sheet_write"
    <2>1. q = NormalizeSheetTarget(r, c, prose)
      BY <1>2, <1>4 DEF NormalizeTarget
    <2>2. QED BY <1>1, <1>4, <2>1, SheetTargetAims
  <1>5. CASE c.type = "message_send"
    <2>1. q = c
      BY <1>2, <1>5 DEF NormalizeTarget
    <2>2. QED BY <1>1, <2>1
  <1>6. CASE c.type \notin {"doc_append", "sheet_write", "message_send"}
    <2>1. q = NormalizeBitableTarget(r, c, prose, FirstWritable(r, "bitable"))
      BY <1>2, <1>6 DEF NormalizeTarget
    <2>2. QED BY <1>1, <2>1, BitableTargetAims
  <1>7. QED BY <1>3, <1>4, <1>5, <1>6

-------------------------------------------------------------------------------
(* From an answer to where its proposals go *)

LEMMA PlansAreTheAnswers ==
    ASSUME NEW answer, AnswerOK(answer)
    PROVE  \A i \in DOMAIN ModelPlans(answer) : ModelPlans(answer)[i] \in ToSet(answer.plans)
  <1> DEFINE plans == answer.plans
             at == {i \in DOMAIN plans : "none" \notin {plans[i].operation, plans[i].type}}
             known == Those(plans, at)
             S == {plans[i] : i \in at}
  <1>1. plans \in Seq(PlanType)
    BY DEF AnswerOK
  <1>2. ModelPlans(answer) = IF answer.twice THEN known \o known ELSE known
    BY DEF ModelPlans
  <1>3. at \in SUBSET DOMAIN plans /\ S \subseteq ToSet(plans)
    BY DEF ToSet
  <1> HIDE DEF plans, at, known
  <1>4. known \in Seq(S)
    BY <1>1, <1>3, ThoseThereAre DEF known
  <1> HIDE DEF S
  <1>5. known \o known \in Seq(S)
    BY <1>4
  <1>6. ModelPlans(answer) \in Seq(S)
    BY <1>2, <1>4, <1>5
  <1>7. \A i \in DOMAIN ModelPlans(answer) : ModelPlans(answer)[i] \in S
    BY <1>6
  <1>8. QED BY <1>3, <1>7 DEF plans

(* A proposal comes from a plan or from the request. *)
LEMMA InferredOnes ==
    ASSUME NEW r \in RequestType, NEW answer, AnswerOK(answer)
    PROVE  LET made == InferWritebackProposals(r, answer)
               plans == ModelPlans(answer)
           IN  \A k \in DOMAIN made :
                   \/ \E i \in DOMAIN plans : PlanProposal(r, plans[i]) = <<made[k]>>
                   \/ InferWriteback(r, answer) = <<made[k]>>
  <1> DEFINE plans == ModelPlans(answer)
             steps == [i \in DOMAIN plans |-> PlanProposal(r, plans[i])]
             planned == PlannedProposals(r, plans)
             inferred == InferWriteback(r, answer)
             made == InferWritebackProposals(r, answer)
             P == {steps[i][1] : i \in {k \in DOMAIN steps : steps[k] # <<>>}}
  <1>1. made = planned \/ made = inferred
    BY DEF InferWritebackProposals, ProposalsOr
  <1>2. DOMAIN plans = 1..Len(plans) /\ Len(plans) \in Nat
        /\ \A i \in DOMAIN plans : plans[i] \in PlanType /\ plans[i].type # "none"
    <2> HIDE DEF plans
    <2>1. plans \in Seq({plan \in PlanType : plan.type # "none"})
      BY PlansAreKnown DEF plans
    <2>2. QED BY <2>1
  <1>3. \A i \in DOMAIN steps : One(r, steps[i])
    BY <1>2, PlanIsSound
  <1>4. planned = Present(steps) /\ steps \in Seq({steps[i] : i \in DOMAIN steps})
    BY <1>2 DEF PlannedProposals
  <1>5. \A p \in P : \E i \in DOMAIN plans : PlanProposal(r, plans[i]) = <<p>>
    <2> SUFFICES ASSUME NEW i \in DOMAIN steps, steps[i] # <<>>
                 PROVE  \E k \in DOMAIN plans : PlanProposal(r, plans[k]) = <<steps[i][1]>>
      OBVIOUS
    <2>1. i \in DOMAIN plans /\ steps[i] = PlanProposal(r, plans[i])
      OBVIOUS
    <2> HIDE DEF steps, plans
    <2>2. steps[i] = <<steps[i][1]>>
      BY <1>3 DEF One
    <2>3. QED BY <2>1, <2>2
  <1>6. planned \in Seq(P)
    <2> DEFINE T == {steps[i] : i \in DOMAIN steps}
    <2> HIDE DEF steps, T
    <2>1. steps \in Seq(T)
      BY <1>4 DEF T
    <2>2. QED BY <1>4, <2>1, PresentOnes
  <1>7. One(r, inferred)
    BY InferenceIsSound DEF AnswerOK
  <1> HIDE DEF plans, planned, inferred, made, P
  <1>8. SUFFICES ASSUME NEW k \in DOMAIN made
                 PROVE  \/ \E i \in DOMAIN plans : PlanProposal(r, plans[i]) = <<made[k]>>
                        \/ inferred = <<made[k]>>
    BY DEF made, plans, inferred
  <1>9. CASE made = planned
    <2>1. made[k] \in P
      BY <1>6, <1>9
    <2>2. QED BY <1>5, <2>1
  <1>10. CASE made = inferred
    <2>1. made # <<>>
      OBVIOUS
    <2>2. PICK p : made = <<p>>
      BY <1>7, <1>10, <2>1 DEF One
    <2>3. k = 1
      BY <2>2
    <2>4. QED BY <1>10, <2>2, <2>3
  <1>11. QED BY <1>1, <1>9, <1>10

(* The answer of which plans and words are the request's. *)
Answers(r, answer) ==
    /\ AnswerOK(answer) /\ ToSet(answer.plans) \subseteq PlansOf(r)
    /\ Said(r, answer.prose) /\ Said(r, answer.left)

LEMMA InferredAim ==
    ASSUME NEW r \in RequestType, Reads(r), NEW answer, Answers(r, answer)
    PROVE  LET made == InferWritebackProposals(r, answer)
           IN  \A k \in DOMAIN made : Aims(r, made[k])
  <1> DEFINE made == InferWritebackProposals(r, answer)
             plans == ModelPlans(answer)
  <1>1. AnswerOK(answer)
    BY DEF Answers
  <1>2. \A i \in DOMAIN plans : plans[i] \in PlansOf(r) /\ plans[i] \in PlanType
                                /\ plans[i].type # "none"
    <2>1. \A i \in DOMAIN plans : plans[i] \in PlansOf(r)
      BY <1>1, PlansAreTheAnswers DEF Answers
    <2> HIDE DEF plans
    <2>2. plans \in Seq({plan \in PlanType : plan.type # "none"})
      BY <1>1, PlansAreKnown DEF plans
    <2>3. QED BY <2>1, <2>2
  <1>3. SUFFICES ASSUME NEW k \in DOMAIN made PROVE Aims(r, made[k])
    OBVIOUS
  <1>4. PICK p : p = made[k]
    OBVIOUS
  <1>5. \/ \E i \in DOMAIN plans : PlanProposal(r, plans[i]) = <<p>>
        \/ InferWriteback(r, answer) = <<p>>
    BY <1>1, <1>4, InferredOnes
  <1> HIDE DEF made, plans
  <1>6. CASE InferWriteback(r, answer) = <<p>>
    BY <1>4, <1>6, InferenceAims DEF Answers
  <1>7. ASSUME NEW i \in DOMAIN plans, PlanProposal(r, plans[i]) = <<p>> PROVE Aims(r, made[k])
    <2>1. PICK plan \in PlansOf(r) : plan = plans[i]
      BY <1>2
    <2>2. plan \in PlanType /\ plan.type # "none" /\ PlanProposal(r, plan) = <<p>>
      BY <1>2, <1>7, <2>1
    <2>3. QED BY <1>4, <2>2, PlanAims
  <1>8. QED BY <1>5, <1>6, <1>7

LEMMA SoundIsShaped ==
    ASSUME NEW r, NEW p, Sound(r, p)
    PROVE  Shaped(p)
  BY DEF Sound, Draft, Shaped

LEMMA ProposalsAim ==
    ASSUME NEW r \in RequestType, Reads(r), NEW answer, Answers(r, answer)
    PROVE  LET made == Apply(r, answer)
           IN  \A k \in DOMAIN made : Aims(r, made[k])
  <1> DEFINE prose == RewrittenProse(answer)
  <1> SUFFICES ASSUME NEW k \in DOMAIN Apply(r, answer) PROVE Aims(r, Apply(r, answer)[k])
    OBVIOUS
  <1>1. AnswerOK(answer) /\ Said(r, answer.left)
    BY DEF Answers
  <1>2. PICK p, q : Corrected(r, answer, p, q) /\ Apply(r, answer)[k] = DisplayTarget(r, q)
    BY <1>1, AppliedOnes
  <1>3. Aims(r, p)
    BY <1>2, InferredAim DEF Corrected
  <1>4. Said(r, prose)
    <2>1. \/ prose = PlainProse
          \/ prose.cell = answer.left.cell /\ prose.about = answer.left.about
      BY <1>1, RewrittenLines
    <2> HIDE DEF prose
    <2>2. QED BY <1>1, <2>1, PlainSaysNothing DEF Said
  <1>5. Normalize(r, p, prose) = <<q>>
    BY <1>2 DEF Corrected
  <1> HIDE DEF prose
  <1>6. Shaped(p) /\ Shaped(q)
    BY <1>2, SoundIsShaped DEF Corrected
  <1>7. Aims(r, q)
    BY <1>3, <1>4, <1>5, <1>6, CorrectionAims
  <1>8. Goes([q EXCEPT !.shown = q.ref]) = Goes(q)
    BY <1>6, GoesOn
  <1>9. DisplayTarget(r, q) = q \/ DisplayTarget(r, q) = [q EXCEPT !.shown = q.ref]
    BY DEF DisplayTarget
  <1>10. Goes(DisplayTarget(r, q)) = Goes(q)
    BY <1>8, <1>9
  <1>11. QED BY <1>2, <1>7, <1>10, SameAim

-------------------------------------------------------------------------------
(* From an answer to what is written *)

LEMMA ContentStays ==
    ASSUME NEW p, Shaped(p), NEW value
    PROVE  /\ [p EXCEPT !.content = value].content = value
           /\ [p EXCEPT !.start = value].content = p.content
           /\ [p EXCEPT !.cell = value].content = p.content
           /\ [p EXCEPT !.record = value].content = p.content
           /\ [p EXCEPT !.field = value].content = p.content
           /\ [p EXCEPT !.type = value].content = p.content
           /\ [p EXCEPT !.preview = value].content = p.content
           /\ [p EXCEPT !.shown = value].content = p.content
  <1>1. PICK type, ref, sheet, start, cell, record, field, content, preview, shown :
            p = [type |-> type, ref |-> ref, sheet |-> sheet, start |-> start, cell |-> cell,
                 record |-> record, field |-> field, content |-> content,
                 preview |-> preview, shown |-> shown]
    BY DEF Shaped
  <1>2. QED BY <1>1

LEMMA PreviewKeepsContent ==
    ASSUME NEW p, Shaped(p), NEW plan
    PROVE  Previewed(p).content = p.content /\ Worded(plan, p).content = p.content
  BY ContentStays DEF Previewed, Worded

Holds(p, content) == Shaped(p) /\ p.content = content

LEMMA ProposalHolds ==
    \A type, ref, content : Holds(Proposal(type, ref, content), content)
  <1> SUFFICES ASSUME NEW type, NEW ref, NEW content
               PROVE  Holds(Proposal(type, ref, content), content)
    OBVIOUS
  <1> DEFINE p == [type |-> type, ref |-> ref.id, sheet |-> ref.sheet, start |-> FALSE,
                   cell |-> NoCell, record |-> "none", field |-> "none", content |-> content,
                   preview |-> <<>>, shown |-> "none"]
  <1>1. Shaped(p) /\ p.content = content
    BY DEF Shaped
  <1>2. Proposal(type, ref, content) = Previewed(p)
    BY DEF Proposal
  <1> HIDE DEF p
  <1>3. QED BY <1>1, <1>2, PreviewGoes, PreviewKeepsContent DEF Holds

(* A proposal whose place is filled in holds what it held. *)
LEMMA FilledHolds ==
    ASSUME NEW p, NEW content, Holds(p, content), NEW value
    PROVE  /\ Holds([p EXCEPT !.cell = value], content)
           /\ Holds([p EXCEPT !.start = value], content)
           /\ Holds([p EXCEPT !.field = value], content)
           /\ Holds([p EXCEPT !.record = value], content)
           /\ \A field : Holds([p EXCEPT !.record = value, !.field = field], content)
  <1> DEFINE q == [p EXCEPT !.record = value]
  <1>1. /\ Holds([p EXCEPT !.cell = value], content)
        /\ Holds([p EXCEPT !.start = value], content)
        /\ Holds([p EXCEPT !.field = value], content)
    BY GoesOn, ContentStays DEF Holds
  <1>2. Holds(q, content)
    BY GoesOn, ContentStays DEF Holds
  <1>3. ASSUME NEW field PROVE Holds([p EXCEPT !.record = value, !.field = field], content)
    <2>1. [p EXCEPT !.record = value, !.field = field] = [q EXCEPT !.field = field]
      OBVIOUS
    <2> HIDE DEF q
    <2>2. Holds([q EXCEPT !.field = field], content)
      BY <1>2, GoesOn, ContentStays DEF Holds
    <2>3. QED BY <2>1, <2>2
  <1>4. QED BY <1>1, <1>2, <1>3

LEMMA PlanHolds ==
    ASSUME NEW r, NEW plan, plan.type \in {"doc", "sheet", "bitable", "message"},
           NEW p, PlanProposal(r, plan) = <<p>>
    PROVE  p.content \in {plan.content, NoContent}
  <1> DEFINE ref == FirstWritable(r, plan.type)
             cell == PlannedCell(r, plan, ref)
             record == PlannedRecord(r, plan, ref)
             field == PlannedField(r, plan, ref)
  <1>1. PlanProposalTo(r, plan, ref) = <<p>>
    BY DEF PlanProposal
  <1> HIDE DEF ref, cell, record, field
  <1>2. ASSUME NEW d, p = Worded(plan, d), Holds(d, plan.content) \/ Holds(d, NoContent)
        PROVE  p.content \in {plan.content, NoContent}
    BY <1>2, PreviewKeepsContent DEF Holds
  <1>3. CASE plan.type = "doc"
    <2>1. p = Worded(plan, Proposal("doc_append", ref, plan.content))
      BY <1>1, <1>3 DEF PlanProposalTo, DocPlanProposal
    <2>2. Holds(Proposal("doc_append", ref, plan.content), plan.content)
      BY ProposalHolds, FilledHolds
    <2>3. QED BY <1>2, <2>1, <2>2
  <1>4. CASE plan.type = "sheet"
    <2>1. p = Worded(plan, [Proposal("sheet_write", ref, plan.content) EXCEPT !.cell = cell])
      BY <1>1, <1>4 DEF PlanProposalTo, SheetPlanProposal, cell
    <2>2. Holds([Proposal("sheet_write", ref, plan.content) EXCEPT !.cell = cell], plan.content)
      BY ProposalHolds, FilledHolds
    <2>3. QED BY <1>2, <2>1, <2>2
  <1>5. CASE plan.type = "bitable"
    <2>1. BitablePlanProposal(plan, ref, record, field) = <<p>>
      BY <1>1, <1>5 DEF PlanProposalTo, record, field
    <2>2. \/ p = Worded(plan, [Proposal("bitable_delete", ref, NoContent) EXCEPT !.record = record])
          \/ p = Worded(plan, [Proposal("bitable_update", ref, plan.content)
                                 EXCEPT !.record = record, !.field = field])
          \/ p = Worded(plan, [Proposal("bitable_create", ref, plan.content) EXCEPT !.field = field])
      BY <2>1 DEF BitablePlanProposal
    <2>3. /\ Holds([Proposal("bitable_delete", ref, NoContent) EXCEPT !.record = record], NoContent)
          /\ Holds([Proposal("bitable_update", ref, plan.content)
                      EXCEPT !.record = record, !.field = field], plan.content)
          /\ Holds([Proposal("bitable_create", ref, plan.content) EXCEPT !.field = field],
                   plan.content)
      BY ProposalHolds, FilledHolds
    <2>4. QED BY <1>2, <2>2, <2>3
  <1>6. CASE plan.type = "message"
    <2>1. p = Worded(plan, Proposal("message_send", [NoRef EXCEPT !.id = "chat"], plan.content))
      BY <1>1, <1>6 DEF PlanProposalTo, MessagePlanProposal
    <2>2. Holds(Proposal("message_send", [NoRef EXCEPT !.id = "chat"], plan.content), plan.content)
      BY ProposalHolds, FilledHolds
    <2>3. QED BY <1>2, <2>1, <2>2
  <1>7. QED BY <1>3, <1>4, <1>5, <1>6

LEMMA InferenceHolds ==
    ASSUME NEW r, NEW answer, NEW p, InferWriteback(r, answer) = <<p>>
    PROVE  p.content = WritebackContent(ContextualWritebackText(r), answer.prose)
  <1> DEFINE text == ContextualWritebackText(r)
             prose == answer.prose
             content == WritebackContent(text, prose)
             operation == ModelOperation(ModelPlans(answer), prose)
             doc == FirstWritable(r, "doc")
             sheet == FirstWritable(r, "sheet")
             bitable == FirstWritable(r, "bitable")
             table == TableOf(r, bitable)
             cell == SheetWriteRange(r, sheet, prose)
             update == InferredUpdate(r, prose, operation, table)
             field == InferredField(r, prose, operation, table)
  <1>1. \/ InferDoc(text, doc, content, operation) = <<p>>
        \/ InferSheet(sheet, content, cell) = <<p>>
        \/ InferBitable(bitable, content, update, field) = <<p>>
    <2>1. InferInto(r, text, content, prose, operation) = <<p>>
      BY DEF InferWriteback
    <2> HIDE DEF text, content, operation
    <2>2. QED BY <2>1 DEF InferInto
  <1> HIDE DEF text, prose, content, operation, doc, sheet, bitable, table, cell, update, field
  <1>2. ASSUME NEW d, p = Previewed(d), Holds(d, content) PROVE p.content = content
    BY <1>2, PreviewKeepsContent DEF Holds
  <1>3. p.content = content
    <2>1. CASE InferDoc(text, doc, content, operation) = <<p>>
      <3>1. p = Previewed([Proposal("doc_append", doc, content) EXCEPT !.start = text.start])
        BY <2>1 DEF InferDoc
      <3>2. Holds([Proposal("doc_append", doc, content) EXCEPT !.start = text.start], content)
        BY ProposalHolds, FilledHolds
      <3>3. QED BY <1>2, <3>1, <3>2
    <2>2. CASE InferSheet(sheet, content, cell) = <<p>>
      <3>1. p = Previewed([Proposal("sheet_write", sheet, content) EXCEPT !.cell = cell])
        BY <2>2 DEF InferSheet
      <3>2. Holds([Proposal("sheet_write", sheet, content) EXCEPT !.cell = cell], content)
        BY ProposalHolds, FilledHolds
      <3>3. QED BY <1>2, <3>1, <3>2
    <2>3. CASE InferBitable(bitable, content, update, field) = <<p>>
      <3>1. \/ p = Previewed([Proposal("bitable_update", bitable, content)
                                EXCEPT !.record = update.record, !.field = update.field])
            \/ p = Previewed([Proposal("bitable_create", bitable, content) EXCEPT !.field = field])
        BY <2>3 DEF InferBitable, UpdateOf
      <3>2. /\ Holds([Proposal("bitable_update", bitable, content)
                        EXCEPT !.record = update.record, !.field = update.field], content)
            /\ Holds([Proposal("bitable_create", bitable, content) EXCEPT !.field = field], content)
        BY ProposalHolds, FilledHolds
      <3>3. QED BY <1>2, <3>1, <3>2
    <2>4. QED BY <1>1, <2>1, <2>2, <2>3
  <1>4. QED BY <1>3 DEF content, text, prose

LEMMA CorrectionHolds ==
    ASSUME NEW r, NEW p, Shaped(p), NEW prose, NEW q, Normalize(r, p, prose) = <<q>>
    PROVE  q.content \in {p.content, ContextualWritebackText(r).quoted,
                          OfAnswer(GeneratedContent(prose.lines))}
  <1> DEFINE c == NormalizeContent(r, p, prose)
             ref == FirstWritable(r, "bitable")
             text == ContextualWritebackText(r)
             content == ContentOr(text.quoted,
                                  ContentOr(OfAnswer(GeneratedContent(prose.lines)), p.content))
  <1>1. Shaped(c) /\ c.content \in {p.content, content}
    <2>1. c = p \/ c = Previewed([p EXCEPT !.content = content])
      BY DEF NormalizeContent, WithContent
    <2> HIDE DEF content, c
    <2>2. Shaped([p EXCEPT !.content = content]) /\ [p EXCEPT !.content = content].content = content
      BY GoesOn, ContentStays
    <2>3. /\ Shaped(Previewed([p EXCEPT !.content = content]))
          /\ Previewed([p EXCEPT !.content = content]).content = content
      BY <2>2, PreviewGoes, PreviewKeepsContent
    <2>4. QED BY <2>1, <2>3
  <1>2. content \in {p.content, text.quoted, OfAnswer(GeneratedContent(prose.lines))}
    BY DEF ContentOr
  <1>3. NormalizeTarget(r, c, prose) = <<q>>
    BY DEF Normalize
  <1> HIDE DEF c, content
  <1>4. CASE c.type = "doc_append"
    <2>1. q = c \/ q = Previewed([c EXCEPT !.start = TRUE])
      BY <1>3, <1>4 DEF NormalizeTarget, NormalizeDocTarget
    <2>2. Shaped([c EXCEPT !.start = TRUE]) /\ [c EXCEPT !.start = TRUE].content = c.content
      BY <1>1, GoesOn, ContentStays
    <2>3. q.content = c.content
      BY <2>1, <2>2, PreviewKeepsContent
    <2>4. QED BY <1>1, <1>2, <2>3
  <1>5. CASE c.type = "sheet_write"
    <2>1. PICK cell : q = c \/ q = Previewed([c EXCEPT !.cell = cell])
      BY <1>3, <1>5 DEF NormalizeTarget, NormalizeSheetTarget, WithCell
    <2>2. Shaped([c EXCEPT !.cell = cell]) /\ [c EXCEPT !.cell = cell].content = c.content
      BY <1>1, GoesOn, ContentStays
    <2>3. q.content = c.content
      BY <2>1, <2>2, PreviewKeepsContent
    <2>4. QED BY <1>1, <1>2, <2>3
  <1>6. CASE c.type = "message_send"
    BY <1>1, <1>2, <1>3, <1>6 DEF NormalizeTarget
  <1>7. CASE c.type \notin {"doc_append", "sheet_write", "message_send"}
    <2> DEFINE d == [c EXCEPT !.type = "bitable_create", !.record = "none"]
               e == [c EXCEPT !.type = "bitable_create"]
    <2>1. q = NormalizeBitableTarget(r, c, prose, ref)
      BY <1>3, <1>7 DEF NormalizeTarget
    <2>2. q = c \/ q = Previewed(d) \/ \E update : q = UpdateOf(ref, c.content, update)
      BY <2>1 DEF NormalizeBitableTarget, Created, Updated
    <2>3. d = [e EXCEPT !.record = "none"]
      OBVIOUS
    <2>4. Shaped(e) /\ e.content = c.content
      BY <1>1, GoesOn, ContentStays
    <2> HIDE DEF d, e
    <2>5. Shaped(d) /\ d.content = c.content
      BY <2>3, <2>4, GoesOn, ContentStays
    <2>6. Previewed(d).content = c.content
      BY <2>5, PreviewKeepsContent
    <2>7. ASSUME NEW update PROVE UpdateOf(ref, c.content, update).content = c.content
      <3> DEFINE u == [Proposal("bitable_update", ref, c.content)
                         EXCEPT !.record = update.record, !.field = update.field]
      <3>1. UpdateOf(ref, c.content, update) = Previewed(u)
        BY DEF UpdateOf
      <3>2. Holds(u, c.content)
        BY ProposalHolds, FilledHolds
      <3> HIDE DEF u
      <3>3. QED BY <3>1, <3>2, PreviewKeepsContent DEF Holds
    <2>8. q.content = c.content
      BY <2>2, <2>6, <2>7
    <2>9. QED BY <1>1, <1>2, <2>8
  <1>8. QED BY <1>4, <1>5, <1>6, <1>7

(* A text that is taken from the answer is what is cut out of it, or of the reply
   that was made of it. *)
IsCut(answer, content) ==
    content.from = "answer" =>
        \E lines \in {answer.prose.lines, RewrittenProse(answer).lines} :
            content = OfAnswer(GeneratedContent(lines))

LEMMA StatedIsNotCut ==
    ASSUME NEW content, content \in ContentType \cup {NoContent}, NEW answer
    PROVE  IsCut(answer, content)
  BY DEF IsCut, ContentType, NoContent, Content

LEMMA ProposalsAreCut ==
    ASSUME NEW r \in RequestType, NEW answer, AnswerOK(answer)
    PROVE  LET made == Apply(r, answer)
           IN  \A k \in DOMAIN made : IsCut(answer, made[k].content)
  <1> DEFINE plans == ModelPlans(answer)
             prose == RewrittenProse(answer)
             text == ContextualWritebackText(r)
             Cut(content) == IsCut(answer, content)
  <1> SUFFICES ASSUME NEW k \in DOMAIN Apply(r, answer)
               PROVE  Cut(Apply(r, answer)[k].content)
    OBVIOUS
  <1>1. PICK p, q : Corrected(r, answer, p, q) /\ Apply(r, answer)[k] = DisplayTarget(r, q)
    BY AppliedOnes
  <1>2. Normalize(r, p, prose) = <<q>>
    BY <1>1 DEF Corrected
  <1>3. \/ \E n \in DOMAIN plans : PlanProposal(r, plans[n]) = <<p>>
        \/ InferWriteback(r, answer) = <<p>>
    BY <1>1, InferredOnes DEF Corrected
  <1>4. /\ Cut(text.quoted) /\ Cut(text.unquoted)
        /\ Cut(OfAnswer(GeneratedContent(answer.prose.lines)))
        /\ Cut(OfAnswer(GeneratedContent(prose.lines)))
    <2>1. text.quoted \in ContentType /\ text.unquoted \in ContentType
      BY TextsAreTyped DEF TextType
    <2>2. QED BY <2>1, StatedIsNotCut DEF IsCut
  <1>5. ASSUME NEW n \in DOMAIN plans
        PROVE  plans[n].content \in ContentType
               /\ plans[n].type \in {"doc", "sheet", "bitable", "message"}
    <2> HIDE DEF plans
    <2>1. plans \in Seq({plan \in PlanType : plan.type # "none"})
      BY PlansAreKnown DEF plans
    <2>2. plans[n] \in PlanType /\ plans[n].type # "none"
      BY <2>1
    <2>3. QED BY <2>2 DEF PlanType
  <1> HIDE DEF plans, prose, text
  <1>6. Cut(p.content)
    <2>1. ASSUME NEW n \in DOMAIN plans, PlanProposal(r, plans[n]) = <<p>> PROVE Cut(p.content)
      <3>1. p.content \in {plans[n].content, NoContent}
        BY <1>5, <2>1, PlanHolds
      <3>2. QED BY <1>5, <3>1, StatedIsNotCut
    <2>2. CASE InferWriteback(r, answer) = <<p>>
      <3>1. p.content = WritebackContent(text, answer.prose)
        BY <2>2, InferenceHolds DEF text
      <3>2. p.content \in {text.quoted, OfAnswer(GeneratedContent(answer.prose.lines)),
                           text.unquoted}
        BY <3>1 DEF WritebackContent, ContentOr
      <3> HIDE DEF Cut
      <3>3. QED BY <1>4, <3>2
    <2>3. QED BY <1>3, <2>1, <2>2
  <1>7. Shaped(p) /\ Shaped(q)
    BY <1>1, SoundIsShaped DEF Corrected
  <1>8. q.content \in {p.content, text.quoted, OfAnswer(GeneratedContent(prose.lines))}
    BY <1>2, <1>7, CorrectionHolds DEF text
  <1>9. DisplayTarget(r, q).content = q.content
    BY <1>7, ContentStays DEF DisplayTarget
  <1> HIDE DEF Cut
  <1>10. QED BY <1>1, <1>4, <1>6, <1>8, <1>9

-------------------------------------------------------------------------------
(* What the places mean *)

(* The records of a table are what is read back from the lines of those it stores. *)
LEMMA TableIsReadBack ==
    ASSUME NEW r \in RequestType, Reads(r), NEW ref, TableOf(r, ref).records # <<>>
    PROVE  LET records == TableOf(r, ref).records
               fields == TableOf(r, ref).fields
               remote == Worlds[r.world][ref.id]
           IN  /\ records \in Seq(RecordType) /\ fields \in Seq(FieldType) /\ remote.cut \in CutType
               /\ \E i \in DOMAIN r.results :
                     LET order == RecordsOf(remote, r.results[i].ref)
                     IN  /\ r.results[i].ref.id = ref.id
                         /\ order \in Seq(StoredRecordType) /\ Len(records) =< Len(order)
                         /\ \A row \in DOMAIN records :
                               /\ row \in DOMAIN order /\ records[row].index = row
                               /\ records[row] =
                                     RecordFromLine(row, LineLeft(order[row], fields, row, remote.cut))
  <1> DEFINE table == TableOf(r, ref)
             remote == Worlds[r.world][ref.id]
  <1>1. PICK i \in DOMAIN r.results :
            /\ r.results[i].ref.id = ref.id
            /\ RecordsOf(remote, r.results[i].ref) \in Seq(StoredRecordType)
            /\ remote \in RemoteType
            /\ table.records = Numbered(RecordsOf(remote, r.results[i].ref), table.fields, remote.cut)
    BY TableIsNumbered
  <1>2. PICK order \in Seq(StoredRecordType) : order = RecordsOf(remote, r.results[i].ref)
    BY <1>1
  <1>3. table \in TableType
    BY TableIsNumbered
  <1>4. PICK fields \in Seq(FieldType) : fields = table.fields
    BY <1>3 DEF TableType
  <1>5. PICK cut \in CutType : cut = remote.cut
    BY <1>1, RemoteTypes
  <1>6. PICK records : records = Numbered(order, fields, cut)
    OBVIOUS
  <1>7. /\ records \in Seq(RecordType) /\ Len(records) =< Len(order)
        /\ \A row \in DOMAIN records :
               records[row] = RecordFromLine(row, LineLeft(order[row], fields, row, cut))
    BY <1>6, NumberedType
  <1>8. \A row \in DOMAIN records : row \in DOMAIN order /\ records[row].index = row
    <2>1. \A row \in DOMAIN records : row \in DOMAIN order
      BY <1>7
    <2>2. QED BY <1>7, <2>1 DEF RecordFromLine
  <1>9. table.records = records
    BY <1>1, <1>2, <1>4, <1>5, <1>6
  <1> HIDE DEF table, remote
  <1>10. QED BY <1>1, <1>2, <1>4, <1>5, <1>7, <1>8, <1>9 DEF table, remote

(* A record that is read back goes under an id that its line states. *)
LEMMA IdsAreTold ==
    ASSUME NEW remote, remote.cut \in CutType, NEW order \in Seq(StoredRecordType),
           NEW row \in DOMAIN order, NEW fields \in Seq(FieldType), NEW key, NEW value,
           LastStated(LineLeft(order[row], fields, row, remote.cut), key) = value, value # "none"
    PROVE  IF key = "record_id" THEN GoesUnder(remote, order, row, value)
           ELSE States(remote, order, row, key, value)
  <1>1. PICK record \in StoredRecordType : record = order[row]
    OBVIOUS
  <1>2. PICK cut \in CutType : cut = remote.cut
    OBVIOUS
  <1>3. Told(record, row, cut, key, value)
    BY <1>1, <1>2, LinesAreTold
  <1>4. \/ key = "record_id" /\ value = order[row].id
        \/ [key |-> key, value |-> value] \in PiecesOf(order[row])
        \/ row = remote.cut.line /\ value = remote.cut.rest
    BY <1>1, <1>2, <1>3 DEF Told
  <1>5. QED BY <1>4 DEF GoesUnder, States

(* What it means that a record was told: it stands in the row, counted in the order
   that was read of the resource, or in the last one that is numbered. *)
LEMMA ToldIsInOrder ==
    ASSUME NEW r \in RequestType, Reads(r), NEW ref, NEW id, NEW row, NEW record,
           ToldBy(TableOf(r, ref), id, row, record), id # record, record # "none"
    PROVE  LET records == TableOf(r, ref).records
               remote == Worlds[r.world][ref.id]
           IN  \E i \in DOMAIN r.results, n \in DOMAIN records :
                  /\ r.results[i].ref.id = ref.id
                  /\ n = row \/ (row = -1 /\ n = Len(records))
                  /\ GoesUnder(remote, RecordsOf(remote, r.results[i].ref), n, record)
  <1> DEFINE table == TableOf(r, ref)
             remote == Worlds[r.world][ref.id]
  <1>1. table.records # <<>>
    BY DEF ToldBy, ToSet
  <1>2. PICK records \in Seq(RecordType), fields \in Seq(FieldType) :
            records = table.records /\ fields = table.fields
    BY <1>1, TableIsReadBack
  <1>3. PICK i \in DOMAIN r.results, order \in Seq(StoredRecordType) :
            /\ r.results[i].ref.id = ref.id /\ order = RecordsOf(remote, r.results[i].ref)
            /\ \A k \in DOMAIN records :
                   /\ k \in DOMAIN order /\ records[k].index = k
                   /\ records[k] = RecordFromLine(k, LineLeft(order[k], fields, k, remote.cut))
    BY <1>1, <1>2, TableIsReadBack
  <1>4. remote.cut \in CutType
    BY <1>1, TableIsReadBack
  <1> HIDE DEF table, remote
  <1>5. \/ \E q \in ToSet(records) : q.index = row /\ q.id = record
        \/ row = -1 /\ record = LastRecord(table).id
    BY <1>2 DEF ToldBy, table
  <1>6. PICK n \in DOMAIN records : /\ n = row \/ (row = -1 /\ n = Len(records))
                                    /\ records[n].id = record
    <2>1. CASE \E q \in ToSet(records) : q.index = row /\ q.id = record
      <3>1. PICK k \in DOMAIN records : records[k].index = row /\ records[k].id = record
        BY <2>1 DEF ToSet
      <3>2. k = row
        BY <1>3, <3>1
      <3>3. QED BY <3>1, <3>2
    <2>2. CASE row = -1 /\ record = LastRecord(table).id
      <3>1. LastRecord(table) = records[Len(records)]
        BY <1>1, <1>2, <1>3, LastIsNumbered
      <3>2. Len(records) \in DOMAIN records
        BY <1>1, <1>2
      <3>3. QED BY <2>2, <3>1, <3>2
    <2>3. QED BY <1>5, <2>1, <2>2
  <1>7. GoesUnder(remote, order, n, record)
    <2>1. PICK line : line = LineLeft(order[n], fields, n, remote.cut)
      OBVIOUS
    <2>2. records[n] = RecordFromLine(n, line) /\ n \in DOMAIN order
      BY <1>3, <2>1
    <2>3. LastStated(line, "record_id") = record
      BY <1>6, <2>2 DEF RecordFromLine
    <2>4. QED BY <1>4, <2>1, <2>2, <2>3, IdsAreTold
  <1>8. QED BY <1>2, <1>3, <1>6, <1>7 DEF table, remote

LEMMA SaysAreTyped ==
    ASSUME NEW r \in RequestType
    PROVE  SaysOf(r) \subseteq SaysType
  <1>1. r.text \in TextType /\ r.answers \subseteq AnswerType
    BY DEF RequestType
  <1>2. r.text.about \in SaysType
    BY <1>1 DEF TextType
  <1>3. ASSUME NEW prose \in ProsesOf(r) PROVE prose.about \in SaysType
    <2>1. prose \in ProseType
      <3>1. PICK answer \in r.answers : prose = answer.prose \/ prose = answer.left
        BY DEF ProsesOf
      <3>2. answer \in AnswerType
        BY <1>1
      <3>3. QED BY <3>1, <3>2 DEF AnswerType
    <2>2. QED BY <2>1 DEF ProseType
  <1>4. QED BY <1>2, <1>3 DEF SaysOf

(* A record matches when it holds the value under a name that is asked for. *)
LEMMA MatchesUnderName ==
    ASSUME NEW says \in SaysType, says.pair # NoPair, NEW field, NEW record \in RecordType
    PROVE  Matches(record, [pair |-> says.pair], field) <=>
               \E key \in FieldTitles : /\ IsAsked(says.pair, key, field)
                                        /\ record.values[key] = says.pair.value
  <1>1. PICK pair \in [field : FieldTitles \cup {"any"}, value : STRING] : pair = says.pair
    BY DEF SaysType
  <1>2. DOMAIN record.values = FieldTitles
    BY DEF RecordType
  <1>3. Matches(record, [pair |-> pair], field) <=>
            IF pair.field # "any" THEN record.values[pair.field] = pair.value
            ELSE \E f \in FieldTitles \ {field} : record.values[f] = pair.value
    BY <1>2 DEF Matches
  <1>4. CASE pair.field # "any"
    <2>1. pair.field \in FieldTitles
      BY <1>4
    <2>2. QED BY <1>1, <1>3, <1>4, <2>1 DEF IsAsked
  <1>5. CASE pair.field = "any"
    BY <1>1, <1>3, <1>5 DEF IsAsked
  <1>6. QED BY <1>4, <1>5

(* Records that are read back unchanged hold the values of their cells. *)
LEMMA UnchangedValues ==
    ASSUME NEW remote, NEW order \in Seq(StoredRecordType), NEW table,
           table.fields \in Seq(FieldType), table.records \in Seq(RecordType),
           remote.cut \in CutType, ReadBackUnchanged(remote, order, table),
           NEW row \in DOMAIN table.records, row \in DOMAIN order,
           table.records[row] = RecordFromLine(row, LineLeft(order[row], table.fields, row, remote.cut))
    PROVE  /\ table.records[row].id = order[row].id
           /\ \A key \in FieldTitles :
                 table.records[row].values[key] =
                     IF key \in FieldNames(table) THEN order[row].values[key].head ELSE "none"
  <1>1. PICK record \in StoredRecordType : record = order[row]
    OBVIOUS
  <1>2. PICK fields \in Seq(FieldType) : fields = table.fields
    OBVIOUS
  <1>3. PICK cut \in CutType : cut = remote.cut
    OBVIOUS
  <1> DEFINE names == {fields[k].name : k \in DOMAIN fields}
  <1>4. FieldNames(table) = names
    BY <1>2 DEF FieldNames
  <1>5. row # cut.line
    <2>1. row =< Len(table.records) /\ Len(table.records) < cut.line
      BY <1>3 DEF ReadBackUnchanged
    <2>2. row \in Nat /\ Len(table.records) \in Nat /\ cut.line \in Nat
      BY DEF CutType
    <2>3. QED BY <2>1, <2>2
  <1>6. \A k \in DOMAIN fields : /\ fields[k].name # "record_id"
                                 /\ record.values[fields[k].name].more = <<>>
    BY <1>1, <1>2, <1>4 DEF ReadBackUnchanged
  <1>7. PICK line : line = LineLeft(record, fields, row, cut)
    OBVIOUS
  <1>8. /\ LastStated(line, "record_id") = record.id
        /\ \A f \in names : LastStated(line, f) = record.values[f].head
        /\ \A f : f \notin names /\ f # "record_id" => LastStated(line, f) = "none"
    BY <1>5, <1>6, <1>7, PlainLines
  <1>9. table.records[row] = RecordFromLine(row, line)
    BY <1>1, <1>2, <1>3, <1>7
  <1>10. "record_id" \notin names
    BY <1>6
  <1> HIDE DEF names
  <1>11. ASSUME NEW key \in FieldTitles
         PROVE  table.records[row].values[key] = IF key \in names THEN record.values[key].head
                                                 ELSE "none"
    <2>1. table.records[row].values[key] = IF key = "record_id" THEN "none"
                                           ELSE LastStated(line, key)
      BY <1>9 DEF RecordFromLine
    <2>2. QED BY <1>8, <1>10, <2>1
  <1>12. table.records[row].id = record.id
    BY <1>8, <1>9 DEF RecordFromLine
  <1>13. QED BY <1>1, <1>4, <1>11, <1>12

(* What it means that a record was told by a value: its line states it, and it is the
   only one that holds it if the records are read back unchanged. *)
InOrderByValue(r, ref, says, field, record) ==
    LET table == TableOf(r, ref)
        remote == Worlds[r.world][ref.id]
        numbered == DOMAIN table.records
    IN  \E i \in DOMAIN r.results, row \in numbered :
           LET order == RecordsOf(remote, r.results[i].ref)
           IN  /\ r.results[i].ref.id = ref.id
               /\ GoesUnder(remote, order, row, record)
               /\ \E key \in FieldTitles :
                     /\ IsAsked(says.pair, key, field)
                     /\ States(remote, order, row, key, says.pair.value)
               /\ ReadBackUnchanged(remote, order, table) =>
                     /\ record = order[row].id
                     /\ {row} = {k \in numbered : HoldsValue(order[k], says.pair, field,
                                                             FieldNames(table))}

LEMMA ValueIsInOrder ==
    ASSUME NEW r \in RequestType, Reads(r), NEW ref, NEW says \in SaysType, NEW field, NEW record,
           ToldByValue(TableOf(r, ref), says.pair, field, record), record # "none"
    PROVE  InOrderByValue(r, ref, says, field, record)
  <1> DEFINE table == TableOf(r, ref)
             remote == Worlds[r.world][ref.id]
             pair == says.pair
             Fits(k) == Matches(table.records[k], [pair |-> pair], field)
  <1>1. PICK q \in ToSet(table.records) :
            /\ {x \in ToSet(table.records) : Matches(x, [pair |-> pair], field)} = {q}
            /\ q.id = record
    BY DEF ToldByValue
  <1>2. pair # NoPair /\ pair.value # "none"
    BY DEF ToldByValue
  <1>3. table.records # <<>>
    BY <1>1 DEF ToSet
  <1>4. /\ table.records \in Seq(RecordType) /\ table.fields \in Seq(FieldType)
        /\ remote.cut \in CutType
    BY <1>3, TableIsReadBack
  <1>5. PICK i \in DOMAIN r.results, order \in Seq(StoredRecordType) :
            /\ r.results[i].ref.id = ref.id /\ order = RecordsOf(remote, r.results[i].ref)
            /\ \A k \in DOMAIN table.records :
                   /\ k \in DOMAIN order /\ table.records[k].index = k
                   /\ table.records[k] =
                         RecordFromLine(k, LineLeft(order[k], table.fields, k, remote.cut))
    BY <1>3, TableIsReadBack
  <1> HIDE DEF table, remote
  <1>6. PICK row \in DOMAIN table.records : table.records[row] = q
    BY <1>1 DEF ToSet
  <1>7. Fits(row) /\ \A k \in DOMAIN table.records : Fits(k) => k = row
    <2>1. ASSUME NEW k \in DOMAIN table.records, Fits(k) PROVE k = row
      <3>1. table.records[k] \in ToSet(table.records)
        BY DEF ToSet
      <3>2. table.records[k] = q
        BY <1>1, <2>1, <3>1
      <3>3. QED BY <1>5, <1>6, <3>2
    <2>2. Fits(row)
      BY <1>1, <1>6
    <2>3. QED BY <2>1, <2>2
  <1>8. ASSUME NEW k \in DOMAIN table.records
        PROVE  Fits(k) <=> \E key \in FieldTitles : /\ IsAsked(pair, key, field)
                                                    /\ table.records[k].values[key] = pair.value
    <2>1. table.records[k] \in RecordType
      BY <1>4
    <2>2. QED BY <1>2, <2>1, MatchesUnderName
  <1> HIDE DEF Fits
  <1>9. PICK line : line = LineLeft(order[row], table.fields, row, remote.cut)
    OBVIOUS
  <1>10. table.records[row] = RecordFromLine(row, line) /\ row \in DOMAIN order
    BY <1>5, <1>9
  <1>11. GoesUnder(remote, order, row, record)
    <2>1. LastStated(line, "record_id") = record
      BY <1>1, <1>6, <1>10 DEF RecordFromLine
    <2>2. QED BY <1>4, <1>9, <1>10, <2>1, IdsAreTold
  <1>12. \E key \in FieldTitles : /\ IsAsked(pair, key, field)
                                  /\ States(remote, order, row, key, pair.value)
    <2>1. PICK key \in FieldTitles : /\ IsAsked(pair, key, field)
                                     /\ table.records[row].values[key] = pair.value
      BY <1>7, <1>8
    <2>2. table.records[row].values[key] = IF key = "record_id" THEN "none" ELSE LastStated(line, key)
      BY <1>10 DEF RecordFromLine
    <2>3. key # "record_id" /\ LastStated(line, key) = pair.value
      BY <1>2, <2>1, <2>2
    <2>4. States(remote, order, row, key, pair.value)
      BY <1>2, <1>4, <1>9, <1>10, <2>3, IdsAreTold
    <2>5. QED BY <2>1, <2>4
  <1>13. ASSUME ReadBackUnchanged(remote, order, table)
         PROVE  /\ record = order[row].id
                /\ {row} = {k \in DOMAIN table.records : HoldsValue(order[k], pair, field,
                                                                    FieldNames(table))}
    <2>1. ASSUME NEW k \in DOMAIN table.records
          PROVE  /\ table.records[k].id = order[k].id
                 /\ \A key \in FieldTitles :
                       table.records[k].values[key] =
                           IF key \in FieldNames(table) THEN order[k].values[key].head ELSE "none"
      BY <1>4, <1>5, <1>13, UnchangedValues
    <2>2. FieldNames(table) \subseteq FieldTitles
      <3>1. \A f \in FieldType : f.name \in FieldTitles
        BY DEF FieldType
      <3>2. QED BY <1>4, <3>1 DEF FieldNames
    <2>3. ASSUME NEW k \in DOMAIN table.records
          PROVE  Fits(k) <=> HoldsValue(order[k], pair, field, FieldNames(table))
      BY <1>2, <1>8, <2>1, <2>2 DEF HoldsValue
    <2>4. QED BY <1>1, <1>6, <1>7, <2>1, <2>3
  <1> HIDE DEF pair
  <1>14. LET place == RecordsOf(remote, r.results[i].ref)
         IN  /\ r.results[i].ref.id = ref.id
             /\ GoesUnder(remote, place, row, record)
             /\ \E key \in FieldTitles : IsAsked(pair, key, field)
                                         /\ States(remote, place, row, key, pair.value)
             /\ ReadBackUnchanged(remote, place, table) =>
                   /\ record = place[row].id
                   /\ {row} = {k \in DOMAIN table.records : HoldsValue(place[k], pair, field,
                                                                       FieldNames(table))}
    BY <1>5, <1>11, <1>12, <1>13
  <1>15. QED BY <1>14 DEF InOrderByValue, table, remote, pair

(* An append lands below all there is, where all there is was read. *)
LEMMA LandsFree ==
    ASSUME NEW r \in RequestType, Reads(r), NEW p, Lands(r, p), p.cell \notin Stated(r),
           NEW i \in DOMAIN r.results, r.results[i].ref.type = "sheet", ~r.results[i].error
    PROVE  LET sheet == CHOOSE s \in ToSet(Worlds[r.world][p.ref].sheets) : s.id = p.sheet
           IN  \/ \E cell \in sheet.cells : cell[1] > MaxSheetRows \/ cell[2] > MaxSheetColumns
               \/ \A cell \in sheet.cells : cell[1] < p.cell.row
  <1> DEFINE ref == FirstWritable(r, "sheet")
             at == {k \in 1..Len(r.results) :
                       /\ r.results[k].ref.type = "sheet" /\ r.results[k].ref.id = ref.id
                       /\ r.results[k].append > 0}
             SheetType == [id : STRING, hidden : BOOLEAN, cells : SUBSET (Nat \X Nat)]
  <1>1. /\ ref # NoRef /\ p.ref = ref.id /\ p.sheet = ref.sheet
        /\ ref.hint = NoCell /\ p.cell.row = SheetAppendRow(r, ref)
    BY DEF Lands
  <1>2. PICK results \in Seq(ResultType) : results = r.results
    BY DEF RequestType
  <1>3. PICK k \in DOMAIN results :
            /\ ref = results[k].ref /\ results[k].ref.type = "sheet" /\ ~results[k].error
            /\ \A j \in DOMAIN results :
                   results[j].ref.type = "sheet" /\ ~results[j].error => k =< j
    <2>1. \/ ref = NoRef
          \/ \E n \in DOMAIN r.results :
                /\ ref = r.results[n].ref /\ r.results[n].ref.type = "sheet"
                /\ ~r.results[n].error
                /\ \A j \in DOMAIN r.results :
                       r.results[j].ref.type = "sheet" /\ ~r.results[j].error => n =< j
          \/ \A j \in DOMAIN r.results : ~(r.results[j].ref.type = "sheet" /\ ~r.results[j].error)
      BY WritableIsFound, "sheet" # "bitable"
    <2> HIDE DEF ref
    <2>2. QED BY <1>1, <1>2, <2>1
  <1> HIDE DEF ref
  <1>4. ~IsFailure(results[k])
    BY <1>3 DEF IsFailure
  <1>5. PICK j \in DOMAIN r.refs : IsRead(Worlds[r.world], r.refs[j], results[k])
    BY <1>2, <1>4 DEF Reads
  <1>6. PICK n \in DOMAIN Worlds[r.world][ref.id].sheets :
            /\ Worlds[r.world][ref.id].sheets[n].id = ref.sheet
            /\ results[k].append = NextAppendRow(ReadCells(Worlds[r.world][ref.id].sheets[n], ref))
    BY <1>3, <1>5 DEF IsRead
  <1>7. ref.id \in Resources
    BY <1>3, <1>5 DEF IsRead
  <1>8. PICK sheets \in Seq(SheetType) :
            /\ sheets = Worlds[r.world][ref.id].sheets
            /\ \A a, b \in DOMAIN sheets : sheets[a].id = sheets[b].id => a = b
    <2>1. r.world \in DOMAIN Worlds
      BY DEF RequestType
    <2>2. Worlds[r.world][ref.id] \in RemoteType
      BY <1>7, <2>1, WorldsAssumption
    <2>3. Worlds[r.world][ref.id].sheets \in Seq(SheetType)
      BY <2>2, RemoteTypes
    <2>4. LET s == Worlds[r.world][ref.id].sheets
          IN  \A a, b \in DOMAIN s : s[a].id = s[b].id => a = b
      BY <1>7, <2>1, WorldsAssumption
    <2>5. QED BY <2>3, <2>4
  <1>9. PICK sheet \in SheetType : sheet = sheets[n] /\ sheet.id = ref.sheet
    <2>1. sheets[n] \in SheetType
      <3> HIDE DEF SheetType
      <3> QED BY <1>6, <1>8
    <2>2. QED BY <1>6, <1>8, <2>1
  <1>10. (CHOOSE s \in ToSet(Worlds[r.world][p.ref].sheets) : s.id = p.sheet) = sheet
    <2>1. sheet \in ToSet(sheets)
      BY <1>6, <1>8, <1>9 DEF ToSet
    <2>2. ASSUME NEW s \in ToSet(sheets), s.id = ref.sheet PROVE s = sheet
      <3>1. PICK m \in DOMAIN sheets : s = sheets[m]
        BY DEF ToSet
      <3>2. m = n
        BY <1>6, <1>8, <1>9, <2>2, <3>1
      <3>3. QED BY <1>9, <3>1, <3>2
    <2>3. (CHOOSE s \in ToSet(sheets) : s.id = ref.sheet) = sheet
      BY <1>9, <2>1, <2>2
    <2>4. QED BY <1>1, <1>8, <2>3
  <1>11. SUFFICES ASSUME ~\E cell \in sheet.cells : cell[1] > MaxSheetRows
                                                   \/ cell[2] > MaxSheetColumns
                  PROVE  \A cell \in sheet.cells : cell[1] < p.cell.row
    BY <1>10
  <1>12. sheet.cells \in SUBSET (Nat \X Nat) /\ MaxSheetRows \in Nat /\ MaxSheetColumns \in Nat
    BY ReaderAssumption
  <1>13. \A cell \in sheet.cells : cell[1] =< MaxSheetRows /\ cell[2] =< MaxSheetColumns
    BY <1>11, <1>12
  <1>14. ReadCells(sheet, ref) = sheet.cells
    BY <1>1, <1>13 DEF ReadCells
  <1>15. /\ results[k].append \in Nat
         /\ \A cell \in sheet.cells : cell[1] < results[k].append
    <2>1. results[k].append = NextAppendRow(sheet.cells)
      BY <1>6, <1>8, <1>9, <1>14
    <2>2. QED BY <1>12, <1>13, <2>1, AppendRowIsBelow
  <1>16. CASE sheet.cells = {}
    BY <1>16
  <1>17. CASE sheet.cells # {}
    <2>1. results[k].append > 0
      <3>1. PICK cell \in sheet.cells : TRUE
        BY <1>17
      <3>2. cell[1] \in Nat /\ cell[1] < results[k].append
        BY <1>12, <1>15
      <3>3. QED BY <1>15, <3>2
    <2>2. k \in at /\ at \in SUBSET Nat /\ at \in SUBSET (1..Len(results))
      BY <1>2, <1>3, <2>1
    <2>3. \A m \in at : k =< m
      <3> SUFFICES ASSUME NEW m \in at PROVE k =< m
        OBVIOUS
      <3>1. m \in DOMAIN results /\ results[m].ref.type = "sheet" /\ results[m].append > 0
        BY <1>2
      <3>2. ~results[m].error
        <4>1. ~IsFailure(results[m])
          BY <3>1 DEF IsFailure
        <4>2. QED BY <1>2, <3>1, <4>1 DEF Reads, IsRead
      <3>3. QED BY <1>3, <3>1, <3>2
    <2>4. SheetAppendRow(r, ref) =
              LET m == IF at # {} THEN Min(at) ELSE 0
              IN  IF m = 0 THEN 1 ELSE r.results[m].append
      BY DEF SheetAppendRow, SelectInSeq
    <2> HIDE DEF at
    <2>5. Min(at) \in at /\ Min(at) \in DOMAIN results /\ Min(at) > 0
      BY <2>2, PlaceOf
    <2>6. Min(at) = k
      <3>1. PICK m \in at : \A x \in at : m =< x
        BY <2>2, LeastOf
      <3>2. Min(at) =< k
        BY <2>2, <3>1 DEF Min
      <3>3. k =< Min(at)
        BY <2>3, <2>5
      <3>4. QED BY <2>2, <2>5, <3>2, <3>3
    <2>7. SheetAppendRow(r, ref) = results[k].append
      BY <1>2, <2>2, <2>4, <2>5, <2>6
    <2>8. QED BY <1>1, <1>15, <2>7
  <1>18. QED BY <1>16, <1>17

-------------------------------------------------------------------------------
(* Where the proposals of a turn go *)

PlacesInv == Reads(request) /\ \A p \in Made : Aims(request, p)

LEMMA StatusIsFailure ==
    \A i \in DOMAIN StatusResults : IsFailure(StatusResults[i])
  <1>1. PICK status : status = SearchStatus /\ IsFailure(status)
    BY FailedIsFailure DEF SearchStatus
  <1>2. StatusResults = <<status>> \/ StatusResults = <<status, status>>
    BY <1>1 DEF StatusResults
  <1>3. QED BY <1>1, <1>2

LEMMA SettledReads ==
    ASSUME request \in RequestType, NEW refs, NEW status,
           \A i \in DOMAIN status : IsFailure(status[i]), Settle(refs, status)
    PROVE  Reads(request')
  <1>1. PICK hinted : request' = [request EXCEPT !.refs = hinted, !.results = status]
    BY DEF Settle
  <1>2. request'.results = status
    BY <1>1 DEF RequestType
  <1>3. QED BY <1>2 DEF Reads

(* Each result is that of a resource of the request. *)
LEMMA ReadOnesAreNamed ==
    ASSUME request \in RequestType, NEW i \in DOMAIN ReadResources
    PROVE  /\ Worlds[request.world] \in [Resources -> RemoteType]
           /\ \E j \in DOMAIN request.refs :
                 /\ request.refs[j] \in KnownRefType /\ request.refs[j].type \in ReadableTypes
                 /\ ReadResources[i] = ReadResource(Worlds[request.world], request.refs[j])
  <1> DEFINE refs == IF request.searcher /\ SearchGenerated(request.refs)
                     THEN FirstOnes(request.refs, ReadLimit) ELSE request.refs
             at == {k \in DOMAIN refs : refs[k].type \in ReadableTypes}
  <1>1. ReadRefs = Those(refs, at)
    BY DEF ReadRefs
  <1>2. request.refs \in Seq(KnownRefType) /\ ReadLimit \in Int /\ ReadLimit > 0
    BY LimitsAssumption DEF RequestType
  <1>3. refs \in Seq(KnownRefType)
        /\ \A k \in DOMAIN refs : k \in DOMAIN request.refs /\ refs[k] = request.refs[k]
    <2>1. CASE refs = request.refs
      BY <1>2, <2>1
    <2>2. CASE refs = FirstOnes(request.refs, ReadLimit)
      <3>1. refs \in Seq(KnownRefType)
        BY <1>2, <2>2, FirstOnesOf
      <3>2. FirstOnes(request.refs, ReadLimit) =
                SubSeq(request.refs, 1, Min({Len(request.refs), ReadLimit}))
        BY DEF FirstOnes
      <3>3. Min({Len(request.refs), ReadLimit}) \in Nat
            /\ Min({Len(request.refs), ReadLimit}) =< Len(request.refs)
        <4> DEFINE limits == {Len(request.refs), ReadLimit}
        <4>1. limits \in SUBSET Nat /\ limits # {} /\ Len(request.refs) \in limits
          BY <1>2
        <4> HIDE DEF limits
        <4>2. PICK x \in limits : \A y \in limits : x =< y
          BY <4>1, LeastOf
        <4>3. Min(limits) \in limits /\ \A y \in limits : Min(limits) =< y
          BY <4>2 DEF Min
        <4>4. QED BY <4>1, <4>3 DEF limits
      <3> HIDE DEF refs
      <3>4. PICK n \in Nat : n =< Len(request.refs) /\ refs = SubSeq(request.refs, 1, n)
        BY <2>2, <3>2, <3>3
      <3>5. \A k \in DOMAIN refs : k \in DOMAIN request.refs /\ refs[k] = request.refs[k]
        BY <1>2, <3>4
      <3>6. QED BY <3>1, <3>5
    <2>3. QED BY <2>1, <2>2
  <1> HIDE DEF refs
  <1>4. at \in SUBSET DOMAIN refs
    OBVIOUS
  <1>5. \A ref \in {refs[k] : k \in at} :
            /\ ref \in KnownRefType /\ ref.type \in ReadableTypes
            /\ \E j \in DOMAIN request.refs : ref = request.refs[j]
    <2>1. \A k \in DOMAIN refs : refs[k] \in KnownRefType
      BY <1>3
    <2>2. QED BY <1>3, <2>1
  <1> HIDE DEF at
  <1>6. ReadRefs \in Seq({refs[k] : k \in at})
    BY <1>1, <1>3, <1>4, ThoseThereAre
  <1>7. DOMAIN ReadResources = DOMAIN ReadRefs
        /\ ReadResources[i] = ReadResource(Worlds[request.world], ReadRefs[i])
    BY DEF ReadResources
  <1>8. PICK ref \in {refs[k] : k \in at} : ref = ReadRefs[i]
    BY <1>6, <1>7
  <1>9. PICK j \in DOMAIN request.refs : ref = request.refs[j]
    BY <1>5
  <1>10. ref \in KnownRefType /\ ref.type \in ReadableTypes
    BY <1>5
  <1>11. Worlds[request.world] \in [Resources -> RemoteType]
    BY WorldsAssumption DEF RequestType
  <1>12. ReadResources[i] = ReadResource(Worlds[request.world], ref)
    BY <1>7, <1>8
  <1>13. QED BY <1>9, <1>10, <1>11, <1>12

LEMMA ReadReads ==
    ASSUME request \in RequestType, Reads(request), Read
    PROVE  Reads(request')
  <1>1. PICK old \in Seq(ResultType) : old = request.results
    BY DEF RequestType
  <1>2. PICK new \in Seq(ResultType) : new = ReadResources
    BY ResourcesAreRead
  <1> DEFINE results == old \o new
  <1>3. request' = [request EXCEPT !.results = results]
    BY <1>1, <1>2 DEF Read
  <1>4. request'.results = results /\ request'.refs = request.refs
        /\ request'.world = request.world
    <2> HIDE DEF results
    <2> QED BY <1>3 DEF RequestType
  <1>5. \A i \in DOMAIN new :
            \/ IsFailure(new[i])
            \/ \E j \in DOMAIN request.refs :
                  IsRead(Worlds[request.world], request.refs[j], new[i])
    BY <1>2, ReadOnesAreNamed, ResourceIsRead
  <1>6. SUFFICES ASSUME NEW i \in DOMAIN results
                 PROVE  \/ IsFailure(results[i])
                        \/ \E j \in DOMAIN request.refs :
                              IsRead(Worlds[request.world], request.refs[j], results[i])
    BY <1>4 DEF Reads
  <1>7. \/ i \in DOMAIN old /\ results[i] = old[i]
        \/ i - Len(old) \in DOMAIN new /\ results[i] = new[i - Len(old)]
    OBVIOUS
  <1>8. CASE i \in DOMAIN old /\ results[i] = old[i]
    BY <1>1, <1>8 DEF Reads
  <1>9. CASE i - Len(old) \in DOMAIN new /\ results[i] = new[i - Len(old)]
    <2>1. PICK k \in DOMAIN new : results[i] = new[k]
      BY <1>9
    <2>2. QED BY <1>5, <2>1
  <1>10. QED BY <1>7, <1>8, <1>9

(* What the model says is the request's, also when its answer is replaced. *)
LEMMA TrustedAnswers ==
    ASSUME request \in RequestType, NEW answer \in request.answers
    PROVE  Answers(request, TrustedAnswer(answer))
  <1>1. answer \in AnswerType
    BY DEF RequestType
  <1>2. AnswerOK(TrustedAnswer(answer))
    BY <1>1, AnswersAreTrusted
  <1>3. /\ ToSet(answer.plans) \subseteq PlansOf(request)
        /\ Said(request, answer.prose) /\ Said(request, answer.left)
    <2>1. ToSet(answer.plans) \subseteq PlansOf(request)
      BY DEF PlansOf
    <2>2. answer.prose \in ProsesOf(request) /\ answer.left \in ProsesOf(request)
      BY DEF ProsesOf
    <2>3. \A prose \in ProsesOf(request) : Said(request, prose)
      BY DEF Said, Stated, SaysOf
    <2>4. QED BY <2>1, <2>2, <2>3
  <1>4. ToSet(<<>>) \subseteq PlansOf(request) /\ Said(request, PlainProse)
    BY PlainSaysNothing DEF ToSet
  <1>5. \/ /\ TrustedAnswer(answer).plans = answer.plans
           /\ TrustedAnswer(answer).prose = answer.prose
           /\ TrustedAnswer(answer).left = answer.left
        \/ /\ TrustedAnswer(answer).plans = <<>>
           /\ TrustedAnswer(answer).prose = PlainProse /\ TrustedAnswer(answer).left = PlainProse
    BY DEF TrustedAnswer
  <1>6. QED BY <1>2, <1>3, <1>4, <1>5 DEF Answers

LEMMA GeneratedPlaces == TurnInv /\ PlacesInv /\ Generate => PlacesInv'
  <1> SUFFICES ASSUME TurnInv, PlacesInv, Generate PROVE PlacesInv'
    OBVIOUS
  <1>1. request \in RequestType /\ Reads(request) /\ request' = request
    BY DEF TurnInv, TypesInv, PlacesInv, Generate
  <1>2. PICK answer \in request.answers :
            proposals' = IF request.writeback THEN Apply(request, TrustedAnswer(answer)) ELSE <<>>
    BY DEF Generate
  <1>3. PICK shown : shown = TrustedAnswer(answer)
    OBVIOUS
  <1>4. Answers(request, shown)
    BY <1>1, <1>3, TrustedAnswers
  <1>5. PICK made : made = Apply(request, shown)
    OBVIOUS
  <1>6. \A k \in DOMAIN made : Aims(request, made[k])
    BY <1>1, <1>4, <1>5, ProposalsAim
  <1>7. proposals' = made \/ proposals' = <<>>
    BY <1>2, <1>3, <1>5
  <1>8. \A p \in Made' : Aims(request, p)
    BY <1>6, <1>7 DEF Made
  <1>9. QED BY <1>1, <1>8 DEF PlacesInv

LEMMA PlacesOK == TurnInv /\ PlacesInv /\ [Next]_vars => PlacesInv'
  <1> SUFFICES ASSUME TurnInv, PlacesInv, [Next]_vars PROVE PlacesInv'
    OBVIOUS
  <1>1. request \in RequestType /\ Reads(request)
    BY DEF TurnInv, TypesInv, PlacesInv
  <1>2. ASSUME phase # "done", proposals' = proposals, Reads(request') PROVE PlacesInv'
    <2>1. proposals' = <<>>
      BY <1>2 DEF TurnInv, OutcomeInv
    <2>2. Made' = {}
      BY <2>1 DEF Made
    <2>3. QED BY <1>2, <2>2 DEF PlacesInv
  <1>3. CASE TakeLinks
    <2>1. Reads(request')
      BY <1>1, <1>3, SettledReads DEF TakeLinks
    <2>2. QED BY <1>2, <1>3, <2>1 DEF TakeLinks
  <1>4. CASE PlanSearch
    <2>1. request' = request \/ Settle(<<>>, <<>>)
      BY <1>4 DEF PlanSearch
    <2>2. Reads(request')
      BY <1>1, <2>1, SettledReads
    <2>3. QED BY <1>2, <1>4, <2>2 DEF PlanSearch
  <1>5. CASE SearchQuery
    <2>1. \/ request' = request
          \/ \E refs : Settle(refs, <<>>)
          \/ \E refs : Settle(refs, StatusResults)
      BY <1>5 DEF SearchQuery
    <2>2. Reads(request')
      BY <1>1, <2>1, SettledReads, StatusIsFailure
    <2>3. QED BY <1>2, <1>5, <2>2 DEF SearchQuery
  <1>6. CASE SearchFails
    <2>1. Reads(request')
      BY <1>1, <1>6, SettledReads, StatusIsFailure DEF SearchFails
    <2>2. QED BY <1>2, <1>6, <2>1 DEF SearchFails
  <1>7. CASE Read
    <2>1. Reads(request')
      BY <1>1, <1>7, ReadReads
    <2>2. QED BY <1>2, <1>7, <2>1 DEF Read
  <1>8. CASE Generate
    BY <1>8, GeneratedPlaces
  <1>9. CASE UNCHANGED vars
    <2>1. request' = request /\ proposals' = proposals
      BY <1>9 DEF vars
    <2>2. Made' = Made
      BY <2>1 DEF Made
    <2>3. QED BY <2>1, <2>2 DEF PlacesInv
  <1>10. QED BY <1>3, <1>4, <1>5, <1>6, <1>7, <1>8, <1>9 DEF Next

(* What was read is what stands behind an address of the request (of a table, its
   records in the order of the view, printed, cut and read back from their lines),
   and every proposal goes where somebody stated, by what was read back, or where
   what was read leaves room.  (_read_bitable_ref, _bitable_records_from_content,
   _bitable_update_plan, _sheet_append_row.) *)
THEOREM PlacesInvariant == Spec => []PlacesInv
  <1>1. Init => PlacesInv
    <2> SUFFICES ASSUME Init PROVE PlacesInv
      OBVIOUS
    <2>1. request.results = <<>>
      BY RequestsAssumption DEF Init
    <2>2. Made = {}
      BY DEF Init, Made
    <2>3. QED BY <2>1, <2>2 DEF PlacesInv, Reads
  <1>2. QED BY <1>1, TurnInvariant, PlacesOK, PTL DEF Spec

HitsOneRecord(p, remote, table, orders, says, plans) ==
    LET numbered == DOMAIN table.records
        rows == {s.row : s \in says} \cup {plan.row : plan \in plans}
    IN  /\ \/ \E s \in says : s.id = p.record
           \/ \E plan \in plans : plan.record = p.record
           \/ \E order \in orders, row \in numbered :
                 /\ row \in rows \/ (-1 \in rows /\ row = Len(table.records))
                 /\ GoesUnder(remote, order, row, p.record)
           \/ \E order \in orders, s \in says, row \in numbered :
                 /\ s.pair # NoPair
                 /\ GoesUnder(remote, order, row, p.record)
                 /\ \E key \in FieldTitles : /\ IsAsked(s.pair, key, p.field)
                                            /\ States(remote, order, row, key, s.pair.value)
                 /\ ReadBackUnchanged(remote, order, table) =>
                       /\ p.record = order[row].id
                       /\ {row} = {i \in numbered : HoldsValue(order[i], s.pair, p.field,
                                                              FieldNames(table))}
        /\ p.field \in FieldNames(table) \cup {plan.field : plan \in plans}

(* No proposal takes the place of what nobody meant: an update goes to one record,
   told by its id, by its row in the view of the link or by what the lines of the
   records state (while they are read back unchanged, by a value no other numbered
   record holds), and to a field of the table or of a plan; and what is written to a
   sheet without a stated place goes below all the sheet holds, unless not all of it
   was read.
   (_bitable_update_plan, _find_bitable_record, _sheet_append_row.) *)
THEOREM NothingOverwritten == Spec => []NothingElseIsOverwritten
  <1>1. TurnInv /\ PlacesInv => UpdatesHitOneRecord
    <2> SUFFICES ASSUME TurnInv, PlacesInv, NEW p \in Made, p.type = "bitable_update"
                 PROVE
         LET remote == Worlds[request.world][p.ref]
             read == {i \in DOMAIN request.results : request.results[i].ref.id = p.ref}
         IN  HitsOneRecord(p, remote, TableOf(request, [NoRef EXCEPT !.id = p.ref]),
                           {RecordsOf(remote, request.results[i].ref) : i \in read},
                           {request.text.about} \cup {prose.about : prose \in Proses},
                           UNION {ToSet(a.plans) : a \in request.answers})
      BY DEF UpdatesHitOneRecord, HitsOneRecord
    <2> DEFINE ref == FirstWritable(request, "bitable")
               table == TableOf(request, ref)
               remote == Worlds[request.world][p.ref]
               read == {i \in DOMAIN request.results : request.results[i].ref.id = p.ref}
               Order(i) == RecordsOf(remote, request.results[i].ref)
               rows == {s.row : s \in SaysOf(request)}
                       \cup {plan.row : plan \in PlansOf(request)}
               ByRow(order, row) ==
                   /\ row \in rows \/ (-1 \in rows /\ row = Len(table.records))
                   /\ GoesUnder(remote, order, row, p.record)
               ByValue(order, s, row) ==
                   /\ s.pair # NoPair
                   /\ GoesUnder(remote, order, row, p.record)
                   /\ \E key \in FieldTitles :
                         /\ IsAsked(s.pair, key, p.field)
                         /\ States(remote, order, row, key, s.pair.value)
                   /\ ReadBackUnchanged(remote, order, table) =>
                         /\ p.record = order[row].id
                         /\ {row} = {i \in DOMAIN table.records :
                                       HoldsValue(order[i], s.pair, p.field, FieldNames(table))}
    <2>1. request \in RequestType /\ Reads(request) /\ Picks(request, p)
      BY DEF TurnInv, TypesInv, PlacesInv, Aims
    <2>2. p.ref = ref.id /\ p.record # "none"
      BY <2>1 DEF Picks
    <2>3. TableOf(request, [NoRef EXCEPT !.id = p.ref]) = table
      <3>1. PICK named : named = [NoRef EXCEPT !.id = p.ref]
        OBVIOUS
      <3> HIDE DEF ref
      <3>2. named.id = ref.id
        BY <2>2, <3>1 DEF NoRef
      <3>3. TableOf(request, named) = TableOf(request, ref)
        BY <3>2 DEF TableOf, SelectInSeq
      <3>4. QED BY <3>1, <3>3
    <2>4. ASSUME NEW id, NEW row \in rows, ToldBy(table, id, row, p.record), id # p.record
          PROVE  \E i \in read, n \in DOMAIN table.records : ByRow(Order(i), n)
      <3>1. PICK i \in DOMAIN request.results, n \in DOMAIN table.records :
                /\ request.results[i].ref.id = ref.id
                /\ n = row \/ (row = -1 /\ n = Len(table.records))
                /\ GoesUnder(Worlds[request.world][ref.id],
                             RecordsOf(Worlds[request.world][ref.id], request.results[i].ref),
                             n, p.record)
        BY <2>1, <2>2, <2>4, ToldIsInOrder
      <3>2. i \in read /\ GoesUnder(remote, Order(i), n, p.record)
        BY <2>2, <3>1
      <3>3. n \in rows \/ (-1 \in rows /\ n = Len(table.records))
        BY <3>1
      <3> HIDE DEF read, rows, table, Order, remote
      <3>4. QED BY <3>2, <3>3
    <2>5. ASSUME NEW s \in SaysOf(request), ToldByValue(table, s.pair, p.field, p.record)
          PROVE  \E i \in read, n \in DOMAIN table.records : ByValue(Order(i), s, n)
      <3>1. s \in SaysType /\ s.pair # NoPair
        BY <2>1, <2>5, SaysAreTyped DEF ToldByValue
      <3>2. LET place == Worlds[request.world][ref.id]
            IN  \E i \in DOMAIN request.results, row \in DOMAIN table.records :
                   LET order == RecordsOf(place, request.results[i].ref)
                   IN  /\ request.results[i].ref.id = ref.id
                       /\ GoesUnder(place, order, row, p.record)
                       /\ \E key \in FieldTitles :
                             /\ IsAsked(s.pair, key, p.field)
                             /\ States(place, order, row, key, s.pair.value)
                       /\ ReadBackUnchanged(place, order, table) =>
                             /\ p.record = order[row].id
                             /\ {row} = {k \in DOMAIN table.records :
                                           HoldsValue(order[k], s.pair, p.field,
                                                      FieldNames(table))}
        <4>1. ToldByValue(TableOf(request, ref), s.pair, p.field, p.record) /\ p.record # "none"
          BY <2>2, <2>5
        <4> HIDE DEF ref
        <4>2. InOrderByValue(request, ref, s, p.field, p.record)
          BY <2>1, <3>1, <4>1, ValueIsInOrder
        <4>3. QED BY <4>2 DEF InOrderByValue
      <3>3. remote = Worlds[request.world][ref.id]
        BY <2>2
      <3>4. \A i \in DOMAIN request.results : request.results[i].ref.id = ref.id => i \in read
        BY <2>2
      <3> HIDE DEF read, table, remote, ref
      <3>5. QED BY <3>1, <3>2, <3>3, <3>4
    <2>6. /\ p.field \in FieldNames(table) \cup {plan.field : plan \in PlansOf(request)}
          /\ \/ \E plan \in PlansOf(request) : ToldBy(table, plan.record, plan.row, p.record)
             \/ \E says \in SaysOf(request) :
                   \/ ToldBy(table, says.id, says.row, p.record)
                   \/ ToldByValue(table, says.pair, p.field, p.record)
      BY <2>1 DEF Picks
    <2>7. /\ \A plan \in PlansOf(request) : plan.row \in rows
          /\ \A s \in SaysOf(request) : s.row \in rows
      OBVIOUS
    <2>8. /\ SaysOf(request) = {request.text.about} \cup {prose.about : prose \in Proses}
          /\ PlansOf(request) = UNION {ToSet(a.plans) : a \in request.answers}
      BY DEF SaysOf, ProsesOf, Proses, PlansOf
    <2>9. \/ \E s \in SaysOf(request) : s.id = p.record
          \/ \E plan \in PlansOf(request) : plan.record = p.record
          \/ \E i \in read, n \in DOMAIN table.records : ByRow(Order(i), n)
          \/ \E i \in read, s \in SaysOf(request), n \in DOMAIN table.records :
                ByValue(Order(i), s, n)
      <3> HIDE DEF ByRow, ByValue, table, rows, read, Order, remote
      <3>1. QED BY <2>4, <2>5, <2>6, <2>7
    <2>10. \/ \E s \in SaysOf(request) : s.id = p.record
           \/ \E plan \in PlansOf(request) : plan.record = p.record
           \/ \E order \in {Order(i) : i \in read}, n \in DOMAIN table.records :
                 ByRow(order, n)
           \/ \E order \in {Order(i) : i \in read}, s \in SaysOf(request),
                 n \in DOMAIN table.records : ByValue(order, s, n)
      <3> HIDE DEF ByRow, ByValue, table, read, Order, remote
      <3>1. QED BY <2>9
    <2>11. HitsOneRecord(p, remote, table, {Order(i) : i \in read}, SaysOf(request), PlansOf(request))
      <3> HIDE DEF ref, table, remote, Order, read
      <3>1. QED BY <2>6, <2>10 DEF HitsOneRecord
    <2>12. QED BY <2>3, <2>8, <2>11
  <1>2. TurnInv /\ PlacesInv => AppendedRowIsFree
    <2> SUFFICES ASSUME TurnInv, PlacesInv, NEW p \in Made, p.type = "sheet_write",
                        p.cell \notin Stated(request),
                        NEW i \in DOMAIN request.results,
                        request.results[i].ref.type = "sheet",
                        request.results[i].ref.id = p.ref, ~request.results[i].error
                 PROVE  LET sheet == CHOOSE s \in ToSet(Worlds[request.world][p.ref].sheets) :
                                         s.id = p.sheet
                        IN  \/ \E cell \in sheet.cells : cell[1] > MaxSheetRows
                                                         \/ cell[2] > MaxSheetColumns
                            \/ \A cell \in sheet.cells : cell[1] < p.cell.row
      BY DEF AppendedRowIsFree, Stated, PlansOf, ProsesOf, Proses
    <2>1. request \in RequestType /\ Reads(request) /\ Lands(request, p)
      BY DEF TurnInv, TypesInv, PlacesInv, Aims
    <2>2. QED BY <2>1, LandsFree
  <1>3. QED BY TurnInvariant, PlacesInvariant, <1>1, <1>2, PTL DEF NothingElseIsOverwritten

-------------------------------------------------------------------------------
(* What is cut out of an answer *)

IsCutOut(lines, content) ==
    \/ CleanContent(lines, content)
    \/ CleanContent(lines \o Note, content) /\ IsLeftOpen(lines, Min(content))

LEMMA LeastOfInterval ==
    ASSUME NEW first \in Nat, NEW last \in Nat, first =< last
    PROVE  Min(first..last) = first
  <1> DEFINE S == first..last
  <1>1. S \in SUBSET Nat /\ S # {} /\ first \in S /\ \A x \in S : first =< x
    OBVIOUS
  <1> HIDE DEF S
  <1>2. \E x \in S : \A y \in S : x =< y
    BY <1>1
  <1>3. Min(S) \in S /\ \A y \in S : Min(S) =< y
    BY <1>2 DEF Min
  <1>4. Min(S) \in Nat /\ Min(S) =< first /\ first =< Min(S)
    BY <1>1, <1>3
  <1>5. QED BY <1>4 DEF S

(* What stands clean in the answer with the note under it stands so in the answer,
   unless it is the code of a block that the answer leaves open. *)
LEMMA NoteIsLeftOut ==
    ASSUME NEW lines \in Seq(LineKinds), NEW content, content # {},
           CleanContent(lines \o Note, content)
    PROVE  IsCutOut(lines, content)
  <1> DEFINE n == Len(lines)
             noted == lines \o Note
  <1>1. n \in Nat /\ DOMAIN lines = 1..n
    OBVIOUS
  <1>2. /\ Len(noted) = n + 2 /\ DOMAIN noted = 1..(n + 2)
        /\ \A i \in 1..n : noted[i] = lines[i]
        /\ noted[n + 1] = "blank" /\ noted[n + 2] = "stop"
    <2>1. /\ Note \in Seq(LineKinds) /\ Len(Note) = 2
          /\ Note[1] = "blank" /\ Note[2] = "stop"
      <3>1. "blank" \in LineKinds /\ "stop" \in LineKinds
        BY DEF LineKinds
      <3>2. QED BY <3>1 DEF Note
    <2>2. ASSUME NEW T, NEW s \in Seq(T), NEW note \in Seq(T), Len(note) = 2
          PROVE  /\ Len(s \o note) = Len(s) + 2 /\ DOMAIN (s \o note) = 1..(Len(s) + 2)
                 /\ \A i \in 1..Len(s) : (s \o note)[i] = s[i]
                 /\ (s \o note)[Len(s) + 1] = note[1] /\ (s \o note)[Len(s) + 2] = note[2]
      <3>1. s \o note \in Seq(T) /\ Len(s \o note) = Len(s) + 2 /\ Len(s) \in Nat
        <4>1. s \o note \in Seq(T) /\ Len(s \o note) = Len(s) + Len(note)
          BY ConcatProperties
        <4>2. Len(s) \in Nat
          OBVIOUS
        <4>3. QED BY <2>2, <4>1, <4>2
      <3>2. DOMAIN (s \o note) = 1..(Len(s) + 2)
        BY <3>1
      <3>3. \A i \in 1..(Len(s) + 2) :
                (s \o note)[i] = IF i =< Len(s) THEN s[i] ELSE note[i - Len(s)]
        <4>1. \A i \in 1..(Len(s) + Len(note)) :
                  (s \o note)[i] = IF i =< Len(s) THEN s[i] ELSE note[i - Len(s)]
          BY ConcatProperties
        <4>2. QED BY <2>2, <4>1
      <3>4. \A i \in 1..Len(s) : (s \o note)[i] = s[i]
        BY <3>1, <3>3
      <3>5. (s \o note)[Len(s) + 1] = note[1] /\ (s \o note)[Len(s) + 2] = note[2]
        BY <3>1, <3>3
      <3>6. QED BY <3>1, <3>2, <3>4, <3>5
    <2>3. QED BY <2>1, <2>2
  <1> HIDE DEF n, noted
  <1>3. PICK first, last \in DOMAIN noted :
            /\ content = first..last
            /\ \E label \in 1..first : IsGeneratedLabel(noted[label]) \/ IsValueLabel(noted[label])
            /\ \/ \A i \in content : noted[i] \notin {"blank", "meta", "stop"}
               \/ /\ first > 1 /\ noted[first - 1] = "fence"
                  /\ \A i \in content : noted[i] # "fence"
                  /\ last = Len(noted) \/ noted[last + 1] = "fence"
    BY DEF CleanContent, noted
  <1>4. first \in Nat /\ last \in Nat /\ first =< last
    BY <1>1, <1>2, <1>3
  <1>5. CASE last =< n
    <2>1. first \in DOMAIN lines /\ last \in DOMAIN lines
      BY <1>1, <1>2, <1>4, <1>5
    <2>2. \A i \in content : noted[i] = lines[i]
      BY <1>1, <1>2, <1>3, <1>4, <1>5
    <2>3. \E label \in 1..first : IsGeneratedLabel(lines[label]) \/ IsValueLabel(lines[label])
      <3>1. \A label \in 1..first : noted[label] = lines[label]
        BY <1>1, <1>2, <2>1
      <3>2. QED BY <1>3, <3>1
    <2>4. \/ \A i \in content : lines[i] \notin {"blank", "meta", "stop"}
          \/ /\ first > 1 /\ lines[first - 1] = "fence"
             /\ \A i \in content : lines[i] # "fence"
             /\ last = Len(lines) \/ lines[last + 1] = "fence"
      <3>1. first > 1 => first - 1 \in 1..n
        BY <1>1, <1>4, <1>5
      <3>2. last = n \/ last + 1 \in 1..n
        BY <1>1, <1>4, <1>5
      <3>3. last # Len(noted)
        BY <1>1, <1>2, <1>4, <1>5
      <3>4. QED BY <1>2, <1>3, <2>2, <3>1, <3>2, <3>3 DEF n
    <2>5. CleanContent(lines, content)
      BY <1>3, <2>1, <2>3, <2>4 DEF CleanContent
    <2>6. QED BY <2>5 DEF IsCutOut
  <1>6. CASE last > n
    <2>1. \E i \in content : noted[i] \in {"blank", "stop"}
      <3>1. last = n + 1 \/ last = n + 2
        BY <1>1, <1>2, <1>4, <1>6
      <3>2. last \in content
        BY <1>3, <1>4
      <3>3. QED BY <1>2, <3>1, <3>2
    <2>2. first > 1 /\ noted[first - 1] = "fence" /\ \A i \in content : noted[i] # "fence"
      BY <1>3, <2>1
    <2>3. first - 1 \in 1..n
      <3>1. first - 1 \in 1..(n + 1)
        BY <1>1, <1>2, <1>4, <2>2
      <3>2. first - 1 # n + 1
        BY <1>2, <2>2
      <3>3. QED BY <1>1, <3>1, <3>2
    <2>4. lines[first - 1] = "fence"
      BY <1>2, <2>2, <2>3
    <2>5. \A i \in first..n : lines[i] # "fence"
      <3> SUFFICES ASSUME NEW i \in first..n PROVE lines[i] # "fence"
        OBVIOUS
      <3>1. i \in content /\ i \in 1..n
        BY <1>1, <1>3, <1>4, <1>6
      <3>2. QED BY <1>2, <2>2, <3>1
    <2>6. Min(content) = first
      BY <1>3, <1>4, LeastOfInterval
    <2>7. IsLeftOpen(lines, Min(content))
      BY <2>2, <2>4, <2>5, <2>6 DEF IsLeftOpen, n
    <2>8. QED BY <2>7 DEF IsCutOut
  <1>7. QED BY <1>1, <1>4, <1>5, <1>6

LEMMA NothingToCut ==
    ASSUME NEW content
    PROVE  ~CleanContent(<<>>, content) /\ ~CleanContent(Note, content)
  <1>1. ~CleanContent(<<>>, content)
    <2>1. DOMAIN <<>> = {}
      OBVIOUS
    <2>2. QED BY <2>1 DEF CleanContent
  <1>2. ~CleanContent(Note, content)
    <2>1. DOMAIN Note = 1..2 /\ Note[1] = "blank" /\ Note[2] = "stop"
      BY DEF Note
    <2>2. \A i \in 1..2 : ~IsGeneratedLabel(Note[i]) /\ ~IsValueLabel(Note[i])
      BY <2>1 DEF IsGeneratedLabel, IsValueLabel
    <2>3. \A first \in DOMAIN Note : 1..first \subseteq 1..2
      BY <2>1
    <2>4. QED BY <2>2, <2>3 DEF CleanContent
  <1>3. QED BY <1>1, <1>2

LEMMA CutOfProse ==
    ASSUME NEW prose \in ProseType, NEW content, content.from = "answer",
           NEW lines \in {prose.lines, prose.lines \o Note, <<>>},
           content = OfAnswer(GeneratedContent(lines))
    PROVE  IsCutOut(prose.lines, content.lines) /\ prose # PlainProse
  <1>1. prose.lines \in Seq(LineKinds) /\ lines \in Seq(LineKinds)
    <2>1. "blank" \in LineKinds /\ "stop" \in LineKinds
      BY DEF LineKinds
    <2>2. Note \in Seq(LineKinds)
      BY <2>1 DEF Note
    <2>3. prose.lines \in Seq(LineKinds)
      BY DEF ProseType
    <2>4. prose.lines \o Note \in Seq(LineKinds) /\ <<>> \in Seq(LineKinds)
      BY <2>2, <2>3
    <2>5. QED BY <2>3, <2>4
  <1>2. GeneratedContent(lines) # {} /\ content.lines = GeneratedContent(lines)
    BY DEF OfAnswer, NoContent, Content
  <1>3. CleanContent(lines, content.lines) /\ content.lines # {}
    BY <1>1, <1>2, TextIsClean
  <1>4. lines \in {prose.lines, prose.lines \o Note}
    BY <1>3, NothingToCut
  <1>5. IsCutOut(prose.lines, content.lines)
    <2>1. CASE lines = prose.lines
      BY <1>3, <2>1 DEF IsCutOut
    <2>2. CASE lines = prose.lines \o Note
      BY <1>1, <1>3, <2>2, NoteIsLeftOut
    <2>3. QED BY <1>4, <2>1, <2>2
  <1>6. prose # PlainProse
    <2> SUFFICES ASSUME prose = PlainProse PROVE FALSE
      OBVIOUS
    <2>1. prose.lines = <<>>
      BY DEF PlainProse
    <2>2. <<>> \o Note = Note
      BY DEF Note
    <2>3. lines = <<>> \/ lines = Note
      BY <1>4, <2>1, <2>2
    <2>4. QED BY <1>3, <2>3, NothingToCut
  <1>7. QED BY <1>5, <1>6

LEMMA CutIsCutOut ==
    ASSUME NEW answer, AnswerOK(answer), NEW content, content.from = "answer",
           IsCut(answer, content)
    PROVE  \/ IsCutOut(answer.prose.lines, content.lines) /\ answer.prose # PlainProse
           \/ IsCutOut(answer.left.lines, content.lines) /\ answer.left # PlainProse
  <1>1. PICK prose \in ProseType, left \in ProseType : prose = answer.prose /\ left = answer.left
    BY DEF AnswerOK
  <1>2. RewrittenProse(answer).lines \in {left.lines \o Note, <<>>}
    BY <1>1, RewrittenLines
  <1>3. PICK lines \in {answer.prose.lines, RewrittenProse(answer).lines} :
            content = OfAnswer(GeneratedContent(lines))
    BY DEF IsCut
  <1>4. CASE lines = prose.lines
    BY <1>1, <1>3, <1>4, CutOfProse
  <1>5. CASE lines \in {left.lines \o Note, <<>>}
    BY <1>1, <1>3, <1>5, CutOfProse
  <1>6. QED BY <1>1, <1>2, <1>3, <1>4, <1>5

(* A text that is taken from an answer is one clean block of that answer: it stands
   in one piece below a label, with no gap and no instruction in it unless it is
   code, and what the assistant adds to the answer gets into it only behind a code
   block the answer left open (_model_generated_writeback_content, apply). *)
THEOREM AnswersAreCutOut == Spec => []AnswerIsCutOut
  <1>1. Init => AnswerIsCutOut
    BY DEF Init, AnswerIsCutOut, Made
  <1>2. TurnInv /\ AnswerIsCutOut /\ [Next]_vars => AnswerIsCutOut'
    <2> SUFFICES ASSUME TurnInv, AnswerIsCutOut, [Next]_vars PROVE AnswerIsCutOut'
      OBVIOUS
    <2>1. ASSUME phase # "done", proposals' = proposals PROVE AnswerIsCutOut'
      <3>1. proposals' = <<>>
        BY <2>1 DEF TurnInv, OutcomeInv
      <3>2. Made' = {}
        BY <3>1 DEF Made
      <3>3. QED BY <3>2 DEF AnswerIsCutOut
    <2>2. CASE TakeLinks \/ PlanSearch \/ SearchQuery \/ SearchFails \/ Read
      <3>1. phase # "done" /\ proposals' = proposals
        BY <2>2 DEF TakeLinks, PlanSearch, SearchQuery, SearchFails, Read
      <3>2. QED BY <2>1, <3>1
    <2>3. CASE Generate
      <3>1. request \in RequestType /\ request' = request
        BY <2>3 DEF TurnInv, TypesInv, Generate
      <3>2. PICK answer \in request.answers :
                proposals' = IF request.writeback THEN Apply(request, TrustedAnswer(answer))
                             ELSE <<>>
        BY <2>3 DEF Generate
      <3>3. PICK shown : shown = TrustedAnswer(answer)
        OBVIOUS
      <3>4. /\ AnswerOK(shown)
            /\ \/ shown.prose = answer.prose /\ shown.left = answer.left
               \/ shown.prose = PlainProse /\ shown.left = PlainProse
        <4>1. answer \in AnswerType
          BY <3>1 DEF RequestType
        <4>2. QED BY <3>3, <4>1, AnswersAreTrusted DEF TrustedAnswer
      <3>5. PICK made : made = Apply(request, shown)
        OBVIOUS
      <3>6. \A k \in DOMAIN made : IsCut(shown, made[k].content)
        BY <3>1, <3>4, <3>5, ProposalsAreCut
      <3>7. \A p \in Made' : IsCut(shown, p.content)
        BY <3>2, <3>3, <3>5, <3>6 DEF Made
      <3>8. \A p \in Made' : p.content.from = "answer" =>
                \/ IsCutOut(answer.prose.lines, p.content.lines)
                \/ IsCutOut(answer.left.lines, p.content.lines)
        BY <3>4, <3>7, CutIsCutOut
      <3>9. answer.prose \in Proses /\ answer.left \in Proses /\ Proses' = Proses
        BY <3>1 DEF Proses
      <3>10. \A p \in Made' : p.content.from = "answer" =>
                 \E prose \in Proses : IsCutOut(prose.lines, p.content.lines)
        BY <3>8, <3>9
      <3>11. QED BY <3>9, <3>10 DEF AnswerIsCutOut, IsCutOut
    <2>4. CASE UNCHANGED vars
      <3>1. request' = request /\ proposals' = proposals
        BY <2>4 DEF vars
      <3>2. Proses' = Proses /\ Made' = Made
        BY <3>1 DEF Proses, Made
      <3>3. QED BY <3>2 DEF AnswerIsCutOut
    <2>5. QED BY <2>2, <2>3, <2>4 DEF Next
  <1>3. QED BY <1>1, <1>2, TurnInvariant, PTL DEF Spec

-------------------------------------------------------------------------------
(* The cell the user named *)

LEMMA TypeAndCell ==
    ASSUME NEW p, Shaped(p), NEW value
    PROVE  /\ Shaped([p EXCEPT !.cell = value]) /\ [p EXCEPT !.cell = value].cell = value
           /\ Shaped([p EXCEPT !.type = value]) /\ [p EXCEPT !.type = value].type = value
           /\ Shaped([p EXCEPT !.record = value]) /\ [p EXCEPT !.record = value].type = p.type
           /\ [p EXCEPT !.shown = value].type = p.type
           /\ [p EXCEPT !.shown = value].cell = p.cell
           /\ Previewed(p).type = p.type /\ Previewed(p).cell = p.cell
  <1>1. PICK type, ref, sheet, start, cell, record, field, content, preview, shown :
            p = [type |-> type, ref |-> ref, sheet |-> sheet, start |-> start, cell |-> cell,
                 record |-> record, field |-> field, content |-> content,
                 preview |-> preview, shown |-> shown]
    BY DEF Shaped
  <1>2. /\ Shaped([p EXCEPT !.cell = value]) /\ Shaped([p EXCEPT !.type = value])
        /\ Shaped([p EXCEPT !.record = value])
    BY GoesOn
  <1>3. /\ [p EXCEPT !.cell = value].cell = value /\ [p EXCEPT !.type = value].type = value
        /\ [p EXCEPT !.record = value].type = p.type
        /\ [p EXCEPT !.shown = value].type = p.type /\ [p EXCEPT !.shown = value].cell = p.cell
    BY <1>1
  <1>4. Previewed(p).type = p.type /\ Previewed(p).cell = p.cell
    <2>1. Goes(Previewed(p)) = Goes(p)
      BY PreviewGoes
    <2>2. PICK q : q = Previewed(p)
      OBVIOUS
    <2>3. Goes(q) = Goes(p)
      BY <2>1, <2>2
    <2>4. QED BY <2>2, <2>3 DEF Goes
  <1>5. QED BY <1>2, <1>3, <1>4

LEMMA SheetIsCorrected ==
    ASSUME NEW r, NEW p, Shaped(p), NEW prose, NEW q, Normalize(r, p, prose) = <<q>>,
           q.type = "sheet_write", SheetRangeFromText(r.text.place) # NoCell
    PROVE  q.cell = SheetRangeFromText(r.text.place)
  <1> DEFINE c == NormalizeContent(r, p, prose)
             cell == SheetRangeFromText(r.text.place)
             ref == FirstWritable(r, "bitable")
  <1>1. Shaped(c)
    BY GoesOn, PreviewGoes DEF NormalizeContent, WithContent
  <1>2. NormalizeTarget(r, c, prose) = <<q>>
    BY DEF Normalize
  <1> HIDE DEF c
  <1>3. CASE c.type = "sheet_write"
    <2>1. q = NormalizeSheetTarget(r, c, prose)
      BY <1>2, <1>3 DEF NormalizeTarget
    <2>2. q = IF cell = c.cell THEN c ELSE Previewed([c EXCEPT !.cell = cell])
      BY <2>1 DEF NormalizeSheetTarget, SheetWriteTarget, CellOr, WithCell
    <2> HIDE DEF cell
    <2>3. Shaped([c EXCEPT !.cell = cell]) /\ [c EXCEPT !.cell = cell].cell = cell
      BY <1>1, TypeAndCell
    <2>4. Previewed([c EXCEPT !.cell = cell]).cell = cell
      BY <2>3, TypeAndCell
    <2>5. QED BY <2>2, <2>4 DEF cell
  <1>4. CASE c.type # "sheet_write"
    <2>1. \/ q = c
          \/ q = Previewed([c EXCEPT !.start = TRUE])
          \/ q = Previewed([c EXCEPT !.type = "bitable_create", !.record = "none"])
          \/ \E update : q = UpdateOf(ref, c.content, update)
      <3>1. \/ NormalizeDocTarget(r, c) = <<q>>
            \/ q = c
            \/ q = NormalizeBitableTarget(r, c, prose, ref)
        BY <1>2, <1>4 DEF NormalizeTarget
      <3>2. NormalizeDocTarget(r, c) = <<q>> => q = c \/ q = Previewed([c EXCEPT !.start = TRUE])
        BY DEF NormalizeDocTarget
      <3> DEFINE update == BitableUpdatePlan(r.text.about, prose.about, TableOf(r, ref))
                 target == NormalizeBitableTarget(r, c, prose, ref)
      <3> HIDE DEF ref, update
      <3>3. \/ target = c
            \/ target = Previewed([c EXCEPT !.type = "bitable_create", !.record = "none"])
            \/ target = UpdateOf(ref, c.content, update)
        BY DEF NormalizeBitableTarget, Created, Updated, update
      <3>4. QED BY <3>1, <3>2, <3>3
    <2>2. Previewed([c EXCEPT !.start = TRUE]).type = c.type
      <3>1. Shaped([c EXCEPT !.start = TRUE]) /\ Goes([c EXCEPT !.start = TRUE]) = Goes(c)
        BY <1>1, GoesOn
      <3>2. Goes(Previewed([c EXCEPT !.start = TRUE])) = Goes(c)
        BY <3>1, PreviewGoes
      <3>3. QED BY <3>2 DEF Goes
    <2>3. Previewed([c EXCEPT !.type = "bitable_create", !.record = "none"]).type
              = "bitable_create"
      <3> DEFINE d == [c EXCEPT !.type = "bitable_create"]
                 e == [c EXCEPT !.type = "bitable_create", !.record = "none"]
      <3>1. e = [d EXCEPT !.record = "none"]
        OBVIOUS
      <3>2. Shaped(d) /\ d.type = "bitable_create"
        BY <1>1, TypeAndCell
      <3> HIDE DEF d, e
      <3>3. Shaped(e) /\ e.type = "bitable_create"
        BY <3>1, <3>2, TypeAndCell
      <3>4. Previewed(e).type = "bitable_create"
        BY <3>3, TypeAndCell
      <3>5. QED BY <3>4 DEF e
    <2>4. ASSUME NEW update PROVE UpdateOf(ref, c.content, update).type = "bitable_update"
      <3> DEFINE d == Proposal("bitable_update", ref, c.content)
                 e == [d EXCEPT !.record = update.record, !.field = update.field]
      <3>1. Shaped(d) /\ d.type = "bitable_update"
        BY ProposalGoes DEF Goes
      <3>2. UpdateOf(ref, c.content, update) = Previewed(e)
        BY DEF UpdateOf
      <3> HIDE DEF d
      <3>3. Shaped(e) /\ e.type = "bitable_update"
        <4>1. PICK record, field : record = update.record /\ field = update.field
          OBVIOUS
        <4>2. /\ Shaped([d EXCEPT !.record = record, !.field = field])
              /\ Goes([d EXCEPT !.record = record, !.field = field]) =
                    <<d.type, d.ref, d.sheet, d.cell, record, field>>
          BY <3>1, UpdateGoes
        <4>3. Goes(e) = <<d.type, d.ref, d.sheet, d.cell, record, field>> /\ Shaped(e)
          BY <4>1, <4>2
        <4> HIDE DEF e
        <4>4. QED BY <3>1, <4>3 DEF Goes
      <3> HIDE DEF e
      <3>4. QED BY <3>2, <3>3, TypeAndCell
    <2>5. QED BY <1>4, <2>1, <2>2, <2>3, <2>4
  <1>5. QED BY <1>3, <1>4

(* The cell that the code finds in the message. *)
NamedCellIsWritten ==
    \A p \in Made : /\ p.type = "sheet_write"
                    /\ SheetRangeFromText(request.text.place) # NoCell
                    => p.cell = SheetRangeFromText(request.text.place)

(* A cell that is found in the message is the cell every write to a sheet goes to
   (_normalize_sheet_write_target). *)
LEMMA NamedCellsAreWritten == Spec => []NamedCellIsWritten
  <1>1. Init => NamedCellIsWritten
    BY DEF Init, NamedCellIsWritten, Made
  <1>2. TurnInv /\ NamedCellIsWritten /\ [Next]_vars => NamedCellIsWritten'
    <2> SUFFICES ASSUME TurnInv, NamedCellIsWritten, [Next]_vars PROVE NamedCellIsWritten'
      OBVIOUS
    <2>1. CASE TakeLinks \/ PlanSearch \/ SearchQuery \/ SearchFails \/ Read
      <3>1. phase # "done" /\ proposals' = proposals
        BY <2>1 DEF TakeLinks, PlanSearch, SearchQuery, SearchFails, Read
      <3>2. proposals' = <<>>
        BY <3>1 DEF TurnInv, OutcomeInv
      <3>3. Made' = {}
        BY <3>2 DEF Made
      <3>4. QED BY <3>3 DEF NamedCellIsWritten
    <2>2. CASE Generate
      <3>1. request \in RequestType /\ request' = request
        BY <2>2 DEF TurnInv, TypesInv, Generate
      <3>2. PICK answer \in request.answers :
                proposals' = IF request.writeback THEN Apply(request, TrustedAnswer(answer))
                             ELSE <<>>
        BY <2>2 DEF Generate
      <3>3. PICK shown : shown = TrustedAnswer(answer)
        OBVIOUS
      <3>4. AnswerOK(shown)
        <4>1. answer \in AnswerType
          BY <3>1 DEF RequestType
        <4>2. QED BY <3>3, <4>1, AnswersAreTrusted
      <3>5. PICK made : made = Apply(request, shown)
        OBVIOUS
      <3>6. ASSUME SheetRangeFromText(request.text.place) # NoCell,
                   NEW k \in DOMAIN made, made[k].type = "sheet_write"
            PROVE  made[k].cell = SheetRangeFromText(request.text.place)
        <4>1. PICK p, q : Corrected(request, shown, p, q) /\ made[k] = DisplayTarget(request, q)
          BY <3>1, <3>4, <3>5, AppliedOnes
        <4>2. Shaped(p) /\ Shaped(q)
          BY <4>1, SoundIsShaped DEF Corrected
        <4>3. [q EXCEPT !.shown = q.ref].type = q.type /\ [q EXCEPT !.shown = q.ref].cell = q.cell
          BY <4>2, TypeAndCell
        <4>4. made[k].type = q.type /\ made[k].cell = q.cell
          BY <4>1, <4>3 DEF DisplayTarget
        <4>5. Normalize(request, p, RewrittenProse(shown)) = <<q>>
          BY <4>1 DEF Corrected
        <4>6. QED BY <3>6, <4>2, <4>4, <4>5, SheetIsCorrected
      <3>7. proposals' = made \/ proposals' = <<>>
        BY <3>2, <3>3, <3>5
      <3>8. QED BY <3>1, <3>6, <3>7 DEF NamedCellIsWritten, Made
    <2>3. CASE UNCHANGED vars
      BY <2>3 DEF vars, NamedCellIsWritten, Made
    <2>4. QED BY <2>1, <2>2, <2>3 DEF Next
  <1>3. QED BY <1>1, <1>2, TurnInvariant, PTL DEF Spec

-------------------------------------------------------------------------------
(* Folds, step by step.  A step is a function of what was reached and of a place. *)

(* There is a function that folds every set of places from its greatest one. *)
FoldsPlaces(f, G, A, base, k) ==
    /\ f \in [SUBSET (1..k) -> A]
    /\ \A s \in SUBSET (1..k) :
          f[s] = IF s = {} THEN base ELSE G[<<f[s \ {Max(s)}], Max(s)>>]

LEMMA FoldsAreDefined ==
    ASSUME NEW A, NEW base \in A, NEW n \in Nat, NEW G \in [A \X (1..n) -> A]
    PROVE  \E f : FoldsPlaces(f, G, A, base, n)
  <1> DEFINE Folds(k, f) == FoldsPlaces(f, G, A, base, k)
             Bad == {k \in 0..n : ~\E f : Folds(k, f)}
  <1>1. SUFFICES ASSUME Bad # {} PROVE FALSE
    <2>1. n \in 0..n
      OBVIOUS
    <2>2. Bad = {} => \E f : Folds(n, f)
      <3> HIDE DEF Folds
      <3>1. QED BY <2>1
    <2>3. QED BY <2>2
  <1>2. PICK k \in Bad : \A m \in Bad : k =< m
    <2>1. Bad \in SUBSET Nat
      OBVIOUS
    <2> HIDE DEF Bad
    <2>2. QED BY <1>1, <2>1, LeastOf
  <1>3. k \in 0..n /\ ~\E f : Folds(k, f)
    OBVIOUS
  <1>4. k # 0
    <2>1. Folds(0, [s \in SUBSET (1..0) |-> base])
      BY DEF FoldsPlaces
    <2>2. QED BY <1>3, <2>1
  <1>5. k - 1 \in 0..n /\ k \in 1..n
    BY <1>3, <1>4
  <1>6. k - 1 \notin Bad
    <2>1. ~(k =< k - 1)
      BY <1>5
    <2> HIDE DEF Bad
    <2>2. QED BY <1>2, <2>1
  <1>7. PICK f : Folds(k - 1, f)
    <2> HIDE DEF Folds
    <2>1. QED BY <1>5, <1>6
  <1> DEFINE g == [s \in SUBSET (1..k) |-> IF k \in s THEN G[<<f[s \ {k}], k>>] ELSE f[s]]
  <1>8. \A s \in SUBSET (1..k) : /\ s \ {k} \in SUBSET (1..k - 1)
                                 /\ k \notin s => s \in SUBSET (1..k - 1)
    BY <1>5
  <1>9. g \in [SUBSET (1..k) -> A]
    BY <1>5, <1>7, <1>8 DEF FoldsPlaces
  <1>10. ASSUME NEW s \in SUBSET (1..k)
         PROVE  g[s] = IF s = {} THEN base ELSE G[<<g[s \ {Max(s)}], Max(s)>>]
    <2>1. CASE k \in s
      <3>1. Max(s) = k
        <4>1. \A y \in s : k >= y
          BY <1>5
        <4>2. \A x \in s : (\A y \in s : x >= y) => x = k
          BY <1>5, <2>1
        <4>3. QED BY <2>1, <4>1, <4>2 DEF Max
      <3>2. g[s \ {k}] = f[s \ {k}]
        BY <1>8
      <3>3. g[s] = G[<<f[s \ {k}], k>>]
        BY <2>1
      <3>4. s # {}
        BY <2>1
      <3> HIDE DEF g
      <3>5. QED BY <3>1, <3>2, <3>3, <3>4
    <2>2. CASE k \notin s
      <3>1. g[s] = f[s] /\ s \in SUBSET (1..k - 1)
        BY <1>8, <2>2
      <3>2. g[s \ {Max(s)}] = f[s \ {Max(s)}]
        BY <1>8, <2>2
      <3>3. f[s] = IF s = {} THEN base ELSE G[<<f[s \ {Max(s)}], Max(s)>>]
        BY <1>7, <3>1 DEF FoldsPlaces
      <3> HIDE DEF g
      <3>4. QED BY <3>1, <3>2, <3>3
    <2>3. QED BY <2>1, <2>2
  <1>11. Folds(k, g)
    BY <1>9, <1>10 DEF FoldsPlaces
  <1> HIDE DEF Folds, g
  <1>12. QED BY <1>3, <1>11

(* From a, the steps of s lead to b. *)
Leads(G, a, s, b) ==
    \E run : /\ run[0] = a /\ run[Len(s)] = b
             /\ \A i \in 1..Len(s) : run[i] = G[<<run[i - 1], s[i]>>]

LEMMA LeadsNowhere == ASSUME NEW G, NEW a PROVE Leads(G, a, <<>>, a)
  <1>1. PICK run : run = [i \in {0} |-> a]
    OBVIOUS
  <1>2. run[0] = a
    BY <1>1
  <1>3. Len(<<>>) = 0 /\ ~\E i \in 1..0 : TRUE
    OBVIOUS
  <1>4. \A i \in 1..Len(<<>>) : run[i] = G[<<run[i - 1], <<>>[i]>>]
    BY <1>3
  <1>5. QED BY <1>2, <1>3, <1>4 DEF Leads

LEMMA LeadsOne == ASSUME NEW G, NEW a, NEW c PROVE Leads(G, a, <<c>>, G[<<a, c>>])
  <1> DEFINE run == [i \in 0..1 |-> IF i = 0 THEN a ELSE G[<<a, c>>]]
  <1>1. run[0] = a /\ run[1] = G[<<a, c>>]
    OBVIOUS
  <1>2. Len(<<c>>) = 1 /\ <<c>>[1] = c
    OBVIOUS
  <1>3. ASSUME NEW i \in 1..1 PROVE run[i] = G[<<run[i - 1], <<c>>[i]>>]
    <2>1. i = 1 /\ i - 1 = 0
      OBVIOUS
    <2> HIDE DEF run
    <2>2. QED BY <1>1, <1>2, <2>1
  <1> HIDE DEF run
  <1>4. QED BY <1>1, <1>2, <1>3 DEF Leads

LEMMA LeadsOn ==
    ASSUME NEW T, NEW s \in Seq(T), NEW t \in Seq(T), NEW G, NEW a, NEW b, NEW c,
           Leads(G, a, s, b), Leads(G, b, t, c)
    PROVE  Leads(G, a, s \o t, c)
  <1>1. PICK run : /\ run[0] = a /\ run[Len(s)] = b
                   /\ \A i \in 1..Len(s) : run[i] = G[<<run[i - 1], s[i]>>]
    BY DEF Leads
  <1>2. PICK on : /\ on[0] = b /\ on[Len(t)] = c
                  /\ \A i \in 1..Len(t) : on[i] = G[<<on[i - 1], t[i]>>]
    BY DEF Leads
  <1>3. /\ Len(s) \in Nat /\ Len(t) \in Nat /\ Len(s \o t) = Len(s) + Len(t)
        /\ \A i \in 1..Len(s) : (s \o t)[i] = s[i]
        /\ \A i \in 1..Len(t) : (s \o t)[Len(s) + i] = t[i]
    <2>1. Len(s) \in Nat /\ Len(t) \in Nat /\ Len(s \o t) = Len(s) + Len(t)
      OBVIOUS
    <2>2. \A i \in 1..Len(s) : (s \o t)[i] = s[i]
      OBVIOUS
    <2>3. ASSUME NEW i \in 1..Len(t) PROVE (s \o t)[Len(s) + i] = t[i]
      <3>1. Len(s) + i \in 1..Len(s) + Len(t) /\ ~(Len(s) + i =< Len(s))
            /\ Len(s) + i - Len(s) = i
        BY <2>1
      <3>2. QED BY <3>1
    <2>4. QED BY <2>1, <2>2, <2>3
  <1> DEFINE all == [i \in 0..Len(s \o t) |-> IF i =< Len(s) THEN run[i] ELSE on[i - Len(s)]]
  <1>4. /\ \A i \in 0..Len(s) : all[i] = run[i]
        /\ \A i \in 0..Len(t) : all[Len(s) + i] = on[i]
    <2>1. \A i \in 0..Len(s) : all[i] = run[i]
      BY <1>3
    <2>2. ASSUME NEW i \in 0..Len(t) PROVE all[Len(s) + i] = on[i]
      <3>1. CASE i = 0
        BY <1>1, <1>2, <1>3, <3>1
      <3>2. CASE i # 0
        <4>1. Len(s) + i \in 0..Len(s \o t) /\ ~(Len(s) + i =< Len(s))
              /\ Len(s) + i - Len(s) = i
          BY <1>3, <3>2
        <4>2. QED BY <4>1
      <3>3. QED BY <3>1, <3>2
    <2>3. QED BY <2>1, <2>2
  <1>5. all[0] = a /\ all[Len(s \o t)] = c
    <2>1. 0 \in 0..Len(s) /\ Len(t) \in 0..Len(t)
      BY <1>3
    <2> HIDE DEF all
    <2>2. QED BY <1>1, <1>2, <1>3, <1>4, <2>1
  <1>6. ASSUME NEW i \in 1..Len(s \o t) PROVE all[i] = G[<<all[i - 1], (s \o t)[i]>>]
    <2> HIDE DEF all
    <2>1. CASE i =< Len(s)
      <3>1. i \in 1..Len(s) /\ i \in 0..Len(s) /\ i - 1 \in 0..Len(s)
        BY <1>3, <2>1
      <3>2. QED BY <1>1, <1>3, <1>4, <3>1
    <2>2. CASE ~(i =< Len(s))
      <3>1. PICK j \in 1..Len(t) : i = Len(s) + j
        <4>1. i - Len(s) \in 1..Len(t) /\ i = Len(s) + (i - Len(s))
          BY <1>3, <2>2
        <4>2. QED BY <4>1
      <3>2. j \in 0..Len(t) /\ j - 1 \in 0..Len(t) /\ i - 1 = Len(s) + (j - 1)
        BY <1>3, <3>1
      <3>3. all[i] = on[j] /\ all[i - 1] = on[j - 1]
        BY <1>4, <3>1, <3>2
      <3>4. (s \o t)[i] = t[j]
        BY <1>3, <3>1
      <3>5. QED BY <1>2, <3>3, <3>4
    <2>3. QED BY <2>1, <2>2
  <1> HIDE DEF all
  <1>7. QED BY <1>5, <1>6 DEF Leads

LEMMA LeadsOnce ==
    ASSUME NEW T, NEW s \in Seq(T), NEW G, NEW a, NEW b, NEW c,
           Leads(G, a, s, b), Leads(G, a, s, c)
    PROVE  b = c
  <1>1. PICK run : /\ run[0] = a /\ run[Len(s)] = b
                   /\ \A i \in 1..Len(s) : run[i] = G[<<run[i - 1], s[i]>>]
    BY DEF Leads
  <1>2. PICK on : /\ on[0] = a /\ on[Len(s)] = c
                  /\ \A i \in 1..Len(s) : on[i] = G[<<on[i - 1], s[i]>>]
    BY DEF Leads
  <1> DEFINE Bad == {i \in 0..Len(s) : run[i] # on[i]}
  <1>3. Bad \in SUBSET Nat /\ Len(s) \in Nat
    OBVIOUS
  <1>4. Bad = {} => run[Len(s)] = on[Len(s)]
    BY <1>3
  <1>5. SUFFICES ASSUME Bad # {} PROVE FALSE
    BY <1>1, <1>2, <1>4
  <1>6. PICK k \in Bad : \A m \in Bad : k =< m
    <2> HIDE DEF Bad
    <2>1. QED BY <1>3, <1>5, LeastOf
  <1>7. k \in 0..Len(s) /\ run[k] # on[k]
    OBVIOUS
  <1>8. k \in 1..Len(s) /\ k - 1 \in 0..Len(s)
    BY <1>1, <1>2, <1>3, <1>7
  <1>9. run[k - 1] = on[k - 1]
    BY <1>3, <1>6, <1>8
  <1>10. QED BY <1>1, <1>2, <1>7, <1>8, <1>9

(* Folding a sequence from its first place is folding its places from the greatest. *)
FoldsOver(f, G, base, s) ==
    \A at \in SUBSET DOMAIN s :
       f[at] = IF at = {} THEN base ELSE G[<<f[at \ {Max(at)}], s[Max(at)]>>]

LEMMA MaxOfInterval ==
    ASSUME NEW n \in Nat, NEW T \in SUBSET (1..n), T # {}
    PROVE  Max(T) \in T
  <1> DEFINE U == {n - i : i \in T}
  <1>1. U \in SUBSET Nat /\ U # {}
    <2>1. \A i \in T : i \in 1..n /\ n - i \in Nat
      OBVIOUS
    <2>2. QED BY <2>1
  <1>2. PICK u \in U : \A v \in U : u =< v
    BY <1>1, LeastOf
  <1>3. PICK i \in T : u = n - i
    BY <1>2
  <1>4. ASSUME NEW j \in T PROVE i >= j
    <2>1. u =< n - j
      BY <1>2 DEF U
    <2>2. QED BY <1>3, <2>1
  <1>5. QED BY <1>4 DEF Max

LEMMA MaxOfPlaces ==
    ASSUME NEW T, NEW s \in Seq(T), NEW at \in SUBSET DOMAIN s, at # {}
    PROVE  Max(at) \in at /\ s[Max(at)] \in T
  <1>1. PICK n \in Nat : n = Len(s) /\ DOMAIN s = 1..n
    OBVIOUS
  <1>2. Max(at) \in at
    BY <1>1, MaxOfInterval
  <1>3. QED BY <1>2

LEMMA FoldOverExists ==
    ASSUME NEW A, NEW base \in A, NEW T, NEW s \in Seq(T), NEW G \in [A \X T -> A]
    PROVE  \E f \in [SUBSET DOMAIN s -> A] : FoldsOver(f, G, base, s)
  <1> DEFINE H == [q \in A \X (1..Len(s)) |-> G[<<q[1], s[q[2]]>>]]
  <1>1. Len(s) \in Nat /\ DOMAIN s = 1..Len(s) /\ \A i \in 1..Len(s) : s[i] \in T
    OBVIOUS
  <1>2. H \in [A \X (1..Len(s)) -> A]
    BY <1>1
  <1>3. \A v \in A, i \in 1..Len(s) : H[<<v, i>>] = G[<<v, s[i]>>]
    OBVIOUS
  <1> HIDE DEF H
  <1>4. PICK f \in [SUBSET (1..Len(s)) -> A] :
            \A at \in SUBSET (1..Len(s)) :
               f[at] = IF at = {} THEN base ELSE H[<<f[at \ {Max(at)}], Max(at)>>]
    <2>1. PICK n \in Nat : n = Len(s)
      BY <1>1
    <2>2. H \in [A \X (1..n) -> A]
      BY <1>2, <2>1
    <2>3. PICK f : FoldsPlaces(f, H, A, base, n)
      BY <2>2, FoldsAreDefined
    <2>4. QED BY <2>1, <2>3 DEF FoldsPlaces
  <1>5. ASSUME NEW at \in SUBSET DOMAIN s
        PROVE  f[at] = IF at = {} THEN base ELSE G[<<f[at \ {Max(at)}], s[Max(at)]>>]
    <2>1. CASE at # {}
      <3>1. Max(at) \in 1..Len(s)
        BY <1>1, <2>1, MaxOfInterval
      <3>2. f[at \ {Max(at)}] \in A
        BY <1>1, <1>4
      <3>3. QED BY <1>1, <1>3, <1>4, <2>1, <3>1, <3>2
    <2>2. QED BY <1>1, <1>4, <2>1
  <1>6. QED BY <1>1, <1>4, <1>5 DEF FoldsOver

LEMMA FoldLeads ==
    ASSUME NEW base, NEW T, NEW s \in Seq(T), NEW G, NEW f, FoldsOver(f, G, base, s)
    PROVE  Leads(G, base, s, f[DOMAIN s])
  <1>1. PICK run : run = [i \in 0..Len(s) |-> f[1..i]]
    OBVIOUS
  <1>2. Len(s) \in Nat /\ DOMAIN s = 1..Len(s)
    OBVIOUS
  <1>3. run[0] = base
    <2>1. 1..0 = {} /\ run[0] = f[1..0]
      BY <1>1, <1>2
    <2>2. QED BY <2>1 DEF FoldsOver
  <1>4. run[Len(s)] = f[DOMAIN s]
    BY <1>1, <1>2
  <1>5. ASSUME NEW i \in 1..Len(s) PROVE run[i] = G[<<run[i - 1], s[i]>>]
    <2>1. /\ i \in 0..Len(s) /\ i - 1 \in 0..Len(s)
          /\ 1..i \in SUBSET DOMAIN s /\ i \in 1..i /\ (1..i) \ {i} = 1..i - 1
      BY <1>2
    <2>2. Max(1..i) = i
      <3>1. \A x \in 1..i : x =< i /\ (x = i \/ ~(x >= i))
        BY <1>2
      <3>2. QED BY <2>1, <3>1 DEF Max
    <2>3. f[1..i] = G[<<f[(1..i) \ {i}], s[i]>>]
      BY <2>1, <2>2 DEF FoldsOver
    <2>4. QED BY <1>1, <2>1, <2>3
  <1>6. QED BY <1>3, <1>4, <1>5 DEF Leads

(* Two functions that fold alike come to the same. *)
LEMMA FoldsAgree ==
    ASSUME NEW n \in Nat, NEW f, NEW g, f[{}] = g[{}],
           \A i \in 1..n : f[1..i - 1] = g[1..i - 1] => f[1..i] = g[1..i]
    PROVE  f[1..n] = g[1..n]
  <1> DEFINE Bad == {i \in 0..n : f[1..i] # g[1..i]}
  <1>1. Bad = {} => f[1..n] = g[1..n]
    OBVIOUS
  <1>2. SUFFICES ASSUME Bad # {} PROVE FALSE
    BY <1>1
  <1>3. PICK k \in Bad : \A m \in Bad : k =< m
    <2>1. Bad \in SUBSET Nat
      OBVIOUS
    <2> HIDE DEF Bad
    <2>2. QED BY <1>2, <2>1, LeastOf
  <1>4. k \in 0..n /\ f[1..k] # g[1..k]
    OBVIOUS
  <1>5. k # 0
    <2>1. 1..0 = {}
      OBVIOUS
    <2>2. QED BY <1>4, <2>1
  <1>6. k \in 1..n /\ k - 1 \in 0..n /\ ~(k =< k - 1)
    BY <1>4, <1>5
  <1>7. f[1..k - 1] = g[1..k - 1]
    BY <1>3, <1>6
  <1>8. QED BY <1>4, <1>6, <1>7

LEMMA UpToItself ==
    ASSUME NEW i \in Nat \ {0}
    PROVE  1..i # {} /\ Max(1..i) = i /\ (1..i) \ {i} = 1..i - 1
  <1>1. i \in 1..i /\ (1..i) \ {i} = 1..i - 1
    OBVIOUS
  <1>2. \A x \in 1..i : x =< i /\ i >= x /\ (x = i \/ ~(x >= i))
    OBVIOUS
  <1>3. QED BY <1>1, <1>2 DEF Max

-------------------------------------------------------------------------------
(* What a numeral comes to, character by character. *)
Acc == [total : Nat, section : Nat, number : Nat]
Reached(t, sec, n) == [total |-> t, section |-> sec, number |-> n]
ReadStep == [q \in Acc \X Nat |-> ReadCharacter(q[1], q[2])]

LEMMA CharactersRead ==
    ASSUME NEW t \in Nat, NEW sec \in Nat, NEW n \in Nat, NEW c \in Nat
    PROVE  /\ Reached(t, sec, n) \in Acc
           /\ ReadCharacter(Reached(t, sec, n), c) \in Acc
           /\ c < 10 => ReadCharacter(Reached(t, sec, n), c) = Reached(t, sec, c)
           /\ c = 10000 => ReadCharacter(Reached(t, sec, n), c)
                               = Reached(t + (sec + n) * 10000, 0, 0)
           /\ ~(c < 10) /\ c # 10000 =>
                 /\ n = 0 => ReadCharacter(Reached(t, sec, n), c) = Reached(t, sec + c, 0)
                 /\ n # 0 => ReadCharacter(Reached(t, sec, n), c) = Reached(t, sec + c * n, 0)
  <1>1. \A x, y, z \in Nat : Reached(x, y, z) \in Acc
    BY DEF Acc, Reached
  <1>2. CASE c < 10
    <2>1. ReadCharacter(Reached(t, sec, n), c) = Reached(t, sec, c)
      BY <1>2 DEF ReadCharacter, Reached
    <2>2. c # 10000
      BY <1>2
    <2>3. QED BY <1>1, <1>2, <2>1, <2>2
  <1>3. CASE c = 10000
    <2>1. ReadCharacter(Reached(t, sec, n), c) = Reached(t + (sec + n) * 10000, 0, 0)
      BY <1>3 DEF ReadCharacter, Reached
    <2>2. ~(c < 10) /\ t + (sec + n) * 10000 \in Nat
      BY <1>3
    <2>3. QED BY <1>1, <1>3, <2>1, <2>2
  <1>4. CASE ~(c < 10) /\ c # 10000
    <2>1. PICK m \in Nat : m = IF n = 0 THEN 1 ELSE n
      OBVIOUS
    <2>2. PICK u \in Nat : u = c * m
      BY <2>1
    <2>3. ReadCharacter(Reached(t, sec, n), c) = Reached(t, sec + u, 0)
      <3>1. ReadCharacter(Reached(t, sec, n), c)
                = [[Reached(t, sec, n) EXCEPT !.section = @ + u] EXCEPT !.number = 0]
        BY <1>4, <2>1, <2>2 DEF ReadCharacter, Reached
      <3>2. QED BY <3>1 DEF Reached
    <2>4. /\ n = 0 => u = c
          /\ n # 0 => u = c * n
      BY <2>1, <2>2
    <2>5. QED BY <1>1, <1>4, <2>3, <2>4
  <1>5. QED BY <1>2, <1>3, <1>4

LEMMA ReadStepType == ReadStep \in [Acc \X Nat -> Acc]
  <1> SUFFICES ASSUME NEW acc \in Acc, NEW c \in Nat PROVE ReadCharacter(acc, c) \in Acc
    BY DEF ReadStep
  <1>1. /\ acc.total \in Nat /\ acc.section \in Nat /\ acc.number \in Nat
        /\ acc = Reached(acc.total, acc.section, acc.number)
    BY DEF Acc, Reached
  <1>2. PICK t \in Nat, sec \in Nat, n \in Nat : acc = Reached(t, sec, n)
    BY <1>1
  <1>3. QED BY <1>2, CharactersRead

LEMMA NumeralsLead ==
    ASSUME NEW s \in Seq(Nat)
    PROVE  Leads(ReadStep, Reached(0, 0, 0), s,
                 FoldLeft(ReadCharacter, [total |-> 0, section |-> 0, number |-> 0], s))
  <1>1. Reached(0, 0, 0) \in Acc
    BY DEF Acc, Reached
  <1>2. PICK f \in [SUBSET DOMAIN s -> Acc] : FoldsOver(f, ReadStep, Reached(0, 0, 0), s)
    BY <1>1, ReadStepType, FoldOverExists
  <1> DEFINE Is(g) ==
                g = [at \in SUBSET DOMAIN s |->
                        IF at = {} THEN Reached(0, 0, 0)
                        ELSE ReadCharacter(g[at \ {Max(at)}], s[Max(at)])]
  <1>3. Is(f)
    <2>1. ASSUME NEW at \in SUBSET DOMAIN s, at # {}
          PROVE  f[at] = ReadCharacter(f[at \ {Max(at)}], s[Max(at)])
      <3>1. f[at] = ReadStep[<<f[at \ {Max(at)}], s[Max(at)]>>]
        BY <1>2, <2>1 DEF FoldsOver
      <3>2. f[at \ {Max(at)}] \in Acc
        BY <1>2
      <3>3. s[Max(at)] \in Nat
        BY <2>1, MaxOfPlaces
      <3>4. QED BY <3>1, <3>2, <3>3 DEF ReadStep
    <2>2. \A at \in SUBSET DOMAIN s :
             f[at] = IF at = {} THEN Reached(0, 0, 0)
                     ELSE ReadCharacter(f[at \ {Max(at)}], s[Max(at)])
      BY <1>2, <2>1 DEF FoldsOver
    <2>3. QED BY <2>2
  <1>4. FoldLeft(ReadCharacter, [total |-> 0, section |-> 0, number |-> 0], s)
            = (CHOOSE g : Is(g))[DOMAIN s]
    BY DEF FoldLeft, MapThenFoldSet, Reached
  <1>5. PICK g : Is(g) /\ g = CHOOSE h : Is(h)
    <2> HIDE DEF Is
    <2>1. QED BY <1>3
  <1>6. PICK n \in Nat : n = Len(s) /\ DOMAIN s = 1..n
    OBVIOUS
  <1>7. f[{}] = g[{}]
    <2>1. {} \in SUBSET DOMAIN s
      OBVIOUS
    <2>2. QED BY <1>3, <1>5, <2>1
  <1>8. ASSUME NEW i \in 1..n, f[1..i - 1] = g[1..i - 1] PROVE f[1..i] = g[1..i]
    <2>1. 1..i \in SUBSET DOMAIN s /\ i \in Nat \ {0}
      BY <1>6
    <2>2. 1..i # {} /\ Max(1..i) = i /\ (1..i) \ {i} = 1..i - 1
      BY <2>1, UpToItself
    <2>3. /\ f[1..i] = ReadCharacter(f[(1..i) \ {i}], s[i])
          /\ g[1..i] = ReadCharacter(g[(1..i) \ {i}], s[i])
      BY <1>3, <1>5, <2>1, <2>2
    <2>4. QED BY <1>8, <2>2, <2>3
  <1>9. f[1..n] = g[1..n]
    <2>1. \A i \in 1..n : f[1..i - 1] = g[1..i - 1] => f[1..i] = g[1..i]
      BY <1>8
    <2> HIDE DEF Is
    <2>2. QED BY <1>7, <2>1, FoldsAgree
  <1>10. Leads(ReadStep, Reached(0, 0, 0), s, f[DOMAIN s])
    BY <1>2, FoldLeads
  <1> HIDE DEF Is
  <1>11. QED BY <1>4, <1>5, <1>6, <1>9, <1>10

-------------------------------------------------------------------------------
(* What letters come to, letter by letter. *)
ColumnStep == [q \in Nat \X Nat |-> 26 * q[1] + q[2] + 1]

LEMMA ColumnsLead ==
    ASSUME NEW s \in Seq(Nat)
    PROVE  Leads(ColumnStep, 0, s, ColumnOf(s))
  <1>1. ColumnStep \in [Nat \X Nat -> Nat] /\ 0 \in Nat
    BY DEF ColumnStep
  <1>2. PICK f \in [SUBSET DOMAIN s -> Nat] : FoldsOver(f, ColumnStep, 0, s)
    BY <1>1, FoldOverExists
  <1> DEFINE Is(g) ==
                g = [at \in SUBSET DOMAIN s |->
                        IF at = {} THEN 0
                        ELSE 26 * g[at \ {Max(at)}] + s[Max(at)] + 1]
  <1>3. Is(f)
    <2>1. ASSUME NEW at \in SUBSET DOMAIN s, at # {}
          PROVE  f[at] = 26 * f[at \ {Max(at)}] + s[Max(at)] + 1
      <3>1. f[at] = ColumnStep[<<f[at \ {Max(at)}], s[Max(at)]>>]
        BY <1>2, <2>1 DEF FoldsOver
      <3>2. f[at \ {Max(at)}] \in Nat
        BY <1>2
      <3>3. s[Max(at)] \in Nat
        BY <2>1, MaxOfPlaces
      <3>4. QED BY <3>1, <3>2, <3>3 DEF ColumnStep
    <2>2. \A at \in SUBSET DOMAIN s :
             f[at] = IF at = {} THEN 0
                     ELSE 26 * f[at \ {Max(at)}] + s[Max(at)] + 1
      BY <1>2, <2>1 DEF FoldsOver
    <2>3. QED BY <2>2
  <1>4. ColumnOf(s) = (CHOOSE g : Is(g))[DOMAIN s]
    BY DEF ColumnOf, FoldLeft, MapThenFoldSet
  <1>5. PICK g : Is(g) /\ g = CHOOSE h : Is(h)
    <2> HIDE DEF Is
    <2>1. QED BY <1>3
  <1>6. PICK n \in Nat : n = Len(s) /\ DOMAIN s = 1..n
    OBVIOUS
  <1>7. f[{}] = g[{}]
    <2>1. {} \in SUBSET DOMAIN s
      OBVIOUS
    <2>2. QED BY <1>3, <1>5, <2>1
  <1>8. ASSUME NEW i \in 1..n, f[1..i - 1] = g[1..i - 1] PROVE f[1..i] = g[1..i]
    <2>1. 1..i \in SUBSET DOMAIN s /\ i \in Nat \ {0}
      BY <1>6
    <2>2. 1..i # {} /\ Max(1..i) = i /\ (1..i) \ {i} = 1..i - 1
      BY <2>1, UpToItself
    <2>3. /\ f[1..i] = 26 * f[(1..i) \ {i}] + s[i] + 1
          /\ g[1..i] = 26 * g[(1..i) \ {i}] + s[i] + 1
      BY <1>3, <1>5, <2>1, <2>2
    <2>4. QED BY <1>8, <2>2, <2>3
  <1>9. f[1..n] = g[1..n]
    <2>1. \A i \in 1..n : f[1..i - 1] = g[1..i - 1] => f[1..i] = g[1..i]
      BY <1>8
    <2> HIDE DEF Is
    <2>2. QED BY <1>7, <2>1, FoldsAgree
  <1>10. Leads(ColumnStep, 0, s, f[DOMAIN s])
    BY <1>2, FoldLeads
  <1> HIDE DEF Is
  <1>11. QED BY <1>4, <1>5, <1>6, <1>9, <1>10

LEMMA ColumnOfNone == ColumnOf(<<>>) = 0
  <1>1. <<>> \in Seq(Nat)
    OBVIOUS
  <1>2. Leads(ColumnStep, 0, <<>>, ColumnOf(<<>>)) /\ Leads(ColumnStep, 0, <<>>, 0)
    BY <1>1, ColumnsLead, LeadsNowhere
  <1>3. QED BY <1>1, <1>2, LeadsOnce

LEMMA ColumnOfAppend ==
    ASSUME NEW s \in Seq(Nat), NEW d \in Nat, ColumnOf(s) \in Nat
    PROVE  ColumnOf(Append(s, d)) = 26 * ColumnOf(s) + d + 1
  <1> DEFINE v == ColumnStep[<<ColumnOf(s), d>>]
  <1>1. s \o <<d>> \in Seq(Nat) /\ <<d>> \in Seq(Nat) /\ Append(s, d) = s \o <<d>>
    OBVIOUS
  <1>2. Leads(ColumnStep, 0, s, ColumnOf(s)) /\ Leads(ColumnStep, ColumnOf(s), <<d>>, v)
    BY ColumnsLead, LeadsOne
  <1>3. Leads(ColumnStep, 0, s \o <<d>>, v)
    <2> HIDE DEF v
    <2>1. QED BY <1>1, <1>2, LeadsOn
  <1>4. ColumnOf(s \o <<d>>) = v
    <2>1. Leads(ColumnStep, 0, s \o <<d>>, ColumnOf(s \o <<d>>))
      BY <1>1, ColumnsLead
    <2> HIDE DEF v
    <2>2. QED BY <1>1, <1>3, <2>1, LeadsOnce
  <1>5. v = 26 * ColumnOf(s) + d + 1
    BY DEF ColumnStep
  <1>6. QED BY <1>1, <1>4, <1>5

(* A function may be defined on the naturals from its value at a smaller one. *)
UpTo(k, f, A, base, D, G) ==
    /\ f \in [0..k -> A]
    /\ \A i \in 0..k : f[i] = IF i = 0 THEN base ELSE G[<<f[D[i]], i>>]

Recurs(f, A, base, D, G) ==
    /\ f \in [Nat -> A]
    /\ \A n \in Nat : f[n] = IF n = 0 THEN base ELSE G[<<f[D[n]], n>>]

LEMMA RecursionIsDefined ==
    ASSUME NEW A, NEW base \in A, NEW D \in [Nat -> Nat], NEW G \in [A \X Nat -> A],
           \A n \in Nat \ {0} : D[n] < n
    PROVE  \E f : Recurs(f, A, base, D, G)
  <1> DEFINE Runs(k, f) == UpTo(k, f, A, base, D, G)
  <1>1. ASSUME NEW n \in Nat PROVE \E f : Runs(n, f)
    <2> DEFINE Bad == {k \in Nat : ~\E f : Runs(k, f)}
    <2>1. SUFFICES ASSUME Bad # {} PROVE FALSE
      <3> HIDE DEF Runs
      <3>1. QED OBVIOUS
    <2>2. PICK k \in Bad : \A m \in Bad : k =< m
      <3>1. Bad \in SUBSET Nat
        OBVIOUS
      <3> HIDE DEF Bad
      <3>2. QED BY <2>1, <3>1, LeastOf
    <2>3. k \in Nat /\ ~\E f : Runs(k, f)
      <3> HIDE DEF Runs
      <3>1. QED OBVIOUS
    <2>4. k # 0
      <3>1. Runs(0, [i \in 0..0 |-> base])
        BY DEF UpTo
      <3> HIDE DEF Runs
      <3>2. QED BY <2>3, <3>1
    <2>5. k - 1 \in Nat /\ ~(k =< k - 1)
      BY <2>3, <2>4
    <2>6. PICK f : Runs(k - 1, f)
      <3>1. k - 1 \notin Bad
        <4> HIDE DEF Bad
        <4>1. QED BY <2>2, <2>5
      <3> HIDE DEF Runs
      <3>2. QED BY <2>5, <3>1
    <2> DEFINE g == [i \in 0..k |-> IF i = k THEN G[<<f[D[k]], k>>] ELSE f[i]]
    <2>7. /\ g[k] = G[<<f[D[k]], k>>]
          /\ \A i \in 0..k - 1 : g[i] = f[i]
      BY <2>3, <2>5
    <2>8. D[k] \in 0..k - 1
      BY <2>3, <2>4
    <2>9. g \in [0..k -> A]
      <3>1. f[D[k]] \in A /\ \A i \in 0..k - 1 : f[i] \in A
        BY <2>6, <2>8 DEF UpTo
      <3>2. G[<<f[D[k]], k>>] \in A
        BY <2>3, <3>1
      <3>3. \A i \in 0..k : i = k \/ i \in 0..k - 1
        BY <2>3
      <3>4. QED BY <3>1, <3>2, <3>3
    <2>10. ASSUME NEW i \in 0..k PROVE g[i] = IF i = 0 THEN base ELSE G[<<g[D[i]], i>>]
      <3> HIDE DEF g
      <3>1. CASE i = k
        BY <2>4, <2>7, <2>8, <3>1
      <3>2. CASE i # k /\ i # 0
        <4>1. i \in 0..k - 1 /\ D[i] \in 0..k - 1
          BY <2>3, <3>2
        <4>2. f[i] = G[<<f[D[i]], i>>]
          BY <2>6, <3>2, <4>1 DEF UpTo
        <4>3. QED BY <2>7, <3>2, <4>1, <4>2
      <3>3. CASE i # k /\ i = 0
        <4>1. i \in 0..k - 1
          BY <2>3, <3>3
        <4>2. f[i] = base
          BY <2>6, <3>3, <4>1 DEF UpTo
        <4>3. QED BY <2>7, <3>3, <4>1, <4>2
      <3>4. QED BY <3>1, <3>2, <3>3
    <2>11. Runs(k, g)
      BY <2>9, <2>10 DEF UpTo
    <2> HIDE DEF Runs, g
    <2>12. QED BY <2>3, <2>11
  <1>2. ASSUME NEW k \in Nat, NEW m \in Nat, NEW f, NEW g, Runs(k, f), Runs(m, g),
               NEW i \in Nat, i =< k, i =< m
        PROVE  f[i] = g[i]
    <2> DEFINE Bad == {j \in Nat : j =< i /\ f[j] # g[j]}
    <2>1. SUFFICES ASSUME Bad # {} PROVE FALSE
      OBVIOUS
    <2>2. PICK j \in Bad : \A l \in Bad : j =< l
      <3>1. Bad \in SUBSET Nat
        OBVIOUS
      <3> HIDE DEF Bad
      <3>2. QED BY <2>1, <3>1, LeastOf
    <2>3. j \in Nat /\ j =< i /\ f[j] # g[j]
      OBVIOUS
    <2>4. j \in 0..k /\ j \in 0..m
      BY <1>2, <2>3
    <2>5. j # 0
      BY <1>2, <2>3, <2>4 DEF UpTo
    <2>6. D[j] \in Nat /\ D[j] =< i /\ ~(j =< D[j])
      BY <2>3, <2>5
    <2>7. f[D[j]] = g[D[j]]
      BY <2>2, <2>6
    <2>8. QED BY <1>2, <2>3, <2>4, <2>5, <2>7 DEF UpTo
  <1> DEFINE At(n) == CHOOSE f : Runs(n, f)
             F == [n \in Nat |-> At(n)[n]]
  <1>3. ASSUME NEW n \in Nat PROVE Runs(n, At(n))
    <2> HIDE DEF Runs
    <2>1. QED BY <1>1
  <1> HIDE DEF At
  <1>4. F \in [Nat -> A]
    <2>1. ASSUME NEW n \in Nat PROVE At(n)[n] \in A
      BY <1>3 DEF UpTo
    <2>2. QED BY <2>1
  <1>5. ASSUME NEW n \in Nat PROVE F[n] = IF n = 0 THEN base ELSE G[<<F[D[n]], n>>]
    <2>1. At(n)[n] = IF n = 0 THEN base ELSE G[<<At(n)[D[n]], n>>]
      BY <1>3 DEF UpTo
    <2>2. CASE n # 0
      <3>1. D[n] \in Nat /\ D[n] =< n /\ D[n] =< D[n]
        BY <2>2
      <3>2. At(n)[D[n]] = At(D[n])[D[n]]
        <4> HIDE DEF Runs
        <4>1. QED BY <1>2, <1>3, <3>1
      <3>3. QED BY <2>1, <2>2, <3>1, <3>2
    <2>3. QED BY <2>1, <2>2
  <1>6. Recurs(F, A, base, D, G)
    BY <1>4, <1>5 DEF Recurs
  <1> HIDE DEF F
  <1>7. QED BY <1>6

LEMMA LettersAre ==
    ASSUME NEW n \in Nat
    PROVE  ColumnNumberToLetters[n]
               = IF n = 0 THEN <<>>
                 ELSE Append(ColumnNumberToLetters[(n - 1) \div 26], (n - 1) % 26)
  <1> DEFINE D == [k \in Nat |-> IF k = 0 THEN 0 ELSE (k - 1) \div 26]
             G == [q \in Seq(Nat) \X Nat |-> IF q[2] = 0 THEN q[1] ELSE Append(q[1], (q[2] - 1) % 26)]
             Is(f) == f = [k \in Nat |-> IF k = 0 THEN <<>>
                                         ELSE Append(f[(k - 1) \div 26], (k - 1) % 26)]
  <1>1. \A k \in Nat \ {0} : /\ (k - 1) \div 26 \in Nat /\ (k - 1) % 26 \in Nat
                             /\ (k - 1) \div 26 < k
    OBVIOUS
  <1>2. D \in [Nat -> Nat] /\ \A k \in Nat \ {0} : D[k] < k
    BY <1>1
  <1>3. G \in [Seq(Nat) \X Nat -> Seq(Nat)]
    <2>1. ASSUME NEW s \in Seq(Nat), NEW k \in Nat, k # 0 PROVE Append(s, (k - 1) % 26) \in Seq(Nat)
      BY <1>1, <2>1
    <2>2. QED BY <2>1
  <1>4. \A s \in Seq(Nat), k \in Nat \ {0} :
           /\ D[k] = (k - 1) \div 26 /\ D[k] \in Nat
           /\ G[<<s, k>>] = Append(s, (k - 1) % 26)
    BY <1>1
  <1>5. <<>> \in Seq(Nat)
    OBVIOUS
  <1> HIDE DEF D, G
  <1>6. PICK f : Recurs(f, Seq(Nat), <<>>, D, G)
    BY <1>2, <1>3, <1>5, RecursionIsDefined
  <1>7. Is(f)
    <2>1. \A k \in Nat : f[k] = IF k = 0 THEN <<>>
                                ELSE Append(f[(k - 1) \div 26], (k - 1) % 26)
      BY <1>4, <1>6 DEF Recurs
    <2>2. f = [k \in Nat |-> f[k]]
      BY <1>6 DEF Recurs
    <2>3. QED BY <2>1, <2>2
  <1>8. ColumnNumberToLetters = CHOOSE g : Is(g)
    BY DEF ColumnNumberToLetters
  <1>9. Is(ColumnNumberToLetters)
    <2> HIDE DEF Is
    <2>1. QED BY <1>7, <1>8
  <1>10. QED BY <1>9

(* The letters of a column are those that number the column. *)
LEMMA LettersNumber ==
    ASSUME NEW n \in Nat
    PROVE  /\ ColumnNumberToLetters[n] \in Seq(Nat)
           /\ ColumnOf(ColumnNumberToLetters[n]) = n
  <1> DEFINE Fits(k) == /\ ColumnNumberToLetters[k] \in Seq(Nat)
                        /\ ColumnOf(ColumnNumberToLetters[k]) = k
             Bad == {k \in Nat : ~Fits(k)}
  <1>1. SUFFICES ASSUME Bad # {} PROVE FALSE
    OBVIOUS
  <1>2. PICK k \in Bad : \A m \in Bad : k =< m
    <2>1. Bad \in SUBSET Nat
      OBVIOUS
    <2> HIDE DEF Bad
    <2>2. QED BY <1>1, <2>1, LeastOf
  <1>3. k \in Nat /\ ~Fits(k)
    OBVIOUS
  <1>4. k # 0
    <2>1. ColumnNumberToLetters[0] = <<>> /\ <<>> \in Seq(Nat)
      BY LettersAre
    <2>2. QED BY <1>3, <2>1, ColumnOfNone
  <1> DEFINE m == (k - 1) \div 26
             d == (k - 1) % 26
  <1>5. m \in Nat /\ d \in Nat /\ 26 * m + d + 1 = k /\ ~(k =< m)
    BY <1>3, <1>4
  <1>6. ColumnNumberToLetters[k] = Append(ColumnNumberToLetters[m], d)
    BY <1>3, <1>4, LettersAre
  <1> HIDE DEF m, d
  <1>7. Fits(m)
    <2>1. m \notin Bad
      <3> HIDE DEF Bad
      <3>1. QED BY <1>2, <1>5
    <2> HIDE DEF Fits
    <2>2. QED BY <1>5, <2>1
  <1>8. /\ Append(ColumnNumberToLetters[m], d) \in Seq(Nat)
        /\ ColumnOf(Append(ColumnNumberToLetters[m], d)) = 26 * m + d + 1
    BY <1>5, <1>7, ColumnOfAppend
  <1>9. QED BY <1>3, <1>5, <1>6, <1>8

-------------------------------------------------------------------------------
(* Numerals.  Reading s leads from one state of the reader to another. *)
Reading(a, s, b) == s \in Seq(Nat) /\ Leads(ReadStep, a, s, b)

LEMMA ReadsNothing == ASSUME NEW a PROVE Reading(a, <<>>, a)
  <1>1. <<>> \in Seq(Nat)
    OBVIOUS
  <1>2. QED BY <1>1, LeadsNowhere DEF Reading

LEMMA ReadsOn ==
    ASSUME NEW s, NEW t, NEW a, NEW b, NEW c, Reading(a, s, b), Reading(b, t, c)
    PROVE  Reading(a, s \o t, c)
  <1>1. PICK G : G = ReadStep
    OBVIOUS
  <1>2. s \in Seq(Nat) /\ t \in Seq(Nat) /\ Leads(G, a, s, b) /\ Leads(G, b, t, c)
    BY <1>1 DEF Reading
  <1>3. Leads(G, a, s \o t, c)
    BY <1>2, LeadsOn
  <1>4. s \o t \in Seq(Nat)
    BY <1>2
  <1>5. QED BY <1>1, <1>3, <1>4 DEF Reading

LEMMA ReadsOne ==
    ASSUME NEW t \in Nat, NEW sec \in Nat, NEW n \in Nat, NEW c \in Nat
    PROVE  Reading(Reached(t, sec, n), <<c>>, ReadCharacter(Reached(t, sec, n), c))
  <1>1. PICK q \in Acc : q = Reached(t, sec, n)
    BY CharactersRead
  <1>2. ReadStep[<<q, c>>] = ReadCharacter(q, c)
    BY DEF ReadStep
  <1>3. Leads(ReadStep, q, <<c>>, ReadStep[<<q, c>>])
    BY LeadsOne
  <1>4. <<c>> \in Seq(Nat)
    OBVIOUS
  <1>5. QED BY <1>1, <1>2, <1>3, <1>4 DEF Reading

LEMMA ReadsDigit ==
    ASSUME NEW t \in Nat, NEW sec \in Nat, NEW n \in Nat, NEW c \in 0..9
    PROVE  Reading(Reached(t, sec, n), <<c>>, Reached(t, sec, c))
  <1>1. c \in Nat /\ c < 10
    OBVIOUS
  <1>2. ReadCharacter(Reached(t, sec, n), c) = Reached(t, sec, c)
    BY <1>1, CharactersRead
  <1>3. Reading(Reached(t, sec, n), <<c>>, ReadCharacter(Reached(t, sec, n), c))
    BY <1>1, ReadsOne
  <1>4. QED BY <1>2, <1>3

Units == {10, 100, 1000}
Times(unit, n) == unit * n

LEMMA ReadsUnit ==
    ASSUME NEW t \in Nat, NEW sec \in Nat, NEW n \in Nat, n # 0, NEW c \in Units
    PROVE  Reading(Reached(t, sec, n), <<c>>, Reached(t, sec + Times(c, n), 0))
  <1>1. PICK k \in Nat : k = c /\ ~(k < 10) /\ k # 10000
    BY DEF Units
  <1>2. ReadCharacter(Reached(t, sec, n), k) = Reached(t, sec + k * n, 0)
    BY <1>1, CharactersRead
  <1>3. Reading(Reached(t, sec, n), <<k>>, ReadCharacter(Reached(t, sec, n), k))
    BY ReadsOne
  <1>4. QED BY <1>1, <1>2, <1>3 DEF Times

LEMMA ReadsBareTen ==
    ASSUME NEW t \in Nat, NEW sec \in Nat
    PROVE  Reading(Reached(t, sec, 0), <<10>>, Reached(t, sec + 10, 0))
  <1>1. PICK k \in Nat : k = 10 /\ ~(k < 10) /\ k # 10000
    OBVIOUS
  <1>2. ReadCharacter(Reached(t, sec, 0), k) = Reached(t, sec + k, 0)
    BY <1>1, CharactersRead
  <1>3. Reading(Reached(t, sec, 0), <<k>>, ReadCharacter(Reached(t, sec, 0), k))
    BY ReadsOne
  <1>4. QED BY <1>1, <1>2, <1>3

LEMMA ReadsMyriad ==
    ASSUME NEW t \in Nat, NEW sec \in Nat, NEW n \in Nat
    PROVE  Reading(Reached(t, sec, n), <<10000>>, Reached(t + (sec + n) * 10000, 0, 0))
  <1>1. 10000 \in Nat
    OBVIOUS
  <1>2. ReadCharacter(Reached(t, sec, n), 10000) = Reached(t + (sec + n) * 10000, 0, 0)
    BY <1>1, CharactersRead
  <1>3. Reading(Reached(t, sec, n), <<10000>>, ReadCharacter(Reached(t, sec, n), 10000))
    BY <1>1, ReadsOne
  <1>4. QED BY <1>2, <1>3

(* s spells 10 * q + m: reading it adds the tens to the section, while the last digit
   waits for its unit. *)
Adds(s, q, m) ==
    /\ q \in Nat /\ m \in 0..9
    /\ \A t, sec \in Nat : Reading(Reached(t, sec, 0), s, Reached(t, sec + 10 * q, m))

Spells(s, n) == \E q, m : n = 10 * q + m /\ Adds(s, q, m)

LEMMA DigitSpells == ASSUME NEW n \in 0..9 PROVE Spells(<<n>>, n)
  <1>1. ASSUME NEW t \in Nat, NEW sec \in Nat
        PROVE  Reading(Reached(t, sec, 0), <<n>>, Reached(t, sec + 10 * 0, n))
    <2>1. sec + 10 * 0 = sec
      OBVIOUS
    <2>2. Reading(Reached(t, sec, 0), <<n>>, Reached(t, sec, n))
      BY ReadsDigit
    <2>3. QED BY <2>1, <2>2
  <1>2. Adds(<<n>>, 0, n)
    BY <1>1 DEF Adds
  <1>3. n = 10 * 0 + n
    OBVIOUS
  <1>4. QED BY <1>2, <1>3 DEF Spells

LEMMA NothingSpells == Spells(<<>>, 0)
  <1>1. ASSUME NEW t \in Nat, NEW sec \in Nat
        PROVE  Reading(Reached(t, sec, 0), <<>>, Reached(t, sec + 10 * 0, 0))
    <2>1. sec + 10 * 0 = sec
      OBVIOUS
    <2>2. QED BY <2>1, ReadsNothing
  <1>2. Adds(<<>>, 0, 0)
    BY <1>1 DEF Adds
  <1>3. 0 = 10 * 0 + 0
    OBVIOUS
  <1>4. QED BY <1>2, <1>3 DEF Spells

LEMMA ZeroSpells == ASSUME NEW s, NEW n, Spells(s, n) PROVE Spells(<<0>> \o s, n)
  <1>1. PICK q, m : n = 10 * q + m /\ Adds(s, q, m)
    BY DEF Spells
  <1>2. ASSUME NEW t \in Nat, NEW sec \in Nat
        PROVE  Reading(Reached(t, sec, 0), <<0>> \o s, Reached(t, sec + 10 * q, m))
    <2>1. Reading(Reached(t, sec, 0), <<0>>, Reached(t, sec, 0))
      BY ReadsDigit
    <2>2. Reading(Reached(t, sec, 0), s, Reached(t, sec + 10 * q, m))
      BY <1>1 DEF Adds
    <2>3. QED BY <2>1, <2>2, ReadsOn
  <1>3. Adds(<<0>> \o s, q, m)
    BY <1>1, <1>2 DEF Adds
  <1>4. QED BY <1>1, <1>3 DEF Spells

LEMMA RestSpells ==
    ASSUME NEW s, NEW n, NEW unit, Spells(s, n)
    PROVE  Spells(Rest(n, unit, s), n)
  BY NothingSpells, ZeroSpells DEF Rest

LEMMA PairIsJoined == ASSUME NEW a, NEW b PROVE <<a, b>> = <<a>> \o <<b>>
  <1> DEFINE T == {a, b}
  <1>1. <<a>> \in Seq(T) /\ <<b>> \in Seq(T) /\ <<a, b>> \in Seq(T)
    OBVIOUS
  <1>2. <<a>> \o <<b>> = [i \in 1..2 |-> IF i =< 1 THEN <<a>>[i] ELSE <<b>>[i - 1]]
    BY <1>1
  <1>3. <<a, b>> = [i \in 1..2 |-> <<a, b>>[i]]
    OBVIOUS
  <1>4. ASSUME NEW i \in 1..2 PROVE <<a, b>>[i] = IF i =< 1 THEN <<a>>[i] ELSE <<b>>[i - 1]
    <2>1. CASE i = 1
      BY <2>1
    <2>2. CASE i = 2
      BY <2>2
    <2>3. QED BY <2>1, <2>2
  <1>5. QED BY <1>2, <1>3, <1>4

LEMMA UnitSpells ==
    ASSUME NEW d \in 1..9, NEW unit \in {10, 100, 1000}, NEW r, NEW s, Spells(s, r)
    PROVE  Spells(<<d, unit>> \o s, unit * d + r)
  <1>1. PICK q, m : r = 10 * q + m /\ Adds(s, q, m)
    BY DEF Spells
  <1>2. q \in Nat /\ m \in 0..9
    BY <1>1 DEF Adds
  <1>3. PICK k \in Nat : unit * d = 10 * k
    <2>1. CASE unit = 10
      BY <2>1
    <2>2. CASE unit = 100
      <3>1. unit * d = 10 * (10 * d) /\ 10 * d \in Nat
        BY <2>2
      <3>2. QED BY <3>1
    <2>3. CASE unit = 1000
      <3>1. unit * d = 10 * (100 * d) /\ 100 * d \in Nat
        BY <2>3
      <3>2. QED BY <3>1
    <2>4. QED BY <2>1, <2>2, <2>3
  <1>4. ASSUME NEW t \in Nat, NEW sec \in Nat
        PROVE  Reading(Reached(t, sec, 0), <<d, unit>> \o s, Reached(t, sec + 10 * (k + q), m))
    <2>1. Reading(Reached(t, sec, 0), <<d>>, Reached(t, sec, d))
      BY ReadsDigit
    <2>2. Reading(Reached(t, sec, d), <<unit>>, Reached(t, sec + 10 * k, 0))
      <3>1. d \in Nat /\ d # 0 /\ unit \in Units
        BY DEF Units
      <3>2. Reading(Reached(t, sec, d), <<unit>>, Reached(t, sec + Times(unit, d), 0))
        BY <3>1, ReadsUnit
      <3>3. QED BY <1>3, <3>2 DEF Times
    <2>3. <<d, unit>> = <<d>> \o <<unit>>
      BY PairIsJoined
    <2>4. Reading(Reached(t, sec, 0), <<d, unit>>, Reached(t, sec + 10 * k, 0))
      BY <2>1, <2>2, <2>3, ReadsOn
    <2>5. /\ sec + 10 * k \in Nat
          /\ (sec + 10 * k) + 10 * q = sec + 10 * (k + q)
      BY <1>2
    <2>6. Reading(Reached(t, sec + 10 * k, 0), s, Reached(t, (sec + 10 * k) + 10 * q, m))
      BY <1>1, <2>5 DEF Adds
    <2>7. QED BY <2>4, <2>5, <2>6, ReadsOn
  <1>5. Adds(<<d, unit>> \o s, k + q, m)
    BY <1>2, <1>4 DEF Adds
  <1>6. unit * d + r = 10 * (k + q) + m
    BY <1>1, <1>2, <1>3
  <1>7. QED BY <1>5, <1>6 DEF Spells

LEMMA TensSpell == ASSUME NEW n \in Nat, n < 100 PROVE Spells(Tens(n), n)
  <1>1. CASE n < 10
    BY <1>1, DigitSpells DEF Tens
  <1>2. CASE ~(n < 10)
    <2>1. PICK d \in 1..9, r \in 0..9 : d = n \div 10 /\ r = n % 10 /\ n = 10 * d + r
      BY <1>2
    <2>2. Spells(Rest(r, 10, <<r>>), r)
      BY DigitSpells, RestSpells
    <2>3. Spells(<<d, 10>> \o Rest(r, 10, <<r>>), 10 * d + r)
      BY <2>2, UnitSpells
    <2>4. Tens(n) = <<d, 10>> \o Rest(r, 10, <<r>>)
      BY <1>2, <2>1 DEF Tens
    <2>5. PICK m : m = 10 * d + r
      OBVIOUS
    <2>6. m = n
      BY <2>1, <2>5
    <2>7. Spells(Tens(n), m)
      BY <2>3, <2>4, <2>5
    <2>8. QED BY <2>6, <2>7
  <1>3. QED BY <1>1, <1>2

LEMMA HundredsSpell == ASSUME NEW n \in Nat, n < 1000 PROVE Spells(Hundreds(n), n)
  <1>1. CASE n < 100
    BY <1>1, TensSpell DEF Hundreds
  <1>2. CASE ~(n < 100)
    <2>1. PICK d \in 1..9, r \in Nat :
              d = n \div 100 /\ r = n % 100 /\ r < 100 /\ n = 100 * d + r
      BY <1>2
    <2>2. Spells(Rest(r, 100, Tens(r)), r)
      BY <2>1, TensSpell, RestSpells
    <2>3. Spells(<<d, 100>> \o Rest(r, 100, Tens(r)), 100 * d + r)
      BY <2>2, UnitSpells
    <2>4. Hundreds(n) = <<d, 100>> \o Rest(r, 100, Tens(r))
      BY <1>2, <2>1 DEF Hundreds
    <2>5. PICK m : m = 100 * d + r
      OBVIOUS
    <2>6. m = n
      BY <2>1, <2>5
    <2>7. Spells(Hundreds(n), m)
      BY <2>3, <2>4, <2>5
    <2>8. QED BY <2>6, <2>7
  <1>3. QED BY <1>1, <1>2

LEMMA ThousandsSpell == ASSUME NEW n \in Nat, n < 10000 PROVE Spells(Thousands(n), n)
  <1>1. CASE n < 1000
    BY <1>1, HundredsSpell DEF Thousands
  <1>2. CASE ~(n < 1000)
    <2>1. PICK d \in 1..9, r \in Nat :
              d = n \div 1000 /\ r = n % 1000 /\ r < 1000 /\ n = 1000 * d + r
      BY <1>2
    <2>2. Spells(Rest(r, 1000, Hundreds(r)), r)
      BY <2>1, HundredsSpell, RestSpells
    <2>3. Spells(<<d, 1000>> \o Rest(r, 1000, Hundreds(r)), 1000 * d + r)
      BY <2>2, UnitSpells
    <2>4. Thousands(n) = <<d, 1000>> \o Rest(r, 1000, Hundreds(r))
      BY <1>2, <2>1 DEF Thousands
    <2>5. PICK m : m = 1000 * d + r
      OBVIOUS
    <2>6. m = n
      BY <2>1, <2>5
    <2>7. Spells(Thousands(n), m)
      BY <2>3, <2>4, <2>5
    <2>8. QED BY <2>6, <2>7
  <1>3. QED BY <1>1, <1>2

(* From 10 to 19 the bare unit counts as one. *)
LEMMA BareUnitSpells ==
    ASSUME NEW r, NEW s, Spells(s, r) PROVE Spells(<<10>> \o s, 10 + r)
  <1>1. PICK q, m : r = 10 * q + m /\ Adds(s, q, m)
    BY DEF Spells
  <1>2. q \in Nat /\ m \in 0..9
    BY <1>1 DEF Adds
  <1>3. ASSUME NEW t \in Nat, NEW sec \in Nat
        PROVE  Reading(Reached(t, sec, 0), <<10>> \o s, Reached(t, sec + 10 * (1 + q), m))
    <2>1. Reading(Reached(t, sec, 0), <<10>>, Reached(t, sec + 10, 0))
      BY ReadsBareTen
    <2>2. sec + 10 \in Nat /\ (sec + 10) + 10 * q = sec + 10 * (1 + q)
      BY <1>2
    <2>3. Reading(Reached(t, sec + 10, 0), s, Reached(t, (sec + 10) + 10 * q, m))
      BY <1>1, <2>2 DEF Adds
    <2>4. QED BY <2>1, <2>2, <2>3, ReadsOn
  <1>4. Adds(<<10>> \o s, 1 + q, m)
    BY <1>2, <1>3 DEF Adds
  <1>5. 10 + r = 10 * (1 + q) + m
    BY <1>1, <1>2
  <1>6. QED BY <1>4, <1>5 DEF Spells

LEMMA SectionSpells == ASSUME NEW n \in Nat, n < 10000 PROVE Spells(Section(n), n)
  <1>1. CASE n \notin 10..19
    <2>1. Section(n) = Thousands(n)
      BY <1>1 DEF Section
    <2>2. Spells(Thousands(n), n)
      BY ThousandsSpell
    <2>3. QED BY <2>1, <2>2
  <1>2. CASE n \in 10..19
    <2>1. PICK r \in 0..9 : r = n % 10 /\ n \div 10 = 1 /\ n = 10 + r
      BY <1>2
    <2>2. PICK left : left = Rest(r, 10, <<r>>)
      OBVIOUS
    <2>3. Spells(left, r)
      BY <2>2, DigitSpells, RestSpells
    <2>4. Tens(n) = <<1, 10>> \o left
      BY <1>2, <2>1, <2>2 DEF Tens
    <2>5. left \in Seq(Nat)
      BY <2>3 DEF Spells, Adds, Reading
    <2>6. Tail(Tens(n)) = <<10>> \o left
      <3>1. <<1, 10>> \o left = <<1>> \o (<<10>> \o left) /\ <<10>> \o left \in Seq(Nat)
        BY <2>5
      <3>2. QED BY <2>4, <3>1
    <2>7. Spells(<<10>> \o left, 10 + r)
      BY <2>3, BareUnitSpells
    <2>8. Section(n) = <<10>> \o left
      BY <1>2, <2>6 DEF Section
    <2>9. PICK m : m = 10 + r
      OBVIOUS
    <2>10. m = n
      BY <2>1, <2>9
    <2>11. QED BY <2>7, <2>8, <2>9, <2>10
  <1>3. QED BY <1>1, <1>2

LEMMA ComesTo ==
    ASSUME NEW s, NEW t, NEW sec, NEW n, Reading(Reached(0, 0, 0), s, Reached(t, sec, n))
    PROVE  ParseChineseInteger(s) = t + sec + n
  <1>1. PICK end : end = FoldLeft(ReadCharacter, [total |-> 0, section |-> 0, number |-> 0], s)
    OBVIOUS
  <1>2. PICK G : G = ReadStep
    OBVIOUS
  <1>3. s \in Seq(Nat) /\ Leads(G, Reached(0, 0, 0), s, Reached(t, sec, n))
    BY <1>2 DEF Reading
  <1>4. Leads(G, Reached(0, 0, 0), s, end)
    BY <1>1, <1>2, <1>3, NumeralsLead
  <1>5. end = Reached(t, sec, n)
    BY <1>3, <1>4, LeadsOnce
  <1>6. ParseChineseInteger(s) = end.total + end.section + end.number
    BY <1>1 DEF ParseChineseInteger
  <1>7. QED BY <1>5, <1>6 DEF Reached

(* What is spelt for a number is read as this number (_parse_chinese_integer). *)
THEOREM NumeralsAreRead ==
    \A n \in Nat : n < 100000000 => ParseChineseInteger(Numeral(n)) = n
  <1> SUFFICES ASSUME NEW n \in Nat, n < 100000000 PROVE ParseChineseInteger(Numeral(n)) = n
    OBVIOUS
  <1>1. CASE n < 10000
    <2>1. Spells(Numeral(n), n)
      BY <1>1, SectionSpells DEF Numeral
    <2>2. PICK q, m : n = 10 * q + m /\ Adds(Numeral(n), q, m)
      BY <2>1 DEF Spells
    <2>3. q \in Nat /\ m \in 0..9 /\ 0 + 10 * q + m = n
      BY <2>2 DEF Adds
    <2>4. Reading(Reached(0, 0, 0), Numeral(n), Reached(0, 0 + 10 * q, m))
      BY <2>2 DEF Adds
    <2>5. ParseChineseInteger(Numeral(n)) = 0 + (0 + 10 * q) + m
      BY <2>4, ComesTo
    <2>6. QED BY <2>3, <2>5
  <1>2. CASE ~(n < 10000)
    <2>1. PICK h \in Nat, r \in Nat : /\ h = n \div 10000 /\ r = n % 10000
                                     /\ h < 10000 /\ r < 10000 /\ n = 10000 * h + r
      BY <1>2
    <2>2. PICK first, last : first = Section(h) /\ last = Rest(r, 10000, Thousands(r))
      OBVIOUS
    <2>3. Numeral(n) = first \o <<10000>> \o last
      BY <1>2, <2>1, <2>2 DEF Numeral
    <2>4. PICK q, m : h = 10 * q + m /\ Adds(first, q, m)
      <3>1. Spells(first, h)
        BY <2>1, <2>2, SectionSpells
      <3>2. QED BY <3>1 DEF Spells
    <2>5. PICK p, k : r = 10 * p + k /\ Adds(last, p, k)
      <3>1. Spells(last, r)
        BY <2>1, <2>2, ThousandsSpell, RestSpells
      <3>2. QED BY <3>1 DEF Spells
    <2>6. q \in Nat /\ m \in 0..9 /\ p \in Nat /\ k \in 0..9
      BY <2>4, <2>5 DEF Adds
    <2>7. Reading(Reached(0, 0, 0), first, Reached(0, 0 + 10 * q, m))
      BY <2>4 DEF Adds
    <2>8. PICK t \in Nat : t = 0 + ((0 + 10 * q) + m) * 10000
      BY <2>6
    <2>9. Reading(Reached(0, 0 + 10 * q, m), <<10000>>, Reached(t, 0, 0))
      <3>1. 0 + 10 * q \in Nat /\ m \in Nat
        BY <2>6
      <3>2. QED BY <2>8, <3>1, ReadsMyriad
    <2>10. Reading(Reached(t, 0, 0), last, Reached(t, 0 + 10 * p, k))
      BY <2>5 DEF Adds
    <2>11. Reading(Reached(0, 0, 0), first \o <<10000>> \o last, Reached(t, 0 + 10 * p, k))
      <3>1. Reading(Reached(0, 0, 0), first \o <<10000>>, Reached(t, 0, 0))
        BY <2>7, <2>9, ReadsOn
      <3>2. QED BY <2>10, <3>1, ReadsOn
    <2>12. ParseChineseInteger(Numeral(n)) = t + (0 + 10 * p) + k
      BY <2>3, <2>11, ComesTo
    <2>13. t + (0 + 10 * p) + k = n
      BY <2>1, <2>4, <2>5, <2>6, <2>8
    <2>14. QED BY <2>12, <2>13
  <1>3. QED BY <1>1, <1>2

-------------------------------------------------------------------------------
(* The place and the page the user has in mind *)

LEMMA NumbersAreRead ==
    ASSUME NEW numeral, NEW n, Writes(numeral, n)
    PROVE  ParseSheetPositionNumber(numeral) = n
  <1>1. n \in Nat /\ n < 100000000
    BY DEF Writes
  <1>2. CASE numeral = Arabic(n)
    BY <1>1, <1>2 DEF Arabic, ParseSheetPositionNumber
  <1>3. CASE numeral = Chinese(Numeral(n))
    <2>1. numeral.chinese = Numeral(n) /\ ~(numeral.arabic >= 0)
      BY <1>3 DEF Chinese
    <2>2. ParseChineseInteger(Numeral(n)) = n
      BY <1>1, NumeralsAreRead
    <2>3. QED BY <2>1, <2>2 DEF ParseSheetPositionNumber
  <1>4. QED BY <1>2, <1>3 DEF Writes

(* The words for a place in front of the first link name the cell that is meant
   (_sheet_row_column_range_from_text). *)
LEMMA PlaceIsNamed ==
    ASSUME NEW place, place.means \in Nat \X Nat, PlaceIsMeant(place), IsSeen(place),
           place.means # <<0, 0>>
    PROVE  LET cell == SheetRangeFromText(place)
           IN  cell # NoCell /\ <<cell.row, ColumnOf(cell.column)>> = place.means
  <1>1. CASE place.ref # NoCell /\ place.means = <<place.ref.row, ColumnOf(place.ref.column)>>
    BY <1>1 DEF SheetRangeFromText, IsSeen
  <1>2. CASE /\ place.ref = NoCell /\ Len(place.rowcol) = 2
             /\ Writes(place.rowcol[1], place.means[1])
             /\ Writes(place.rowcol[2], place.means[2])
    <2>1. PICK row \in Nat \ {0}, column \in Nat \ {0} :
              row = place.means[1] /\ column = place.means[2]
      BY <1>2 DEF Writes
    <2>2. SheetRangeFromText(place) = CellFromRowColumn(row, column)
      <3>1. ~place.behind /\ place.rowcol # <<>>
        BY <1>2 DEF IsSeen
      <3>2. /\ ParseSheetPositionNumber(place.rowcol[1]) = row
            /\ ParseSheetPositionNumber(place.rowcol[2]) = column
        BY <1>2, <2>1, NumbersAreRead
      <3>3. QED BY <1>2, <3>1, <3>2 DEF SheetRangeFromText
    <2>3. PICK letters : letters = ColumnNumberToLetters[column] /\ ColumnOf(letters) = column
      BY LettersNumber
    <2>4. SheetRangeFromText(place) = [column |-> letters, row |-> row]
      BY <2>2, <2>3 DEF CellFromRowColumn
    <2>5. SheetRangeFromText(place) # NoCell
      BY <2>4 DEF NoCell
    <2>6. place.means = <<row, column>>
      BY <2>1
    <2>7. QED BY <2>3, <2>4, <2>5, <2>6
  <1>3. QED BY <1>1, <1>2 DEF PlaceIsMeant

(* The only unit of a page's number. *)
LEMMA PageOfTen ==
    ASSUME NEW s \in Seq(Nat), NEW i \in {1, 2}, i =< Len(s), Len(s) =< i + 1, s[i] = 10,
           \A j \in 1..Len(s) : j # i => s[j] \in 1..9
    PROVE  ChinesePageNumber(Chinese(s)) =
               10 * (IF i = 1 THEN 1 ELSE s[1]) + (IF Len(s) = i THEN 0 ELSE s[Len(s)])
  <1>1. Chinese(s).chinese = s /\ ~(Chinese(s).arabic >= 0)
    BY DEF Chinese
  <1>2. Contains(s, 10)
    BY DEF Contains
  <1> DEFINE at == {j \in 1..Len(s) : s[j] = 10}
  <1>3. at = {i}
    OBVIOUS
  <1>4. SelectInSeq(s, LAMBDA c : c = 10) = IF at # {} THEN Min(at) ELSE 0
    BY DEF SelectInSeq
  <1> HIDE DEF at
  <1>5. Min({i}) = i
    BY DEF Min
  <1>6. SelectInSeq(s, LAMBDA c : c = 10) = i
    BY <1>3, <1>4, <1>5
  <1>7. ChinesePageNumber(Chinese(s)) =
            10 * Digit(SubSeq(s, 1, i - 1), 1) + Digit(SubSeq(s, i + 1, Len(s)), 0)
    BY <1>1, <1>2, <1>6 DEF ChinesePageNumber
  <1>8. Digit(SubSeq(s, 1, i - 1), 1) = IF i = 1 THEN 1 ELSE s[1]
    <2>1. CASE i = 1
      <3>1. Len(SubSeq(s, 1, 0)) = 0
        OBVIOUS
      <3>2. QED BY <2>1, <3>1 DEF Digit
    <2>2. CASE i = 2
      <3>1. Len(SubSeq(s, 1, 1)) = 1 /\ SubSeq(s, 1, 1)[1] = s[1] /\ s[1] \in 1..9
        BY <2>2
      <3>2. QED BY <2>2, <3>1 DEF Digit
    <2>3. QED BY <2>1, <2>2
  <1>9. Digit(SubSeq(s, i + 1, Len(s)), 0) = IF Len(s) = i THEN 0 ELSE s[Len(s)]
    <2>1. CASE Len(s) = i
      <3>1. Len(SubSeq(s, i + 1, Len(s))) = 0
        BY <2>1
      <3>2. QED BY <2>1, <3>1 DEF Digit
    <2>2. CASE Len(s) = i + 1
      <3>1. /\ Len(SubSeq(s, i + 1, Len(s))) = 1
            /\ SubSeq(s, i + 1, Len(s))[1] = s[Len(s)] /\ s[Len(s)] \in 1..9
        BY <2>2
      <3>2. QED BY <2>2, <3>1 DEF Digit
    <2>3. QED BY <2>1, <2>2
  <1>10. QED BY <1>7, <1>8, <1>9

(* How the numbers up to 99 begin, and what tells the others from a page. *)
LEMMA RestOfTens ==
    ASSUME NEW r \in 0..9
    PROVE  Rest(r, 10, <<r>>) = IF r = 0 THEN <<>> ELSE <<r>>
  BY DEF Rest

LEMMA TensNumberPages ==
    ASSUME NEW n \in 10..99
    PROVE  /\ ChinesePageNumber(Chinese(Numeral(n))) = n
           /\ \A i \in DOMAIN Numeral(n) : Numeral(n)[i] \in PageCharacters
  <1>1. PICK q \in 1..9, r \in 0..9 : q = n \div 10 /\ r = n % 10 /\ n = 10 * q + r
    OBVIOUS
  <1>2. PICK s : s = Numeral(n)
    OBVIOUS
  <1>3. PICK left : left = Rest(r, 10, <<r>>)
    OBVIOUS
  <1>4. PICK tens : tens = Tens(n)
    OBVIOUS
  <1>5. tens = <<q, 10>> \o left
    BY <1>1, <1>3, <1>4 DEF Tens
  <1>6. left \in Seq(Nat) /\ (r = 0 => Len(left) = 0) /\ (r # 0 => Len(left) = 1 /\ left[1] = r)
    <2>1. CASE r = 0
      <3>1. left = <<>>
        BY <1>3, <2>1, RestOfTens
      <3>2. QED BY <2>1, <3>1
    <2>2. CASE r # 0
      <3>1. left = <<r>>
        BY <1>3, <2>2, RestOfTens
      <3>2. QED BY <2>2, <3>1
    <2>3. QED BY <2>1, <2>2
  <1>7. /\ tens \in Seq(Nat) /\ Len(tens) = 2 + Len(left)
        /\ tens[1] = q /\ tens[2] = 10 /\ (r # 0 => tens[3] = r)
    BY <1>5, <1>6
  <1>8. s = IF n \in 10..19 THEN Tail(tens) ELSE tens
    BY <1>2, <1>4 DEF Numeral, Section, Thousands, Hundreds
  <1>9. PICK k \in {1, 2} :
            /\ s \in Seq(Nat) /\ Len(s) = k + Len(left) /\ s[k] = 10 /\ (r # 0 => s[k + 1] = r)
            /\ k = 2 => s[1] = q
            /\ n = 10 * (IF k = 1 THEN 1 ELSE q) + r
    <2>1. CASE n \in 10..19
      <3>1. s = Tail(tens)
        BY <1>8, <2>1
      <3>2. s \in Seq(Nat) /\ Len(s) = 1 + Len(left) /\ s[1] = 10 /\ (r # 0 => s[2] = r)
        BY <1>6, <1>7, <3>1
      <3>3. n = 10 * 1 + r
        BY <1>1, <2>1
      <3>4. QED BY <3>2, <3>3
    <2>2. CASE n \notin 10..19
      <3>1. s = tens
        BY <1>8, <2>2
      <3>2. n = 10 * q + r
        BY <1>1
      <3>3. s \in Seq(Nat) /\ Len(s) = 2 + Len(left) /\ s[2] = 10 /\ (r # 0 => s[2 + 1] = r) /\ s[1] = q
        BY <1>7, <3>1
      <3>4. PICK k \in {1, 2} : k = 2
        OBVIOUS
      <3>5. (r # 0 => s[k + 1] = r) /\ s[k] = 10 /\ Len(s) = k + Len(left)
        BY <3>3, <3>4
      <3>6. n = 10 * (IF k = 1 THEN 1 ELSE q) + r
        BY <3>2, <3>4
      <3>7. QED BY <3>3, <3>5, <3>6
    <2>3. QED BY <2>1, <2>2
  <1>10. Len(s) = k \/ (Len(s) = k + 1 /\ r # 0)
    <2>1. Len(left) = 0 \/ (Len(left) = 1 /\ r # 0)
      BY <1>6
    <2>2. Len(s) = k + Len(left) /\ k + 0 = k
      BY <1>9
    <2>3. CASE Len(left) = 0
      BY <2>2, <2>3
    <2>4. CASE Len(left) = 1 /\ r # 0
      BY <2>2, <2>4
    <2>5. QED BY <2>1, <2>3, <2>4
  <1>11. \A j \in 1..Len(s) : j # k => s[j] \in 1..9
    <2> SUFFICES ASSUME NEW j \in 1..Len(s), j # k PROVE s[j] \in 1..9
      OBVIOUS
    <2>1. CASE j = k + 1
      <3>1. r # 0 /\ s[j] = r
        BY <1>9, <1>10, <2>1
      <3>2. QED BY <3>1
    <2>2. CASE j # k + 1
      <3>1. j = 1 /\ k = 2
        BY <1>10, <2>2
      <3>2. QED BY <1>9, <3>1
    <2>3. QED BY <2>1, <2>2
  <1>12. ChinesePageNumber(Chinese(s)) =
             10 * (IF k = 1 THEN 1 ELSE s[1]) + (IF Len(s) = k THEN 0 ELSE s[Len(s)])
    <2>1. k =< Len(s) /\ Len(s) =< k + 1 /\ s[k] = 10
      BY <1>9, <1>10
    <2>2. QED BY <1>9, <1>11, <2>1, PageOfTen
  <1>13. (IF Len(s) = k THEN 0 ELSE s[Len(s)]) = r
    <2>1. CASE r = 0
      <3>1. Len(s) = k
        BY <1>10, <2>1
      <3>2. QED BY <2>1, <3>1
    <2>2. CASE r # 0
      <3>1. Len(s) = k + 1 /\ s[k + 1] = r
        BY <1>6, <1>9, <2>2
      <3>2. QED BY <3>1
    <2>3. QED BY <2>1, <2>2
  <1>14. ChinesePageNumber(Chinese(s)) = n
    BY <1>9, <1>12, <1>13
  <1>15. \A i \in DOMAIN s : s[i] \in PageCharacters
    BY <1>9, <1>11 DEF PageCharacters
  <1>16. QED BY <1>2, <1>14, <1>15

LEMMA UnitIsNoPage ==
    ASSUME NEW s, s \in Seq(Nat), NEW d, NEW unit, unit \notin PageCharacters, NEW t,
           t = <<d, unit>> \o s
    PROVE  \E i \in DOMAIN t : t[i] \notin PageCharacters
  <1> DEFINE T == Nat \cup {d, unit}
  <1>1. <<d, unit>> \in Seq(T) /\ s \in Seq(T)
    OBVIOUS
  <1> HIDE DEF T
  <1>2. Len(<<d, unit>>) = 2 /\ <<d, unit>>[2] = unit
    OBVIOUS
  <1>3. 2 \in DOMAIN t /\ t[2] = unit
    BY <1>1, <1>2
  <1>4. QED BY <1>3

LEMMA ShortNumerals ==
    ASSUME NEW n \in Nat, n \notin 10..19
    PROVE  /\ n < 10000 => Numeral(n) = Thousands(n)
           /\ n < 1000 => Numeral(n) = Hundreds(n)
           /\ n < 100 => Numeral(n) = Tens(n)
  <1>1. n < 10000 => Numeral(n) = Section(n)
    BY DEF Numeral
  <1>2. Section(n) = Thousands(n)
    BY DEF Section
  <1>3. n < 1000 => Thousands(n) = Hundreds(n)
    BY DEF Thousands
  <1>4. n < 100 => Hundreds(n) = Tens(n)
    BY DEF Hundreds
  <1>5. QED BY <1>1, <1>2, <1>3, <1>4

LEMMA HundredsAreNoPages ==
    ASSUME NEW n \in Nat, 100 =< n, n < 1000
    PROVE  \E i \in DOMAIN Numeral(n) : Numeral(n)[i] \notin PageCharacters
  <1>1. PICK t, unit : t = Numeral(n) /\ unit = 100 /\ unit \notin PageCharacters
    BY DEF PageCharacters
  <1>2. PICK d \in Nat, r \in Nat : d = n \div 100 /\ r = n % 100 /\ r < 100
    OBVIOUS
  <1>3. PICK s : s = Rest(r, 100, Tens(r))
    OBVIOUS
  <1>4. s \in Seq(Nat)
    <2>1. Spells(s, r)
      BY <1>2, <1>3, TensSpell, RestSpells
    <2>2. QED BY <2>1 DEF Spells, Adds, Reading
  <1>5. t = <<d, unit>> \o s
    <2>1. t = Hundreds(n)
      BY <1>1, ShortNumerals
    <2>2. QED BY <1>1, <1>2, <1>3, <2>1 DEF Hundreds
  <1>6. \E i \in DOMAIN t : t[i] \notin PageCharacters
    <2>1. unit \notin PageCharacters
      BY <1>1
    <2>2. QED BY <1>4, <1>5, <2>1, UnitIsNoPage
  <1>7. QED BY <1>1, <1>6

LEMMA ThousandsAreNoPages ==
    ASSUME NEW n \in Nat, 1000 =< n, n < 10000
    PROVE  \E i \in DOMAIN Numeral(n) : Numeral(n)[i] \notin PageCharacters
  <1>1. PICK t, unit : t = Numeral(n) /\ unit = 1000 /\ unit \notin PageCharacters
    BY DEF PageCharacters
  <1>2. PICK d \in Nat, r \in Nat : d = n \div 1000 /\ r = n % 1000 /\ r < 1000
    OBVIOUS
  <1>3. PICK s : s = Rest(r, 1000, Hundreds(r))
    OBVIOUS
  <1>4. s \in Seq(Nat)
    <2>1. Spells(s, r)
      BY <1>2, <1>3, HundredsSpell, RestSpells
    <2>2. QED BY <2>1 DEF Spells, Adds, Reading
  <1>5. t = <<d, unit>> \o s
    <2>1. t = Thousands(n)
      BY <1>1, ShortNumerals
    <2>2. QED BY <1>1, <1>2, <1>3, <2>1 DEF Thousands
  <1>6. \E i \in DOMAIN t : t[i] \notin PageCharacters
    <2>1. unit \notin PageCharacters
      BY <1>1
    <2>2. QED BY <1>4, <1>5, <2>1, UnitIsNoPage
  <1>7. QED BY <1>1, <1>6

LEMMA MyriadsAreNoPages ==
    ASSUME NEW n \in Nat, 10000 =< n, n < 100000000
    PROVE  \E i \in DOMAIN Numeral(n) : Numeral(n)[i] \notin PageCharacters
  <1>1. PICK t, unit : t = Numeral(n) /\ unit = 10000 /\ unit \notin PageCharacters
    BY DEF PageCharacters
  <1>2. PICK h \in Nat, r \in Nat : /\ h = n \div 10000 /\ r = n % 10000
                                   /\ h < 10000 /\ r < 10000
    OBVIOUS
  <1>3. PICK first, last : first = Section(h) /\ last = Rest(r, 10000, Thousands(r))
    OBVIOUS
  <1>4. first \in Seq(Nat) /\ last \in Seq(Nat)
    <2>1. Spells(first, h) /\ Spells(last, r)
      BY <1>2, <1>3, SectionSpells, ThousandsSpell, RestSpells
    <2>2. QED BY <2>1 DEF Spells, Adds, Reading
  <1>5. t = first \o <<unit>> \o last
    BY <1>1, <1>2, <1>3 DEF Numeral
  <1>6. unit \in Nat
    BY <1>1
  <1>7. PICK i : i = Len(first) + 1
    OBVIOUS
  <1>8. i \in DOMAIN t /\ t[i] = unit
    BY <1>4, <1>5, <1>6, <1>7
  <1>9. QED BY <1>1, <1>8

LEMMA OthersAreNoPages ==
    ASSUME NEW n \in Nat, 100 =< n, n < 100000000
    PROVE  \E i \in DOMAIN Numeral(n) : Numeral(n)[i] \notin PageCharacters
  BY HundredsAreNoPages, ThousandsAreNoPages, MyriadsAreNoPages

(* The pages that are read are those that are meant, or none (_pdf_page_hint). *)
LEMMA PageIsNamed ==
    ASSUME NEW ask, PageIsMeant(ask), ask.means # 0
    PROVE  PdfPageHint(ask) \in {NoPage, [kind |-> ask.kind, page |-> ask.means]}
  <1>1. CASE ask.kind = "none"
    BY <1>1 DEF PdfPageHint
  <1>2. CASE ask.kind # "none"
    <2>1. PICK n \in Nat \ {0} : n = ask.means /\ n < 100000000
                                 /\ ask.numeral \in {Arabic(n), Chinese(Numeral(n))}
      BY <1>2 DEF PageIsMeant, Writes
    <2>2. CASE ask.numeral = Arabic(n)
      <3>1. ChinesePageNumber(ask.numeral) = n
        BY <2>1, <2>2 DEF Arabic, ChinesePageNumber
      <3>2. QED BY <2>1, <3>1 DEF PdfPageHint
    <2>3. CASE ask.numeral = Chinese(Numeral(n))
      <3>1. ask.numeral.chinese = Numeral(n)
        BY <2>3 DEF Chinese
      <3>2. CASE n \in 1..9
        <4>1. Numeral(n) = <<n>>
          <5>1. n \notin 10..19 /\ n < 100 /\ n < 10
            BY <3>2
          <5>2. Numeral(n) = Tens(n)
            BY <5>1, ShortNumerals
          <5>3. QED BY <5>1, <5>2 DEF Tens
        <4>2. ~Contains(<<n>>, 10) /\ Digit(<<n>>, 0) = n
          BY <3>2 DEF Contains, Digit
        <4>3. ~(ask.numeral.arabic >= 0)
          BY <2>3 DEF Chinese
        <4>4. ChinesePageNumber(ask.numeral) = n
          BY <3>1, <4>1, <4>2, <4>3 DEF ChinesePageNumber
        <4>5. QED BY <2>1, <4>4 DEF PdfPageHint
      <3>3. CASE n \in 10..99
        <4>1. ChinesePageNumber(ask.numeral) = n
          BY <2>3, <3>3, TensNumberPages
        <4>2. QED BY <2>1, <4>1 DEF PdfPageHint
      <3>4. CASE 100 =< n
        <4>1. \E i \in DOMAIN Numeral(n) : Numeral(n)[i] \notin PageCharacters
          BY <2>1, <3>4, OthersAreNoPages
        <4>2. QED BY <3>1, <4>1 DEF PdfPageHint
      <3>5. QED BY <3>2, <3>3, <3>4
    <2>4. QED BY <2>1, <2>2, <2>3
  <1>3. QED BY <1>1, <1>2

(* Reading a resource keeps the pages that were asked of it. *)
LEMMA PagesAreKept ==
    ASSUME NEW world \in [Resources -> RemoteType], NEW ref \in KnownRefType,
           ref.type \in ReadableTypes
    PROVE  ReadResource(world, ref).ref.page = ref.page
  <1>1. CASE ReadResource(world, ref) = Failed(ref)
    BY <1>1, FailedIsFailure
  <1>2. ASSUME NEW r \in KnownRefType, r.type \in ReadableTypes, r.page = ref.page,
               ReadResource(world, ref) =
                   CASE r.type = "doc" -> ReadDoc(world[r.id], r)
                     [] r.type = "sheet" -> ReadSheet(world[r.id], r)
                     [] r.type = "bitable" -> ReadBitable(world[r.id], r)
                     [] r.type = "web" -> ReadWeb(world[r.id], r)
        PROVE  ReadResource(world, ref).ref.page = ref.page
    <2> DEFINE remote == world[r.id]
    <2>1. PICK result : result = ReadResource(world, ref)
      OBVIOUS
    <2>2. CASE result = Failed(r)
      BY <1>2, <2>1, <2>2, FailedIsFailure
    <2>3. CASE result # Failed(r)
      <3>1. CASE r.type = "doc"
        <4>1. result = ReadDoc(remote, r)
          BY <1>2, <2>1, <3>1
        <4>2. result.ref = r
          BY <2>3, <4>1 DEF ReadDoc, Result
        <4>3. QED BY <1>2, <2>1, <4>2
      <3>2. CASE r.type = "web"
        <4>1. result = ReadWeb(remote, r)
          BY <1>2, <2>1, <3>2
        <4>2. result.ref = r
          BY <2>3, <4>1 DEF ReadWeb, Result
        <4>3. QED BY <1>2, <2>1, <4>2
      <3>3. CASE r.type = "sheet"
        <4>1. result = ReadSheet(remote, r)
          BY <1>2, <2>1, <3>3
        <4>2. PICK id, row : result = [Result([r EXCEPT !.sheet = id]) EXCEPT !.append = row]
          BY <2>3, <4>1 DEF ReadSheet
        <4>3. result.ref = [r EXCEPT !.sheet = id]
          BY <4>2 DEF Result
        <4>4. result.ref.page = r.page
          BY <4>3 DEF KnownRefType, RefType
        <4>5. QED BY <1>2, <2>1, <4>4
      <3>4. CASE r.type = "bitable"
        <4>1. result = ReadBitable(remote, r)
          BY <1>2, <2>1, <3>4
        <4>2. PICK id, read : result = [Result([r EXCEPT !.table = id]) EXCEPT !.table = read]
          BY <2>3, <4>1 DEF ReadBitable
        <4>3. result.ref = [r EXCEPT !.table = id]
          BY <4>2 DEF Result
        <4>4. result.ref.page = r.page
          BY <4>3 DEF KnownRefType, RefType
        <4>5. QED BY <1>2, <2>1, <4>4
      <3>5. QED BY <1>2, <3>1, <3>2, <3>3, <3>4 DEF ReadableTypes
    <2>4. QED BY <2>2, <2>3
  <1>3. QED BY <1>1, <1>2, ResourceIsResolved

Asked(text) == {NoPage, PdfPageHint(text.page)}

(* A request keeps its words, and no other pages are asked than these name. *)
PagesInv ==
    /\ \E family \in Requests : \E r \in family :
          r.text = request.text /\ r.messages = request.messages
    /\ \A i \in DOMAIN request.refs : request.refs[i].page \in Asked(request.text)
    /\ \A i \in DOMAIN request.results : request.results[i].ref.page \in Asked(request.text)

LEMMA SettledPages ==
    ASSUME request \in RequestType, PagesInv, NEW refs \in Seq(KnownRefType),
           \A i \in DOMAIN refs : refs[i].page = NoPage, NEW status,
           \A i \in DOMAIN status : status[i].ref.page = NoPage, Settle(refs, status)
    PROVE  PagesInv'
  <1>1. PICK page : page = PdfPageHint(request.text.page)
    OBVIOUS
  <1>2. PICK hinted : hinted = WithPdfPageHint(refs)
    OBVIOUS
  <1>3. request' = [request EXCEPT !.refs = hinted, !.results = status]
    BY <1>2 DEF Settle
  <1>4. /\ request'.refs = hinted /\ request'.results = status
        /\ request'.text = request.text /\ request'.messages = request.messages
    BY <1>3 DEF RequestType
  <1>5. \A i \in DOMAIN hinted : hinted[i].page \in {NoPage, page}
    <2> SUFFICES ASSUME NEW i \in DOMAIN hinted PROVE hinted[i].page \in {NoPage, page}
      OBVIOUS
    <2>1. /\ i \in DOMAIN refs
          /\ hinted[i] = IF refs[i].type = "doc" /\ page # NoPage
                         THEN [refs[i] EXCEPT !.page = page] ELSE refs[i]
      BY <1>1, <1>2 DEF WithPdfPageHint
    <2>2. refs[i] \in RefType /\ refs[i].page = NoPage
      BY <2>1 DEF KnownRefType
    <2>3. PICK ref : ref = refs[i]
      OBVIOUS
    <2>4. [ref EXCEPT !.page = page].page = page
      BY <2>2, <2>3 DEF RefType
    <2>5. QED BY <2>1, <2>2, <2>3, <2>4
  <1>6. QED BY <1>1, <1>4, <1>5 DEF PagesInv, Asked

(* The words a request is read by name no page in a link. *)
LEMMA LinksNameNoPage ==
    ASSUME request \in RequestType, PagesInv
    PROVE  \A i \in DOMAIN LinksOf(SearchText) : LinksOf(SearchText)[i].page = NoPage
  <1> DEFINE Unpaged(text) == \A i \in DOMAIN text.urls : text.urls[i].page = NoPage
             earlier == {i \in DOMAIN request.messages :
                            request.messages[i].own
                            /\ HasWritebackIntent(request.messages[i].text)}
             MessageType == [text : TextType, own : BOOLEAN]
  <1>1. /\ Unpaged(request.text)
        /\ \A i \in DOMAIN request.messages : Unpaged(request.messages[i].text)
    BY MeansAssumption DEF PagesInv
  <1>2. request.text \in TextType /\ request.messages \in Seq(MessageType)
    BY DEF RequestType
  <1>3. CASE SearchText = request.text
    BY <1>1, <1>3 DEF LinksOf
  <1>4. CASE earlier # {} /\ SearchText = Merge(request.messages[Max(earlier)].text, request.text)
    <2>1. PICK messages \in Seq(MessageType) : messages = request.messages
      BY <1>2
    <2>2. earlier \subseteq 1..Len(messages) /\ Len(messages) \in Nat
      BY <2>1
    <2>3. earlier \in SUBSET Nat /\ \A i \in earlier : i =< Len(messages)
      BY <2>2
    <2> HIDE DEF earlier, MessageType
    <2>4. PICK last : last = Max(earlier) /\ last \in 1..Len(messages)
      BY <1>4, <2>2, <2>3, MaxOf
    <2>5. messages[last] \in MessageType
      BY <2>4
    <2>6. PICK first \in TextType : first = messages[last].text
      BY <2>5 DEF MessageType
    <2>7. PICK a \in Seq(LinkedRefType), b \in Seq(LinkedRefType) :
              a = first.urls /\ b = request.text.urls
      BY <1>2 DEF TextType
    <2>8. LinksOf(SearchText) = a \o b
      <3>1. SearchText = Merge(first, request.text)
        BY <1>4, <2>1, <2>4, <2>6
      <3>2. Merge(first, request.text).urls = first.urls \o request.text.urls
        BY DEF Merge, TextType
      <3>3. QED BY <2>7, <3>1, <3>2 DEF LinksOf
    <2>9. /\ \A i \in DOMAIN a : a[i].page = NoPage
          /\ \A i \in DOMAIN b : b[i].page = NoPage
      <3>1. Unpaged(first)
        BY <1>1, <2>1, <2>4, <2>6
      <3>2. QED BY <1>1, <2>7, <3>1
    <2>10. \A i \in DOMAIN (a \o b) : \/ i \in DOMAIN a /\ (a \o b)[i] = a[i]
                                      \/ i - Len(a) \in DOMAIN b /\ (a \o b)[i] = b[i - Len(a)]
      OBVIOUS
    <2>11. QED BY <2>8, <2>9, <2>10
  <1>5. QED BY <1>3, <1>4 DEF SearchText, ContextualWritebackText

LEMMA PagesOK == TurnInv /\ PagesInv /\ [Next]_vars => PagesInv'
  <1> SUFFICES ASSUME TurnInv, PagesInv, [Next]_vars PROVE PagesInv'
    OBVIOUS
  <1>1. request \in RequestType
    BY DEF TurnInv, TypesInv
  <1>2. ASSUME request' = request PROVE PagesInv'
    BY <1>2 DEF PagesInv
  <1>3. /\ <<>> \in Seq(KnownRefType) /\ DOMAIN <<>> = {}
        /\ \A i \in DOMAIN StatusResults : StatusResults[i].ref.page = NoPage
    <2>1. PICK status : status = SearchStatus
      OBVIOUS
    <2>2. status.ref.page = NoPage
      <3>1. PICK ref : ref = [NoRef EXCEPT !.id = "search", !.type = "unknown", !.kind = "search"]
        OBVIOUS
      <3>2. ref.page = NoPage
        BY <3>1 DEF NoRef
      <3>3. status.ref = ref
        BY <2>1, <3>1, FailedIsFailure DEF SearchStatus
      <3>4. QED BY <3>2, <3>3
    <2>3. StatusResults = <<status>> \/ StatusResults = <<status, status>>
      BY <2>1 DEF StatusResults
    <2>4. QED BY <2>2, <2>3
  <1>4. CASE TakeLinks
    <2>1. PICK urls \in Seq(LinkedRefType) : urls = LinksOf(SearchText)
      BY <1>1, TextsAreTyped DEF TextType, LinksOf, SearchText
    <2>2. Settle(urls, <<>>) /\ urls \in Seq(KnownRefType)
      BY <1>4, <2>1, RefSets DEF TakeLinks
    <2>3. \A i \in DOMAIN urls : urls[i].page = NoPage
      BY <1>1, <2>1, LinksNameNoPage
    <2>4. QED BY <1>1, <1>3, <2>2, <2>3, SettledPages
  <1>5. CASE PlanSearch
    <2>1. request' = request \/ Settle(<<>>, <<>>)
      BY <1>5 DEF PlanSearch
    <2>2. QED BY <1>1, <1>2, <1>3, <2>1, SettledPages
  <1>6. CASE SearchQuery
    <2> DEFINE limit == Min({SearchLimit, found.limit - Len(found.refs)})
               hits == Search(Indexes[request.index], Head(todo), limit)
               taken == TakeHits(found.refs, hits, found.limit)
    <2>1. request.index \in DOMAIN Indexes /\ found.refs \in Seq(FreshHits)
      BY <1>1, <1>6 DEF TurnInv, SourceInv, RequestType, SearchQuery
    <2>2. hits \in Seq(FreshHits)
      BY <2>1, SearchFindsHits
    <2>3. taken \in Seq(FreshHits)
      <3> HIDE DEF hits
      <3> QED BY <2>1, <2>2, TakenHits
    <2>4. request' = request \/ \E status \in {<<>>, StatusResults} : Settle(taken, status)
      <3> HIDE DEF hits, limit
      <3> QED BY <1>6 DEF SearchQuery, hits, limit
    <2> HIDE DEF taken
    <2>5. taken \in Seq(KnownRefType) /\ \A i \in DOMAIN taken : taken[i].page = NoPage
      BY <2>3 DEF FreshHits, Hits
    <2>6. QED BY <1>1, <1>2, <1>3, <2>4, <2>5, SettledPages
  <1>7. CASE SearchFails
    <2>1. Settle(<<>>, StatusResults)
      BY <1>7 DEF SearchFails
    <2>2. QED BY <1>1, <1>3, <2>1, SettledPages
  <1>8. CASE Read
    <2>1. PICK old \in Seq(ResultType), new \in Seq(ResultType) :
              old = request.results /\ new = ReadResources
      BY <1>1, ResourcesAreRead DEF RequestType
    <2>2. PICK results : results = old \o new
      OBVIOUS
    <2>3. request' = [request EXCEPT !.results = results]
      BY <1>8, <2>1, <2>2 DEF Read
    <2>4. /\ request'.results = results /\ request'.refs = request.refs
          /\ request'.text = request.text /\ request'.messages = request.messages
      BY <1>1, <2>3 DEF RequestType
    <2>5. \A i \in DOMAIN new : new[i].ref.page \in Asked(request.text)
      <3> SUFFICES ASSUME NEW i \in DOMAIN new PROVE new[i].ref.page \in Asked(request.text)
        OBVIOUS
      <3>1. PICK j \in DOMAIN request.refs :
                /\ Worlds[request.world] \in [Resources -> RemoteType]
                /\ request.refs[j] \in KnownRefType /\ request.refs[j].type \in ReadableTypes
                /\ new[i] = ReadResource(Worlds[request.world], request.refs[j])
        BY <1>1, <2>1, ReadOnesAreNamed
      <3>2. new[i].ref.page = request.refs[j].page
        BY <3>1, PagesAreKept
      <3>3. QED BY <3>2 DEF PagesInv
    <2>6. \A i \in DOMAIN results : \/ i \in DOMAIN old /\ results[i] = old[i]
                                    \/ i - Len(old) \in DOMAIN new
                                       /\ results[i] = new[i - Len(old)]
      BY <2>2
    <2>7. \A i \in DOMAIN results : results[i].ref.page \in Asked(request.text)
      BY <2>1, <2>5, <2>6 DEF PagesInv
    <2>8. QED BY <2>4, <2>7 DEF PagesInv
  <1>9. CASE Generate
    BY <1>2, <1>9 DEF Generate
  <1>10. CASE UNCHANGED vars
    BY <1>2, <1>10 DEF vars
  <1>11. QED BY <1>4, <1>5, <1>6, <1>7, <1>8, <1>9, <1>10 DEF Next

(* Whatever is found and read, only the pages the request asks for are asked of it. *)
THEOREM PagesInvariant == Spec => []PagesInv
  <1>1. Init => PagesInv
    <2> SUFFICES ASSUME Init PROVE PagesInv
      OBVIOUS
    <2>1. PICK family \in Requests : request \in family
      BY DEF Init
    <2>2. request.refs = <<>> /\ request.results = <<>>
      BY <2>1, RequestsAssumption
    <2>3. QED BY <2>1, <2>2 DEF PagesInv
  <1>2. QED BY <1>1, TurnInvariant, PagesOK, PTL DEF Spec

(* What the code sees of the user's words is followed, whatever the model planned or
   answered: where the message names a cell in front of its first link, in letters or
   numerals, that cell is written; where it asks for pages in one of the two forms
   that are seen, no others are read; its quotation is what is written, and what is
   taken from an answer instead is one clean block of it.  Nothing is said of a cell
   that stands elsewhere or in other words.
   (_normalize_sheet_write_target, _pdf_page_hint, _force_proposal_content,
   _model_generated_writeback_content.) *)
THEOREM WordsFollowed == Spec => []WordsAreFollowed
  <1>1. TurnInv /\ PagesInv /\ NamedCellIsWritten => NamedPlaceIsUsed
    <2> SUFFICES ASSUME TurnInv, PagesInv, NamedCellIsWritten PROVE NamedPlaceIsUsed
      OBVIOUS
    <2>1. request.text \in TextType
      BY TextsAreTyped DEF TurnInv, TypesInv
    <2>2. PlaceIsMeant(request.text.place) /\ PageIsMeant(request.text.page)
      BY MeansAssumption DEF PagesInv
    <2>3. ASSUME NEW p \in Made, p.type = "sheet_write", IsSeen(request.text.place),
                 request.text.place.means # <<0, 0>>
          PROVE  <<p.cell.row, ColumnOf(p.cell.column)>> = request.text.place.means
      <3>1. PICK place : place = request.text.place
        OBVIOUS
      <3>2. place.means \in Nat \X Nat
        <4>1. place \in PlaceType
          BY <2>1, <3>1 DEF TextType
        <4>2. QED BY <4>1 DEF PlaceType
      <3>3. PICK cell : /\ cell = SheetRangeFromText(place) /\ cell # NoCell
                        /\ <<cell.row, ColumnOf(cell.column)>> = place.means
        BY <2>2, <2>3, <3>1, <3>2, PlaceIsNamed
      <3>4. p.cell = cell
        BY <2>3, <3>1, <3>3 DEF NamedCellIsWritten
      <3>5. QED BY <3>1, <3>3, <3>4
    <2>4. ASSUME NEW i \in DOMAIN request.results, request.text.page.means # 0,
                 request.results[i].ref.page # NoPage
          PROVE  request.results[i].ref.page = [kind |-> request.text.page.kind,
                                                page |-> request.text.page.means]
      <3>1. request.results[i].ref.page = PdfPageHint(request.text.page)
        BY <2>4 DEF PagesInv, Asked
      <3>2. QED BY <2>2, <2>4, <3>1, PageIsNamed
    <2>5. QED BY <2>3, <2>4 DEF NamedPlaceIsUsed
  <1>2. QED BY <1>1, TurnInvariant, PagesInvariant, NamedCellsAreWritten,
               QuotationsAreWritten, AnswersAreCutOut, PTL DEF WordsAreFollowed
===============================================================================
