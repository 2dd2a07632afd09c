----------------------- MODULE WriteExecutionProofs -----------------------
(* What an execution and its undo leave behind, proved for every set of actions,
   every text, every sheet and any number of other editors.

   The inductive invariant says of each action where it stands.  Its blocks are in
   the document only once it was carried out.  What it returned is what was made of
   its text, or what its cells showed.  An undo under way has an opening of that text
   left to delete, and nothing beyond that opening is in the document any more. *)
EXTENDS WriteExecution, SequenceTheorems, WellFoundedInduction, TLAPS

Shape ==
    /\ DOMAIN run = Jobs /\ DOMAIN undo = Jobs
    /\ \A j \in Jobs : /\ DOMAIN run[j] = {"phase", "result", "before"}
                       /\ DOMAIN undo[j] = {"phase", "left", "attempts"}
    /\ DOMAIN others = {"count", "removed"}

InDoc(b) == b \in ToSet(doc)

(* Other people's blocks are numbered as they come. *)
Numbered == \A i \in DOMAIN doc : doc[i][1] = "they" => doc[i][2] =< others.count

(* The blocks of an action come from its append, its record from its creation. *)
Appended(j) ==
    (\E i \in 1..JobBlocks[j] : InDoc(Block(j, i)))
        => JobType[j] = "doc_append" /\ run[j].phase \notin {"proposed", "todo"}

Made(j) == j \in DOMAIN table => JobType[j] = "bitable_create"

SnapshotHolds(j) ==
    /\ run[j].result \in Seq(Seq(Values))
    /\ DOMAIN run[j].before = WrittenCells(JobValues[j])
    /\ \A c \in DOMAIN run[j].before :
          /\ c \in WrittenCells(run[j].result)
          /\ run[j].result[c[1]][c[2]] = Rendered[run[j].before[c]]

ReturnOK(j) ==
    /\ JobType[j] = "doc_append" /\ run[j].result # <<>>
          => run[j].result = Blocks(j) /\ run[j].phase = "done"
    /\ JobType[j] = "sheet_write" /\ run[j].phase \in {"read", "done"} => SnapshotHolds(j)

(* What the undo of an action still has to do. *)
LeftOK(j) ==
    /\ JobType[j] = "doc_append" =>
          LET n == Len(undo[j].left)
          IN /\ undo[j].left = [i \in 1..n |-> Block(j, n + 1 - i)]
             /\ n \in 1..JobBlocks[j]
             /\ \A i \in (n + 1)..JobBlocks[j] : ~InDoc(Block(j, i))
    /\ JobType[j] = "bitable_create" => undo[j].left = <<j>>
    /\ JobType[j] = "sheet_write" => undo[j].left = <<run[j].result>>

UndoOK(j) ==
    /\ undo[j].phase \in {"calls", "done"} => Undoable(j)
    /\ undo[j].phase = "calls" => LeftOK(j)
    /\ undo[j].phase = "done" => /\ \A i \in 1..JobBlocks[j] : ~InDoc(Block(j, i))
                                 /\ j \notin DOMAIN table

Opening(j) ==
    \A i \in 2..JobBlocks[j] :
        InDoc(Block(j, i)) => InDoc(Block(j, i - 1)) \/ Block(j, i - 1) \in others.removed

JobOK(j) == Appended(j) /\ Made(j) /\ ReturnOK(j) /\ UndoOK(j) /\ Opening(j)

IInv == ExecutionTypeOK /\ Shape /\ Numbered /\ \A j \in Jobs : JobOK(j)

-----------------------------------------------------------------------------
(* Numbers and widths                                                       *)

LEMMA LeastOf ==
    ASSUME NEW T \in SUBSET Nat, T # {}
    PROVE  \E n \in T : \A m \in T : n =< m
  <1>1. PICK n \in T : \A m \in T : ~(<<m, n>> \in OpToRel(<, Nat))
    BY NatLessThanWellFounded, WFMin
  <1>2. ASSUME NEW m \in T PROVE n =< m
    <2>1. m \in Nat /\ n \in Nat
      OBVIOUS
    <2>2. ~(m < n)
      BY <1>1, <2>1 DEF OpToRel
    <2>3. QED BY <2>1, <2>2
  <1>3. QED BY <1>2

(* The rows of a write are at most so long. *)
LEMMA RowsAreBounded ==
    ASSUME NEW values \in Seq(Seq(Values))
    PROVE  \E u \in Nat : \A i \in DOMAIN values : Len(values[i]) =< u
  <1> DEFINE Unbounded == {n \in 0..Len(values) :
                             \A u \in Nat : \E i \in 1..n : ~(Len(values[i]) =< u)}
  <1>1. Len(values) \in Nat /\ DOMAIN values = 1..Len(values)
    OBVIOUS
  <1>2. \A i \in DOMAIN values : Len(values[i]) \in Nat
    OBVIOUS
  <1>3. SUFFICES ASSUME Unbounded # {} PROVE FALSE
    <2>1. Len(values) \notin Unbounded
      BY <1>3, Zenon
    <2>2. PICK u \in Nat : \A i \in 1..Len(values) : Len(values[i]) =< u
      BY <1>1, <2>1
    <2>3. QED BY <1>1, <2>2
  <1>4. PICK n \in Unbounded : \A m \in Unbounded : n =< m
    <2>1. Unbounded \in SUBSET Nat
      BY <1>1
    <2> HIDE DEF Unbounded
    <2>2. QED BY <1>3, <2>1, LeastOf
  <1>5. n # 0
    BY <1>4
  <1>6. n \in 1..Len(values) /\ n - 1 \in 0..Len(values)
    BY <1>1, <1>4, <1>5
  <1>7. n - 1 \notin Unbounded
    <2>1. ~(n =< n - 1)
      BY <1>6
    <2>2. QED BY <1>4, <2>1, Zenon
  <1>8. PICK u \in Nat : \A i \in 1..(n - 1) : Len(values[i]) =< u
    BY <1>6, <1>7
  <1>9. PICK w \in Nat : w >= u /\ w >= Len(values[n])
    <2>1. PICK v \in Nat : v = Len(values[n])
      BY <1>1, <1>2, <1>6
    <2>2. \A x, y \in Nat : x + y \in Nat /\ x + y >= x /\ x + y >= y
      OBVIOUS
    <2>3. u + v \in Nat /\ u + v >= u /\ u + v >= v
      BY <1>8, <2>1, <2>2
    <2>4. QED BY <2>1, <2>3
  <1>10. \A i \in 1..n : Len(values[i]) =< w
    <2>1. ASSUME NEW i \in 1..n PROVE Len(values[i]) =< w
      <3>1. i \in DOMAIN values /\ Len(values[i]) \in Nat
        BY <1>1, <1>2, <1>6
      <3>2. CASE i = n
        BY <3>2, <1>9
      <3>3. CASE i # n
        <4>1. i \in 1..(n - 1)
          BY <3>3, <1>6
        <4>2. QED BY <4>1, <3>1, <1>8, <1>9
      <3>4. QED BY <3>2, <3>3
    <2>2. QED BY <2>1
  <1>11. QED BY <1>4, <1>10

LEMMA WidthIsEnough ==
    ASSUME NEW values \in Seq(Seq(Values))
    PROVE  /\ Width(values) \in Nat
           /\ \A i \in DOMAIN values : Len(values[i]) =< Width(values)
  <1> DEFINE Lengths == {0} \cup {Len(values[i]) : i \in DOMAIN values}
             Enough == {u \in Nat : \A i \in DOMAIN values : Len(values[i]) =< u}
  <1>1. \A i \in DOMAIN values : Len(values[i]) \in Nat
    OBVIOUS
  <1>2. Enough # {}
    BY RowsAreBounded
  <1>3. PICK u \in Enough : \A w \in Enough : u =< w
    <2>1. Enough \in SUBSET Nat
      OBVIOUS
    <2> HIDE DEF Enough
    <2>2. QED BY <1>2, <2>1, LeastOf
  <1>4. \A y \in Lengths : u >= y
    BY <1>1, <1>3
  <1>5. u \in Lengths
    <2>1. CASE u = 0
      BY <2>1
    <2>2. CASE u # 0
      <3>1. u \in Nat /\ u - 1 \in Nat /\ ~(u =< u - 1)
        BY <2>2
      <3>2. u - 1 \notin Enough
        BY <1>3, <3>1, Zenon
      <3>3. PICK i \in DOMAIN values : ~(Len(values[i]) =< u - 1)
        BY <3>1, <3>2
      <3>4. Len(values[i]) = u
        BY <1>1, <1>3, <3>1, <3>3
      <3>5. QED BY <3>3, <3>4
    <2>3. QED BY <2>1, <2>2
  <1>6. Max(Lengths) \in Lengths /\ \A y \in Lengths : Max(Lengths) >= y
    <2> HIDE DEF Lengths, Enough
    <2>1. QED BY <1>4, <1>5 DEF Max
  <1>7. Width(values) = Max(Lengths)
    BY DEF Width
  <1>8. \A y \in Lengths : y \in Nat
    BY <1>1
  <1> HIDE DEF Enough
  <1>9. QED BY <1>1, <1>6, <1>7, <1>8

-----------------------------------------------------------------------------
(* Sequences of blocks                                                      *)

LEMMA RemovedAt ==
    ASSUME NEW S, NEW d \in Seq(S), NEW i \in DOMAIN d
    PROVE  /\ RemoveAt(d, i) \in Seq(S)
           /\ Len(RemoveAt(d, i)) = Len(d) - 1
           /\ \A k \in 1..(Len(d) - 1) :
                 RemoveAt(d, i)[k] = IF k < i THEN d[k] ELSE d[k + 1]
  <1> DEFINE a == SubSeq(d, 1, i - 1)
             b == SubSeq(d, i + 1, Len(d))
  <1>0. i \in 1..Len(d) /\ Len(d) \in Nat
    OBVIOUS
  <1>1. a \in Seq(S) /\ Len(a) = i - 1 /\ \A k \in 1..(i - 1) : a[k] = d[k]
    BY <1>0
  <1>2. b \in Seq(S) /\ Len(b) = Len(d) - i /\ \A k \in 1..(Len(d) - i) : b[k] = d[k + i]
    BY <1>0
  <1>3. RemoveAt(d, i) = a \o b
    BY DEF RemoveAt
  <1> HIDE DEF a, b
  <1>4. a \o b \in Seq(S)
    BY <1>1, <1>2
  <1>5. Len(a \o b) = Len(a) + Len(b)
    BY <1>1, <1>2, ConcatProperties
  <1>6. ASSUME NEW k \in 1..(Len(d) - 1)
        PROVE  (a \o b)[k] = IF k < i THEN d[k] ELSE d[k + 1]
    <2>1. CASE k < i
      BY <1>0, <1>1, <1>2, <2>1
    <2>2. CASE ~(k < i)
      <3>1. (a \o b)[k] = b[k - (i - 1)]
        BY <1>0, <1>1, <1>2, <2>2
      <3>2. k - (i - 1) \in 1..(Len(d) - i)
        BY <1>0, <2>2
      <3>3. QED BY <1>0, <1>2, <3>1, <3>2, <2>2
    <2>3. QED BY <2>1, <2>2
  <1>7. Len(a \o b) = Len(d) - 1
    BY <1>0, <1>1, <1>2, <1>5
  <1>8. QED BY <1>3, <1>4, <1>6, <1>7

LEMMA InsertedAt ==
    ASSUME NEW S, NEW d \in Seq(S), NEW e \in S, NEW i \in 1..(Len(d) + 1)
    PROVE  /\ InsertAt(d, i, e) \in Seq(S)
           /\ Len(InsertAt(d, i, e)) = Len(d) + 1
           /\ \A k \in 1..(Len(d) + 1) :
                 InsertAt(d, i, e)[k] =
                    IF k < i THEN d[k] ELSE IF k = i THEN e ELSE d[k - 1]
  <1> DEFINE a == SubSeq(d, 1, i - 1)
             b == SubSeq(d, i, Len(d))
  <1>0. Len(d) \in Nat
    OBVIOUS
  <1>1. a \in Seq(S) /\ Len(a) = i - 1 /\ \A k \in 1..(i - 1) : a[k] = d[k]
    OBVIOUS
  <1>2. /\ b \in Seq(S) /\ Len(b) = Len(d) - i + 1
        /\ \A k \in 1..(Len(d) - i + 1) : b[k] = d[k + i - 1]
    OBVIOUS
  <1>3. InsertAt(d, i, e) = a \o <<e>> \o b
    BY DEF InsertAt
  <1> HIDE DEF a, b
  <1>4. PICK c : c = a \o <<e>>
    OBVIOUS
  <1>5. c \in Seq(S) /\ Len(c) = i /\ c[i] = e /\ \A k \in 1..(i - 1) : c[k] = d[k]
    BY <1>1, <1>4
  <1>6. c \o b \in Seq(S)
    BY <1>2, <1>5
  <1>7. Len(c \o b) = Len(c) + Len(b)
    BY <1>2, <1>5, ConcatProperties
  <1>8. ASSUME NEW k \in 1..(Len(d) + 1)
        PROVE  (c \o b)[k] = IF k < i THEN d[k] ELSE IF k = i THEN e ELSE d[k - 1]
    <2>1. CASE k =< i
      BY <1>2, <1>5, <2>1
    <2>2. CASE ~(k =< i)
      <3>1. (c \o b)[k] = b[k - i]
        BY <1>2, <1>5, <2>2
      <3>2. k - i \in 1..(Len(d) - i + 1)
        BY <1>0, <2>2
      <3>3. QED BY <1>0, <1>2, <3>1, <3>2, <2>2
    <2>3. QED BY <2>1, <2>2
  <1>9. Len(c \o b) = Len(d) + 1
    BY <1>0, <1>2, <1>5, <1>7
  <1>10. QED BY <1>3, <1>4, <1>6, <1>8, <1>9

(* What a sequence holds after a removal, an insertion, an append. *)
LEMMA RemovalKeeps ==
    ASSUME NEW S, NEW d \in Seq(S), IsInjective(d), NEW i \in DOMAIN d
    PROVE  LET e == RemoveAt(d, i)
           IN /\ e \in Seq(S) /\ IsInjective(e)
              /\ ToSet(e) = ToSet(d) \ {d[i]}
  <1>1. PICK e : e = RemoveAt(d, i)
    OBVIOUS
  <1>2. /\ e \in Seq(S) /\ Len(e) = Len(d) - 1
        /\ \A k \in 1..(Len(d) - 1) : e[k] = IF k < i THEN d[k] ELSE d[k + 1]
    BY <1>1, RemovedAt
  <1>3. DOMAIN d = 1..Len(d) /\ DOMAIN e = 1..(Len(d) - 1) /\ Len(d) \in Nat /\ i \in 1..Len(d)
    BY <1>2
  <1> DEFINE from(k) == IF k < i THEN k ELSE k + 1
  <1>4. ASSUME NEW k \in DOMAIN e
        PROVE  from(k) \in DOMAIN d /\ from(k) # i /\ e[k] = d[from(k)]
    BY <1>2, <1>3
  <1>5. ASSUME NEW a \in DOMAIN e, NEW b \in DOMAIN e, from(a) = from(b) PROVE a = b
    BY <1>3, <1>5
  <1>6. ASSUME NEW a \in DOMAIN e, NEW b \in DOMAIN e, e[a] = e[b] PROVE a = b
    <2> HIDE DEF from
    <2>1. from(a) = from(b)
      BY <1>4, <1>6 DEF IsInjective
    <2>2. QED BY <1>5, <2>1
  <1>7. ASSUME NEW k \in DOMAIN e
        PROVE  e[k] # d[i] /\ \E m \in DOMAIN d : d[m] = e[k]
    <2> HIDE DEF from
    <2>1. QED BY <1>4 DEF IsInjective
  <1>8. ASSUME NEW m \in DOMAIN d, d[m] # d[i] PROVE \E k \in DOMAIN e : e[k] = d[m]
    <2>1. m # i
      BY <1>8
    <2>2. CASE m < i
      <3>1. m \in DOMAIN e /\ e[m] = d[m]
        BY <1>2, <1>3, <2>2
      <3>2. QED BY <3>1
    <2>3. CASE ~(m < i)
      <3>1. m - 1 \in DOMAIN e /\ e[m - 1] = d[m]
        BY <1>2, <1>3, <2>1, <2>3
      <3>2. QED BY <3>1
    <2>4. QED BY <2>2, <2>3
  <1>9. IsInjective(e)
    BY <1>6 DEF IsInjective
  <1>10. ToSet(e) = ToSet(d) \ {d[i]}
    BY <1>7, <1>8 DEF ToSet
  <1>11. QED BY <1>1, <1>2, <1>9, <1>10

LEMMA InsertionKeeps ==
    ASSUME NEW S, NEW d \in Seq(S), IsInjective(d), NEW i \in 1..(Len(d) + 1),
           NEW x \in S, x \notin ToSet(d)
    PROVE  LET e == InsertAt(d, i, x)
           IN /\ e \in Seq(S) /\ IsInjective(e)
              /\ ToSet(e) = ToSet(d) \cup {x}
  <1>1. PICK e : e = InsertAt(d, i, x)
    OBVIOUS
  <1>2. /\ e \in Seq(S) /\ Len(e) = Len(d) + 1
        /\ \A k \in 1..(Len(d) + 1) :
              e[k] = IF k < i THEN d[k] ELSE IF k = i THEN x ELSE d[k - 1]
    BY <1>1, InsertedAt
  <1>3. DOMAIN d = 1..Len(d) /\ DOMAIN e = 1..(Len(d) + 1) /\ Len(d) \in Nat
    BY <1>2
  <1> DEFINE from(k) == IF k < i THEN k ELSE k - 1
  <1>4. ASSUME NEW k \in DOMAIN e, k # i
        PROVE  from(k) \in DOMAIN d /\ e[k] = d[from(k)]
    BY <1>2, <1>3, <1>4
  <1>5. ASSUME NEW a \in DOMAIN e, NEW b \in DOMAIN e, a # i, b # i, from(a) = from(b)
        PROVE  a = b
    BY <1>3, <1>5
  <1>6. i \in DOMAIN e /\ e[i] = x /\ \A m \in DOMAIN d : d[m] # x
    BY <1>2, <1>3 DEF ToSet
  <1>7. ASSUME NEW a \in DOMAIN e, NEW b \in DOMAIN e, e[a] = e[b] PROVE a = b
    <2> HIDE DEF from
    <2>1. CASE a # i /\ b # i
      <3>1. from(a) = from(b)
        BY <1>4, <1>7, <2>1 DEF IsInjective
      <3>2. QED BY <1>5, <2>1, <3>1
    <2>2. CASE a = i \/ b = i
      BY <1>4, <1>6, <1>7, <2>2
    <2>3. QED BY <2>1, <2>2
  <1>8. ASSUME NEW k \in DOMAIN e PROVE e[k] = x \/ \E m \in DOMAIN d : d[m] = e[k]
    <2> HIDE DEF from
    <2>1. QED BY <1>4, <1>6
  <1>9. ASSUME NEW m \in DOMAIN d PROVE \E k \in DOMAIN e : e[k] = d[m]
    <2>1. CASE m < i
      <3>1. m \in DOMAIN e /\ e[m] = d[m]
        BY <1>2, <1>3, <2>1
      <3>2. QED BY <3>1
    <2>2. CASE ~(m < i)
      <3>1. m + 1 \in DOMAIN e /\ e[m + 1] = d[m]
        BY <1>2, <1>3, <2>2
      <3>2. QED BY <3>1
    <2>3. QED BY <2>1, <2>2
  <1>10. IsInjective(e)
    BY <1>7 DEF IsInjective
  <1>11. ToSet(e) = ToSet(d) \cup {x}
    BY <1>6, <1>8, <1>9 DEF ToSet
  <1>12. QED BY <1>1, <1>2, <1>10, <1>11

LEMMA JoiningKeeps ==
    ASSUME NEW S, NEW d \in Seq(S), NEW t \in Seq(S), IsInjective(d), IsInjective(t),
           ToSet(d) \cap ToSet(t) = {}
    PROVE  /\ d \o t \in Seq(S) /\ IsInjective(d \o t)
           /\ ToSet(d \o t) = ToSet(d) \cup ToSet(t)
  <1>0. \A m \in DOMAIN d, k \in DOMAIN t : d[m] # t[k]
    BY DEF ToSet
  <1>1. PICK e : e = d \o t
    OBVIOUS
  <1>2. /\ e \in Seq(S) /\ Len(e) = Len(d) + Len(t)
        /\ \A k \in 1..(Len(d) + Len(t)) :
              e[k] = IF k =< Len(d) THEN d[k] ELSE t[k - Len(d)]
    BY <1>1, ConcatProperties
  <1>3. /\ DOMAIN d = 1..Len(d) /\ DOMAIN t = 1..Len(t) /\ DOMAIN e = 1..(Len(d) + Len(t))
        /\ Len(d) \in Nat /\ Len(t) \in Nat
    BY <1>2
  <1>4. ASSUME NEW k \in DOMAIN e, k =< Len(d)
        PROVE  k \in DOMAIN d /\ e[k] = d[k]
    BY <1>2, <1>3, <1>4
  <1>5. ASSUME NEW k \in DOMAIN e, ~(k =< Len(d))
        PROVE  k - Len(d) \in DOMAIN t /\ e[k] = t[k - Len(d)]
    BY <1>2, <1>3, <1>5
  <1>6. ASSUME NEW a \in DOMAIN e, NEW b \in DOMAIN e, e[a] = e[b] PROVE a = b
    <2>1. CASE a =< Len(d) /\ b =< Len(d)
      BY <1>4, <1>6, <2>1 DEF IsInjective
    <2>2. CASE ~(a =< Len(d)) /\ ~(b =< Len(d))
      <3>1. a - Len(d) = b - Len(d)
        BY <1>5, <1>6, <2>2 DEF IsInjective
      <3>2. QED BY <3>1, <1>3
    <2>3. CASE a =< Len(d) /\ ~(b =< Len(d))
      BY <1>0, <1>4, <1>5, <1>6, <2>3
    <2>4. CASE ~(a =< Len(d)) /\ b =< Len(d)
      BY <1>0, <1>4, <1>5, <1>6, <2>4
    <2>5. QED BY <2>1, <2>2, <2>3, <2>4
  <1>7. ASSUME NEW k \in DOMAIN e
        PROVE  \/ \E m \in DOMAIN d : d[m] = e[k]
               \/ \E m \in DOMAIN t : t[m] = e[k]
    BY <1>4, <1>5
  <1>8. ASSUME NEW m \in DOMAIN d PROVE \E k \in DOMAIN e : e[k] = d[m]
    <2>1. m \in DOMAIN e /\ e[m] = d[m]
      BY <1>2, <1>3
    <2>2. QED BY <2>1
  <1>9. ASSUME NEW m \in DOMAIN t PROVE \E k \in DOMAIN e : e[k] = t[m]
    <2>1. m + Len(d) \in DOMAIN e /\ e[m + Len(d)] = t[m]
      BY <1>2, <1>3
    <2>2. QED BY <2>1
  <1>10. IsInjective(e)
    BY <1>6 DEF IsInjective
  <1>11. ToSet(e) = ToSet(d) \cup ToSet(t)
    BY <1>7, <1>8, <1>9 DEF ToSet
  <1>12. QED BY <1>1, <1>2, <1>10, <1>11

(* Where the blocks of others are moved without changing places, none of their
   order is lost. *)
LEMMA OrderIsKept ==
    ASSUME NEW S, NEW d \in Seq(S), NEW e \in Seq(S), NEW to \in [DOMAIN d -> Int],
           \A i \in DOMAIN d : d[i][1] = "they" => to[i] \in DOMAIN e /\ e[to[i]] = d[i],
           \A i, k \in DOMAIN d : i =< k /\ d[i][1] = "they" /\ d[k][1] = "they"
                                     => to[i] =< to[k]
    PROVE  Theirs(d) \subseteq Theirs(e)
  <1> SUFFICES ASSUME NEW x \in Theirs(d) PROVE x \in Theirs(e)
    OBVIOUS
  <1> DEFINE PlacesOf(b) == {i \in DOMAIN b : b[i][1] = "they"}
  <1>1. PICK p \in {q \in PlacesOf(d) \X PlacesOf(d) : q[1] =< q[2]} : x = <<d[p[1]], d[p[2]]>>
    BY DEF Theirs
  <1>2. PICK i \in PlacesOf(d), k \in PlacesOf(d) : i =< k /\ x = <<d[i], d[k]>>
    BY <1>1
  <1>3. /\ to[i] \in PlacesOf(e) /\ to[k] \in PlacesOf(e) /\ to[i] =< to[k]
        /\ x = <<e[to[i]], e[to[k]]>>
    BY <1>2
  <1>4. <<to[i], to[k]>> \in {q \in PlacesOf(e) \X PlacesOf(e) : q[1] =< q[2]}
    BY <1>3
  <1>5. x = <<e[<<to[i], to[k]>>[1]], e[<<to[i], to[k]>>[2]]>>
    BY <1>3
  <1>6. QED BY <1>4, <1>5 DEF Theirs

LEMMA RemovalKeepsTheirs ==
    ASSUME NEW S, NEW d \in Seq(S), NEW i \in DOMAIN d, d[i][1] # "they"
    PROVE  Theirs(RemoveAt(d, i)) = Theirs(d)
  <1>1. PICK e : e = RemoveAt(d, i)
    OBVIOUS
  <1>2. /\ e \in Seq(S) /\ Len(e) = Len(d) - 1
        /\ \A k \in 1..(Len(d) - 1) : e[k] = IF k < i THEN d[k] ELSE d[k + 1]
    BY <1>1, RemovedAt
  <1>3. DOMAIN d = 1..Len(d) /\ DOMAIN e = 1..(Len(d) - 1) /\ Len(d) \in Nat /\ i \in 1..Len(d)
    BY <1>2
  <1>4. Theirs(d) \subseteq Theirs(e)
    <2>1. PICK to : to = [k \in DOMAIN d |-> IF k < i THEN k ELSE k - 1]
      OBVIOUS
    <2>2. to \in [DOMAIN d -> Int]
      BY <1>3, <2>1
    <2>3. ASSUME NEW k \in DOMAIN d, d[k][1] = "they"
          PROVE  to[k] \in DOMAIN e /\ e[to[k]] = d[k]
      BY <1>2, <1>3, <2>1, <2>3
    <2>4. ASSUME NEW k \in DOMAIN d, NEW m \in DOMAIN d, k =< m PROVE to[k] =< to[m]
      BY <1>3, <2>1, <2>4
    <2>5. QED BY <1>2, <2>2, <2>3, <2>4, OrderIsKept
  <1>5. Theirs(e) \subseteq Theirs(d)
    <2>1. PICK to : to = [k \in DOMAIN e |-> IF k < i THEN k ELSE k + 1]
      OBVIOUS
    <2>2. to \in [DOMAIN e -> Int]
      BY <1>3, <2>1
    <2>3. ASSUME NEW k \in DOMAIN e PROVE to[k] \in DOMAIN d /\ d[to[k]] = e[k]
      BY <1>2, <1>3, <2>1
    <2>4. ASSUME NEW k \in DOMAIN e, NEW m \in DOMAIN e, k =< m PROVE to[k] =< to[m]
      BY <1>3, <2>1, <2>4
    <2>5. QED BY <1>2, <2>2, <2>3, <2>4, OrderIsKept
  <1>6. QED BY <1>1, <1>4, <1>5

LEMMA JoiningKeepsTheirs ==
    ASSUME NEW S, NEW d \in Seq(S), NEW t \in Seq(S), \A k \in DOMAIN t : t[k][1] # "they"
    PROVE  Theirs(d \o t) = Theirs(d) /\ Theirs(t \o d) = Theirs(d)
  <1>1. PICK after, before : after = d \o t /\ before = t \o d
    OBVIOUS
  <1>2. /\ after \in Seq(S) /\ Len(after) = Len(d) + Len(t)
        /\ \A k \in 1..(Len(d) + Len(t)) :
              after[k] = IF k =< Len(d) THEN d[k] ELSE t[k - Len(d)]
        /\ before \in Seq(S) /\ Len(before) = Len(t) + Len(d)
        /\ \A k \in 1..(Len(t) + Len(d)) :
              before[k] = IF k =< Len(t) THEN t[k] ELSE d[k - Len(t)]
    BY <1>1, ConcatProperties
  <1>3. /\ DOMAIN d = 1..Len(d) /\ DOMAIN t = 1..Len(t)
        /\ DOMAIN after = 1..(Len(d) + Len(t)) /\ DOMAIN before = 1..(Len(t) + Len(d))
        /\ Len(d) \in Nat /\ Len(t) \in Nat
    BY <1>2
  <1>4. ASSUME NEW k \in DOMAIN after, after[k][1] = "they" PROVE k =< Len(d)
    <2>1. CASE ~(k =< Len(d))
      <3>1. k - Len(d) \in DOMAIN t /\ after[k] = t[k - Len(d)]
        BY <1>2, <1>3, <2>1
      <3>2. QED BY <1>4, <3>1
    <2>2. QED BY <2>1
  <1>5. ASSUME NEW k \in DOMAIN before, before[k][1] = "they" PROVE ~(k =< Len(t))
    <2>1. CASE k =< Len(t)
      <3>1. k \in DOMAIN t /\ before[k] = t[k]
        BY <1>2, <1>3, <2>1
      <3>2. QED BY <1>5, <3>1
    <2>2. QED BY <2>1
  <1>6. Theirs(d) \subseteq Theirs(after)
    <2>1. PICK to : to = [k \in DOMAIN d |-> k]
      OBVIOUS
    <2>2. to \in [DOMAIN d -> Int]
      BY <1>3, <2>1
    <2>3. ASSUME NEW k \in DOMAIN d, d[k][1] = "they"
          PROVE  to[k] \in DOMAIN after /\ after[to[k]] = d[k]
      BY <1>2, <1>3, <2>1
    <2>4. QED BY <1>2, <2>1, <2>2, <2>3, OrderIsKept
  <1>7. Theirs(after) \subseteq Theirs(d)
    <2>1. PICK to : to = [k \in DOMAIN after |-> k]
      OBVIOUS
    <2>2. to \in [DOMAIN after -> Int]
      BY <1>3, <2>1
    <2>3. ASSUME NEW k \in DOMAIN after, after[k][1] = "they"
          PROVE  to[k] \in DOMAIN d /\ d[to[k]] = after[k]
      BY <1>2, <1>3, <1>4, <2>1, <2>3
    <2>4. QED BY <1>2, <2>1, <2>2, <2>3, OrderIsKept
  <1>8. Theirs(d) \subseteq Theirs(before)
    <2>1. PICK to : to = [k \in DOMAIN d |-> k + Len(t)]
      OBVIOUS
    <2>2. to \in [DOMAIN d -> Int]
      BY <1>3, <2>1
    <2>3. ASSUME NEW k \in DOMAIN d, d[k][1] = "they"
          PROVE  to[k] \in DOMAIN before /\ before[to[k]] = d[k]
      BY <1>2, <1>3, <2>1
    <2>4. ASSUME NEW k \in DOMAIN d, NEW m \in DOMAIN d, k =< m PROVE to[k] =< to[m]
      BY <1>3, <2>1, <2>4
    <2>5. QED BY <1>2, <2>2, <2>3, <2>4, OrderIsKept
  <1>9. Theirs(before) \subseteq Theirs(d)
    <2>1. PICK to : to = [k \in DOMAIN before |-> k - Len(t)]
      OBVIOUS
    <2>2. to \in [DOMAIN before -> Int]
      BY <1>3, <2>1
    <2>3. ASSUME NEW k \in DOMAIN before, before[k][1] = "they"
          PROVE  to[k] \in DOMAIN d /\ d[to[k]] = before[k]
      BY <1>2, <1>3, <1>5, <2>1, <2>3
    <2>4. ASSUME NEW k \in DOMAIN before, NEW m \in DOMAIN before, k =< m
          PROVE  to[k] =< to[m]
      BY <1>3, <2>1, <2>4
    <2>5. QED BY <1>2, <2>2, <2>3, <2>4, OrderIsKept
  <1>10. QED BY <1>1, <1>6, <1>7, <1>8, <1>9

-----------------------------------------------------------------------------
(* The two kinds of steps                                                   *)

(* What an execution changes of its action's state, besides what it writes. *)
LEMMA ExecutionStepKeeps ==
    ASSUME IInv, NEW j \in Jobs,
           run[j].phase \in {"todo", "read", "created"},
           DOMAIN run' = Jobs, \A k \in Jobs \ {j} : run'[k] = run[k],
           DOMAIN run'[j] = {"phase", "result", "before"},
           run'[j].phase \in {"read", "created", "done", "failed"},
           ReturnOK(j)', Opening(j)',
           undo' = undo, others' = others,
           doc' \in Seq(AllBlocks), IsInjective(doc'), Numbered',
           \A k \in Jobs \ {j} : \A i \in 1..JobBlocks[k] :
              InDoc(Block(k, i))' <=> InDoc(Block(k, i)),
           sheet' \in [Cells -> Values],
           \A i \in 1..JobBlocks[j] : InDoc(Block(j, i))' => JobType[j] = "doc_append",
           DOMAIN table' \subseteq DOMAIN table \cup {j}, Made(j)',
           DOMAIN files' \subseteq Jobs
    PROVE  IInv'
  <1>1. undo[j].phase \notin {"calls", "done"}
    BY DEF IInv, JobOK, UndoOK, Undoable
  <1>2. ExecutionTypeOK'
    BY DEF IInv, ExecutionTypeOK
  <1>3. Shape'
    BY DEF IInv, Shape
  <1>4. JobOK(j)'
    <2>1. Appended(j)'
      BY DEF Appended
    <2>2. UndoOK(j)'
      BY <1>1 DEF UndoOK
    <2>3. QED BY <2>1, <2>2 DEF JobOK
  <1>5. ASSUME NEW k \in Jobs, k # j PROVE JobOK(k)'
    <2>1. \A i \in 1..JobBlocks[k] : InDoc(Block(k, i))' <=> InDoc(Block(k, i))
      BY <1>5
    <2>2. run'[k] = run[k] /\ undo'[k] = undo[k] /\ JobOK(k)
      BY <1>5 DEF IInv
    <2>3. Appended(k)'
      BY <2>1, <2>2 DEF JobOK, Appended
    <2>8. Made(k)'
      BY <1>5, <2>2 DEF JobOK, Made
    <2>4. ReturnOK(k)'
      BY <2>2 DEF JobOK, ReturnOK, SnapshotHolds
    <2>5. Opening(k)'
      <3>1. \A i \in 2..JobBlocks[k] : i - 1 \in 1..JobBlocks[k] /\ i \in 1..JobBlocks[k]
        BY JobsAssumption
      <3>2. QED BY <2>1, <2>2, <3>1 DEF JobOK, Opening
    <2>6. UndoOK(k)'
      <3>1. Undoable(k) => Undoable(k)'
        BY <2>2 DEF Undoable
      <3>2. ASSUME undo[k].phase = "calls", LeftOK(k) PROVE LeftOK(k)'
        <4>1. ASSUME JobType[k] = "doc_append"
              PROVE  \A i \in (Len(undo[k].left) + 1)..JobBlocks[k] : i \in 1..JobBlocks[k]
          BY <3>2, <4>1, JobsAssumption DEF LeftOK
        <4>2. QED BY <2>1, <2>2, <3>2, <4>1 DEF LeftOK
      <3>3. QED BY <1>5, <2>1, <2>2, <3>1, <3>2 DEF JobOK, UndoOK
    <2>7. QED BY <2>3, <2>8, <2>4, <2>5, <2>6 DEF JobOK
  <1>6. QED BY <1>2, <1>3, <1>4, <1>5 DEF IInv

(* What a call of an undo changes, besides what it takes back. *)
LEMMA UndoStepKeeps ==
    ASSUME IInv, NEW j \in Jobs,
           run' = run, others' = others, files' = files,
           DOMAIN undo' = Jobs, \A k \in Jobs \ {j} : undo'[k] = undo[k],
           DOMAIN undo'[j] = {"phase", "left", "attempts"},
           undo'[j].phase \in {"none", "calls", "done", "failed"},
           undo'[j].attempts \in 0..MaxAttempts,
           UndoOK(j)', Opening(j)',
           doc' \in Seq(AllBlocks), IsInjective(doc'),
           \A b : InDoc(b)' => InDoc(b),
           \A k \in Jobs \ {j} : \A i \in 1..JobBlocks[k] :
              InDoc(Block(k, i)) => InDoc(Block(k, i))',
           sheet' \in [Cells -> Values], DOMAIN table' \subseteq DOMAIN table
    PROVE  IInv'
  <1>1. ExecutionTypeOK'
    BY DEF IInv, ExecutionTypeOK
  <1>2. Shape'
    BY DEF IInv, Shape
  <1>3. Numbered'
    <2>1. ASSUME NEW i \in DOMAIN doc' PROVE \E m \in DOMAIN doc : doc[m] = doc'[i]
      <3>1. PICK b : b = doc'[i]
        OBVIOUS
      <3>2. InDoc(b)'
        BY <3>1 DEF InDoc, ToSet
      <3>3. InDoc(b)
        BY <3>2
      <3>4. QED BY <3>1, <3>3 DEF InDoc, ToSet
    <2>2. QED BY <2>1 DEF IInv, Numbered
  <1>4. ASSUME NEW k \in Jobs PROVE Appended(k)' /\ Made(k)' /\ ReturnOK(k)'
    <2>1. JobOK(k)
      BY DEF IInv
    <2>2. Appended(k)'
      BY <2>1 DEF JobOK, Appended
    <2>8. Made(k)'
      BY <2>1 DEF JobOK, Made
    <2>3. ReturnOK(k)'
      BY <2>1 DEF JobOK, ReturnOK, SnapshotHolds
    <2>4. QED BY <2>2, <2>8, <2>3
  <1>5. ASSUME NEW k \in Jobs, k # j PROVE Opening(k)' /\ UndoOK(k)'
    <2>1. \A i \in 1..JobBlocks[k] : InDoc(Block(k, i))' <=> InDoc(Block(k, i))
      BY <1>5
    <2>2. run'[k] = run[k] /\ undo'[k] = undo[k] /\ JobOK(k)
      BY <1>5 DEF IInv
    <2>3. Opening(k)'
      <3>1. \A i \in 2..JobBlocks[k] : i - 1 \in 1..JobBlocks[k] /\ i \in 1..JobBlocks[k]
        BY JobsAssumption
      <3>2. QED BY <2>1, <2>2, <3>1 DEF JobOK, Opening
    <2>4. Undoable(k) => Undoable(k)'
      BY <2>2 DEF Undoable
    <2>5. LeftOK(k) => LeftOK(k)'
      BY <2>2 DEF LeftOK
    <2>6. UndoOK(k)'
      BY <2>1, <2>2, <2>4, <2>5 DEF JobOK, UndoOK
    <2>7. QED BY <2>3, <2>6
  <1>6. QED BY <1>1, <1>2, <1>3, <1>4, <1>5 DEF IInv, JobOK

LEMMA SameDoc ==
    ASSUME IInv, doc' = doc, others' = others
    PROVE  /\ doc' \in Seq(AllBlocks) /\ IsInjective(doc') /\ Numbered'
           /\ \A b : InDoc(b)' <=> InDoc(b)
           /\ \A j \in Jobs :
                 /\ Opening(j)'
                 /\ \A i \in 1..JobBlocks[j] :
                       InDoc(Block(j, i))' => JobType[j] = "doc_append"
  <1>1. doc' \in Seq(AllBlocks) /\ IsInjective(doc') /\ Numbered'
    BY DEF IInv, ExecutionTypeOK, Numbered
  <1>2. \A b : InDoc(b)' <=> InDoc(b)
    BY DEF InDoc
  <1>3. \A j \in Jobs : Opening(j)'
    BY <1>2 DEF IInv, JobOK, Opening
  <1>4. \A j \in Jobs : \A i \in 1..JobBlocks[j] :
           InDoc(Block(j, i))' => JobType[j] = "doc_append"
    BY <1>2 DEF IInv, JobOK, Appended
  <1>5. QED BY <1>1, <1>2, <1>3, <1>4

-----------------------------------------------------------------------------
(* The executions                                                           *)

LEMMA RefusedKeeps ==
    ASSUME IInv, NEW j \in Jobs, Refused(j) PROVE IInv'
  <1>1. /\ run[j].phase \in {"todo", "read", "created"}
        /\ run' = [run EXCEPT ![j].phase = "failed"]
        /\ UNCHANGED <<doc, sheet, table, files, undo, others>>
    BY DEF Refused, Set
  <1>2. /\ DOMAIN run' = Jobs /\ \A k \in Jobs \ {j} : run'[k] = run[k]
        /\ DOMAIN run'[j] = {"phase", "result", "before"} /\ run'[j].phase = "failed"
        /\ run'[j].result = run[j].result
    BY <1>1 DEF IInv, Shape
  <1>3. ReturnOK(j)'
    BY <1>1, <1>2 DEF IInv, JobOK, ReturnOK
  <1>4. sheet' \in [Cells -> Values] /\ DOMAIN table' = DOMAIN table /\ DOMAIN files' \subseteq Jobs
    BY <1>1 DEF IInv, ExecutionTypeOK
  <1>5. Made(j)'
    BY <1>4 DEF IInv, JobOK, Made
  <1>6. QED BY <1>1, <1>2, <1>3, <1>4, <1>5, SameDoc, ExecutionStepKeeps

(* The state of an action after a call that returns nothing to keep. *)
LEMMA AnsweredEmpty ==
    ASSUME IInv, NEW j \in Jobs, NEW lost \in BOOLEAN, NEW phase \in {"created", "done"},
           run' = [run EXCEPT ![j] = Answered(j, lost, phase, <<>>)],
           JobType[j] # "sheet_write"
    PROVE  /\ DOMAIN run' = Jobs /\ \A k \in Jobs \ {j} : run'[k] = run[k]
           /\ DOMAIN run'[j] = {"phase", "result", "before"}
           /\ run'[j].phase \in {"created", "done", "failed"}
           /\ ReturnOK(j)'
  <1>1. /\ DOMAIN run' = Jobs /\ \A k \in Jobs \ {j} : run'[k] = run[k]
        /\ run'[j] = Answered(j, lost, phase, <<>>)
    BY DEF IInv, Shape
  <1>2. /\ DOMAIN run'[j] = {"phase", "result", "before"}
        /\ run'[j].phase \in {"created", "done", "failed"} /\ run'[j].result = <<>>
    BY <1>1 DEF Answered, IInv, Shape
  <1>3. ReturnOK(j)'
    BY <1>2 DEF ReturnOK
  <1>4. QED BY <1>1, <1>2, <1>3

LEMMA CreateDocKeeps ==
    ASSUME IInv, NEW j \in Jobs, CreateDoc(j) \/ FillDoc(j) PROVE IInv'
  <1>1. /\ JobType[j] = "doc_create" /\ run[j].phase \in {"todo", "created"}
        /\ UNCHANGED <<doc, sheet, table, undo, others>>
    BY DEF CreateDoc, FillDoc
  <1>2. PICK lost \in BOOLEAN, phase \in {"created", "done"} :
           run' = [run EXCEPT ![j] = Answered(j, lost, phase, <<>>)]
    BY DEF CreateDoc, FillDoc
  <1>3. DOMAIN files' \subseteq Jobs
    BY DEF CreateDoc, FillDoc, IInv, ExecutionTypeOK
  <1>4. sheet' \in [Cells -> Values] /\ DOMAIN table' = DOMAIN table
    BY <1>1 DEF IInv, ExecutionTypeOK
  <1>5. /\ DOMAIN run' = Jobs /\ \A k \in Jobs \ {j} : run'[k] = run[k]
        /\ DOMAIN run'[j] = {"phase", "result", "before"}
        /\ run'[j].phase \in {"created", "done", "failed"}
        /\ ReturnOK(j)'
    BY <1>1, <1>2, AnsweredEmpty
  <1>6. Made(j)'
    BY <1>4 DEF IInv, JobOK, Made
  <1>7. QED BY <1>1, <1>3, <1>4, <1>5, <1>6, SameDoc, ExecutionStepKeeps

LEMMA BitableKeeps ==
    ASSUME IInv, NEW j \in Jobs, CreateBitableRecord(j) \/ UpdateBitableRecord(j) PROVE IInv'
  <1>1. /\ JobType[j] \in {"bitable_create", "bitable_update"} /\ run[j].phase = "todo"
        /\ UNCHANGED <<doc, sheet, files, undo, others>>
    BY DEF CreateBitableRecord, UpdateBitableRecord
  <1>2. PICK lost \in BOOLEAN : run' = [run EXCEPT ![j] = Answered(j, lost, "done", <<>>)]
    BY DEF CreateBitableRecord, UpdateBitableRecord
  <1>3. DOMAIN table' \subseteq DOMAIN table \cup {j}
    BY DEF CreateBitableRecord, UpdateBitableRecord
  <1>4. sheet' \in [Cells -> Values] /\ DOMAIN files' \subseteq Jobs
    BY <1>1 DEF IInv, ExecutionTypeOK
  <1>5. /\ DOMAIN run' = Jobs /\ \A k \in Jobs \ {j} : run'[k] = run[k]
        /\ DOMAIN run'[j] = {"phase", "result", "before"}
        /\ run'[j].phase \in {"created", "done", "failed"}
        /\ ReturnOK(j)'
    BY <1>1, <1>2, AnsweredEmpty
  <1>6. Made(j)'
    BY JobsAssumption DEF CreateBitableRecord, UpdateBitableRecord, IInv, JobOK, Made
  <1>7. QED BY <1>1, <1>3, <1>4, <1>5, <1>6, SameDoc, ExecutionStepKeeps

(* The snapshot is a rectangle that holds every cell of the write. *)
LEMMA SnapshotCovers ==
    ASSUME NEW values \in Seq(Seq(Values)), NEW current \in [Cells -> Values],
           (DOMAIN values) \X (1..Width(values)) \subseteq Cells
    PROVE  /\ Snapshot(current, values) \in Seq(Seq(Values))
           /\ \A c \in WrittenCells(values) :
                 /\ c \in Cells /\ c \in WrittenCells(Snapshot(current, values))
                 /\ Snapshot(current, values)[c[1]][c[2]] = current[c]
  <1>1. PICK w : w = Width(values)
    OBVIOUS
  <1>2. w \in Nat /\ \A i \in DOMAIN values : Len(values[i]) =< w
    BY <1>1, WidthIsEnough
  <1>3. PICK snap : snap = Snapshot(current, values)
    OBVIOUS
  <1>4. snap = [i \in DOMAIN values |-> [k \in 1..w |-> current[<<i, k>>]]]
    BY <1>1, <1>3 DEF Snapshot
  <1>5. DOMAIN values = 1..Len(values) /\ Len(values) \in Nat
    OBVIOUS
  <1>6. ASSUME NEW i \in DOMAIN values PROVE snap[i] \in Seq(Values)
    <2>1. \A k \in 1..w : <<i, k>> \in Cells
      BY <1>1
    <2>2. snap[i] = [k \in 1..w |-> current[<<i, k>>]]
      BY <1>4
    <2>3. QED BY <1>2, <2>1, <2>2
  <1>7. snap \in Seq(Seq(Values))
    BY <1>4, <1>5, <1>6
  <1>8. ASSUME NEW c \in WrittenCells(values)
        PROVE  /\ c \in Cells /\ c \in WrittenCells(snap) /\ snap[c[1]][c[2]] = current[c]
    <2>1. PICK i \in DOMAIN values : c \in {i} \X DOMAIN values[i]
      BY DEF WrittenCells
    <2>2. PICK k \in DOMAIN values[i] : c = <<i, k>>
      BY <2>1
    <2>3. values[i] \in Seq(Values)
      BY <1>5
    <2>4. k \in 1..w
      BY <1>2, <2>3
    <2>5. c \in Cells
      BY <1>1, <2>2, <2>4
    <2>6. snap[i] = [m \in 1..w |-> current[<<i, m>>]] /\ DOMAIN snap = DOMAIN values
      BY <1>4
    <2>7. c \in {i} \X DOMAIN snap[i]
      BY <2>2, <2>4, <2>6
    <2>8. c \in WrittenCells(snap)
      BY <2>6, <2>7 DEF WrittenCells
    <2>9. QED BY <2>2, <2>4, <2>5, <2>6, <2>8
  <1>9. QED BY <1>3, <1>7, <1>8

LEMMA ReadSheetRangeKeeps ==
    ASSUME IInv, NEW j \in Jobs, ReadSheetRange(j) PROVE IInv'
  <1>1. /\ JobType[j] = "sheet_write" /\ run[j].phase = "todo"
        /\ UNCHANGED <<doc, sheet, table, files, undo, others>>
    BY DEF ReadSheetRange
  <1>2. PICK snap, before : /\ snap = Snapshot(Shown, JobValues[j])
                            /\ before = [c \in WrittenCells(JobValues[j]) |-> sheet[c]]
    OBVIOUS
  <1>3. run' = [run EXCEPT ![j].phase = "read", ![j].result = snap, ![j].before = before]
    BY <1>2 DEF ReadSheetRange
  <1>4. /\ DOMAIN run' = Jobs /\ \A k \in Jobs \ {j} : run'[k] = run[k]
        /\ DOMAIN run'[j] = {"phase", "result", "before"} /\ run'[j].phase = "read"
        /\ run'[j].result = snap /\ run'[j].before = before
    BY <1>3 DEF IInv, Shape
  <1>5. /\ JobValues[j] \in Seq(Seq(Values)) /\ sheet \in [Cells -> Values]
        /\ (DOMAIN JobValues[j]) \X (1..Width(JobValues[j])) \subseteq Cells
    BY <1>1, SheetAssumption DEF IInv, ExecutionTypeOK
  <1>6. /\ snap \in Seq(Seq(Values))
        /\ \A c \in WrittenCells(JobValues[j]) :
              c \in WrittenCells(snap) /\ snap[c[1]][c[2]] = Rendered[sheet[c]]
    <2>1. Shown \in [Cells -> Values] /\ \A c \in Cells : Shown[c] = Rendered[sheet[c]]
      BY <1>5, SheetAssumption DEF Shown
    <2>2. /\ snap \in Seq(Seq(Values))
          /\ \A c \in WrittenCells(JobValues[j]) :
                c \in Cells /\ c \in WrittenCells(snap) /\ snap[c[1]][c[2]] = Shown[c]
      BY <1>2, <1>5, <2>1, SnapshotCovers
    <2>3. QED BY <2>1, <2>2
  <1>7. SnapshotHolds(j)'
    BY <1>2, <1>4, <1>6 DEF SnapshotHolds
  <1>8. ReturnOK(j)'
    BY <1>1, <1>7 DEF ReturnOK
  <1>9. sheet' \in [Cells -> Values] /\ DOMAIN table' = DOMAIN table /\ DOMAIN files' \subseteq Jobs
    BY <1>1 DEF IInv, ExecutionTypeOK
  <1>10. Made(j)'
    BY <1>9 DEF IInv, JobOK, Made
  <1>11. QED BY <1>1, <1>4, <1>8, <1>9, <1>10, SameDoc, ExecutionStepKeeps

LEMMA OverlayTyped ==
    ASSUME NEW values \in Seq(Seq(Values)), NEW current \in [Cells -> Values]
    PROVE  Overlay(current, values) \in [Cells -> Values]
  <1>1. ASSUME NEW c \in WrittenCells(values) PROVE values[c[1]][c[2]] \in Values
    <2>1. PICK i \in DOMAIN values : c \in {i} \X DOMAIN values[i]
      BY DEF WrittenCells
    <2>2. PICK k \in DOMAIN values[i] : c = <<i, k>>
      BY <2>1
    <2>3. values[i] \in Seq(Values)
      OBVIOUS
    <2>4. values[i][k] \in Values
      BY <2>3
    <2>5. QED BY <2>2, <2>4
  <1>2. QED BY <1>1 DEF Overlay

LEMMA WriteSheetRangeKeeps ==
    ASSUME IInv, NEW j \in Jobs, WriteSheetRange(j) PROVE IInv'
  <1>1. /\ JobType[j] = "sheet_write" /\ run[j].phase = "read"
        /\ sheet' = Overlay(sheet, JobValues[j])
        /\ UNCHANGED <<doc, table, files, undo, others>>
    BY DEF WriteSheetRange
  <1>2. PICK lost \in BOOLEAN :
           run' = [run EXCEPT ![j] = Answered(j, lost, "done", run[j].result)]
    BY DEF WriteSheetRange
  <1>3. /\ DOMAIN run' = Jobs /\ \A k \in Jobs \ {j} : run'[k] = run[k]
        /\ run'[j] = Answered(j, lost, "done", run[j].result)
    BY <1>2 DEF IInv, Shape
  <1>4. /\ DOMAIN run'[j] = {"phase", "result", "before"}
        /\ run'[j].phase \in {"done", "failed"}
        /\ run'[j].before = run[j].before
        /\ run'[j].phase = "done" => run'[j].result = run[j].result
    BY <1>3 DEF Answered, IInv, Shape
  <1>5. SnapshotHolds(j)
    BY <1>1 DEF IInv, JobOK, ReturnOK
  <1>6. run'[j].phase = "done" => SnapshotHolds(j)'
    BY <1>4, <1>5 DEF SnapshotHolds
  <1>7. ReturnOK(j)'
    BY <1>1, <1>4, <1>6 DEF ReturnOK
  <1>8. sheet' \in [Cells -> Values]
    BY <1>1, SheetAssumption, OverlayTyped DEF IInv, ExecutionTypeOK
  <1>9. DOMAIN table' = DOMAIN table /\ DOMAIN files' \subseteq Jobs
    BY <1>1 DEF IInv, ExecutionTypeOK
  <1>10. Made(j)'
    BY <1>9 DEF IInv, JobOK, Made
  <1>11. QED BY <1>1, <1>3, <1>4, <1>7, <1>8, <1>9, <1>10, SameDoc, ExecutionStepKeeps

LEMMA WhoseBlock ==
    ASSUME NEW b
    PROVE  b \in AllBlocks <=> \/ \E j \in Jobs : b \in BlocksOf(j)
                               \/ \E n \in 0..MaxOthers : b = Block("they", n)
  <1> DEFINE OfJobs == UNION {BlocksOf(j) : j \in Jobs}
             OfThem == {Block("they", n) : n \in 0..MaxOthers}
  <1>1. AllBlocks = OfJobs \cup OfThem
    BY DEF AllBlocks
  <1>2. b \in OfJobs <=> \E j \in Jobs : b \in BlocksOf(j)
    OBVIOUS
  <1>3. b \in OfThem <=> \E n \in 0..MaxOthers : b = Block("they", n)
    OBVIOUS
  <1> HIDE DEF OfJobs, OfThem
  <1>4. QED BY <1>1, <1>2, <1>3

LEMMA BlockIsOne ==
    ASSUME NEW j \in Jobs, NEW i \in 1..JobBlocks[j] PROVE Block(j, i) \in AllBlocks
  <1>1. Block(j, i) \in BlocksOf(j)
    BY DEF BlocksOf
  <1>2. QED BY <1>1, WhoseBlock

LEMMA BlocksTyped ==
    ASSUME NEW j \in Jobs
    PROVE  /\ Blocks(j) \in Seq(AllBlocks) /\ IsInjective(Blocks(j))
           /\ Blocks(j) # <<>> /\ Len(Blocks(j)) = JobBlocks[j]
           /\ DOMAIN Blocks(j) = 1..JobBlocks[j]
           /\ \A i \in 1..JobBlocks[j] : Blocks(j)[i] = Block(j, i) /\ Block(j, i)[1] = j
  <1>1. JobBlocks[j] \in Nat /\ 1 \in 1..JobBlocks[j]
    BY JobsAssumption
  <1>2. \A i \in 1..JobBlocks[j] : Block(j, i) \in AllBlocks
    BY BlockIsOne
  <1>3. Blocks(j) = [i \in 1..JobBlocks[j] |-> Block(j, i)]
    BY DEF Blocks
  <1>4. Blocks(j) \in Seq(AllBlocks) /\ Len(Blocks(j)) = JobBlocks[j]
    BY <1>1, <1>2, <1>3
  <1>5. IsInjective(Blocks(j))
    BY <1>3 DEF IsInjective, Block
  <1>6. Blocks(j) # <<>>
    BY <1>1, <1>4
  <1>7. QED BY <1>3, <1>4, <1>5, <1>6 DEF Block

LEMMA AppendDocTextKeeps ==
    ASSUME IInv, NEW j \in Jobs, AppendDocText(j) PROVE IInv'
  <1>1. /\ JobType[j] = "doc_append" /\ run[j].phase = "todo"
        /\ doc' = Blocks(j) \o doc \/ doc' = doc \o Blocks(j)
        /\ UNCHANGED <<sheet, table, files, undo, others>>
    BY DEF AppendDocText
  <1>2. PICK lost \in BOOLEAN, result \in {<<>>, Blocks(j)} :
           run' = [run EXCEPT ![j] = Answered(j, lost, "done", result)]
    BY DEF AppendDocText
  <1>3. /\ DOMAIN run' = Jobs /\ \A k \in Jobs \ {j} : run'[k] = run[k]
        /\ run'[j] = Answered(j, lost, "done", result)
    BY <1>2 DEF IInv, Shape
  <1>4. /\ DOMAIN run'[j] = {"phase", "result", "before"}
        /\ run'[j].phase \in {"done", "failed"}
        /\ run'[j].result # <<>> => run'[j].result = Blocks(j) /\ run'[j].phase = "done"
    BY <1>3 DEF Answered, IInv, Shape
  <1>5. ReturnOK(j)'
    BY <1>1, <1>4 DEF ReturnOK, Blocks
  <1>6. PICK t : t = Blocks(j)
    OBVIOUS
  <1>7. /\ t \in Seq(AllBlocks) /\ IsInjective(t) /\ DOMAIN t = 1..JobBlocks[j]
        /\ \A i \in 1..JobBlocks[j] : t[i] = Block(j, i) /\ Block(j, i)[1] = j
    BY <1>6, BlocksTyped
  <1>8. doc \in Seq(AllBlocks) /\ IsInjective(doc)
    BY DEF IInv, ExecutionTypeOK
  <1>9. \A i \in 1..JobBlocks[j] : ~InDoc(Block(j, i))
    BY <1>1 DEF IInv, JobOK, Appended
  <1>10. ToSet(t) = BlocksOf(j) /\ ToSet(doc) \cap ToSet(t) = {} /\ ToSet(t) \cap ToSet(doc) = {}
    <2>1. ToSet(t) = BlocksOf(j)
      BY <1>7 DEF ToSet, BlocksOf
    <2>2. QED BY <1>9, <2>1 DEF InDoc, BlocksOf
  <1>11. /\ doc' \in Seq(AllBlocks) /\ IsInjective(doc')
         /\ ToSet(doc') = ToSet(doc) \cup BlocksOf(j)
    <2>1. t \in Seq(AllBlocks) /\ IsInjective(t)
      BY <1>7
    <2>2. CASE doc' = doc \o t
      BY <2>1, <2>2, <1>8, <1>10, JoiningKeeps
    <2>3. CASE doc' = t \o doc
      <3>1. /\ t \o doc \in Seq(AllBlocks) /\ IsInjective(t \o doc)
            /\ ToSet(t \o doc) = ToSet(t) \cup ToSet(doc)
        BY <2>1, <1>8, <1>10, JoiningKeeps
      <3>2. QED BY <2>3, <3>1, <1>10
    <2>4. QED BY <1>1, <1>6, <2>2, <2>3
  <1>12. \A i \in 1..JobBlocks[j] : InDoc(Block(j, i))'
    BY <1>11 DEF InDoc, BlocksOf
  <1>13. Opening(j)'
    <2>1. \A i \in 2..JobBlocks[j] : i - 1 \in 1..JobBlocks[j]
      BY JobsAssumption
    <2>2. QED BY <1>12, <2>1 DEF Opening
  <1>14. Numbered'
    <2>1. ASSUME NEW i \in DOMAIN doc', doc'[i][1] = "they" PROVE doc'[i][2] =< others'.count
      <3>1. j # "they"
        BY JobsAssumption
      <3>2. PICK m \in DOMAIN doc : doc[m] = doc'[i]
        <4>1. doc'[i] \in ToSet(doc')
          BY DEF ToSet
        <4>2. doc'[i] \notin BlocksOf(j)
          BY <2>1, <3>1 DEF BlocksOf, Block
        <4>3. QED BY <1>11, <4>1, <4>2 DEF ToSet
      <3>3. QED BY <1>1, <2>1, <3>2 DEF IInv, Numbered
    <2>2. QED BY <2>1 DEF Numbered
  <1>15. ASSUME NEW k \in Jobs \ {j}, NEW i \in 1..JobBlocks[k]
         PROVE  InDoc(Block(k, i))' <=> InDoc(Block(k, i))
    <2>1. PICK b : b = Block(k, i)
      OBVIOUS
    <2>2. b \notin BlocksOf(j)
      BY <2>1 DEF Block, BlocksOf
    <2>3. InDoc(b)' <=> InDoc(b)
      BY <1>11, <2>2 DEF InDoc
    <2>4. QED BY <2>1, <2>3
  <1>16. Made(j)'
    BY <1>1 DEF IInv, JobOK, Made
  <1>17. sheet' \in [Cells -> Values] /\ DOMAIN table' = DOMAIN table /\ DOMAIN files' \subseteq Jobs
    BY <1>1 DEF IInv, ExecutionTypeOK
  <1>18. QED
    BY <1>1, <1>3, <1>4, <1>5, <1>11, <1>13, <1>14, <1>15, <1>16, <1>17, ExecutionStepKeeps

-----------------------------------------------------------------------------
(* The undos                                                                *)

LEMMA ConfirmUndoKeeps ==
    ASSUME IInv, NEW j \in Jobs, ConfirmUndo(j) PROVE IInv'
  <1>1. /\ Undoable(j) /\ undo[j].attempts < MaxAttempts
        /\ undo' = [undo EXCEPT ![j] = [phase |-> "calls", left |-> UndoCalls(j),
                                        attempts |-> undo[j].attempts + 1]]
        /\ UNCHANGED <<doc, sheet, table, files, run, others>>
    BY DEF ConfirmUndo
  <1>2. PICK calls : calls = UndoCalls(j)
    OBVIOUS
  <1>3. /\ DOMAIN undo' = Jobs /\ \A k \in Jobs \ {j} : undo'[k] = undo[k]
        /\ undo'[j] = [phase |-> "calls", left |-> calls, attempts |-> undo[j].attempts + 1]
    BY <1>1, <1>2 DEF IInv, Shape
  <1>4. /\ undo'[j].phase = "calls" /\ undo'[j].left = calls
        /\ undo'[j].attempts \in 0..MaxAttempts
        /\ DOMAIN undo'[j] = {"phase", "left", "attempts"}
    BY <1>1, <1>3, JobsAssumption DEF IInv, ExecutionTypeOK
  <1>5. Undoable(j)'
    BY <1>1 DEF Undoable
  <1>6. LeftOK(j)'
    <2>1. CASE JobType[j] = "doc_append"
      <3>1. run[j].result = Blocks(j)
        BY <1>1, <2>1 DEF Undoable, IInv, JobOK, ReturnOK
      <3>2. calls = Reverse(Blocks(j))
        BY <1>2, <2>1, <3>1 DEF UndoCalls
      <3>3. JobBlocks[j] \in Nat \ {0} /\ Len(Blocks(j)) = JobBlocks[j]
        BY BlocksTyped, JobsAssumption
      <3>4. calls = [i \in 1..JobBlocks[j] |-> Blocks(j)[JobBlocks[j] - i + 1]]
        BY <3>2, <3>3 DEF Reverse
      <3>5. calls = [i \in 1..JobBlocks[j] |-> Block(j, JobBlocks[j] + 1 - i)]
        <4>1. ASSUME NEW i \in 1..JobBlocks[j]
              PROVE  Blocks(j)[JobBlocks[j] - i + 1] = Block(j, JobBlocks[j] + 1 - i)
          <5>1. /\ JobBlocks[j] - i + 1 \in 1..JobBlocks[j]
                /\ JobBlocks[j] - i + 1 = JobBlocks[j] + 1 - i
            BY <3>3
          <5>2. QED BY <5>1, BlocksTyped
        <4>2. QED BY <3>4, <4>1
      <3>6. Len(calls) = JobBlocks[j]
        BY <3>3, <3>5
      <3>7. JobBlocks[j] \in 1..JobBlocks[j] /\ (JobBlocks[j] + 1)..JobBlocks[j] = {}
        BY <3>3
      <3>8. QED BY <1>4, <2>1, <3>5, <3>6, <3>7 DEF LeftOK
    <2>2. CASE JobType[j] = "bitable_create"
      BY <1>2, <1>4, <2>2 DEF UndoCalls, LeftOK
    <2>3. CASE JobType[j] = "sheet_write"
      BY <1>1, <1>2, <1>4, <2>3 DEF UndoCalls, LeftOK
    <2>4. QED BY <1>1, <2>1, <2>2, <2>3 DEF Undoable
  <1>7. UndoOK(j)'
    BY <1>4, <1>5, <1>6 DEF UndoOK
  <1>8. sheet' \in [Cells -> Values]
    BY <1>1 DEF IInv, ExecutionTypeOK
  <1>9. QED BY <1>1, <1>3, <1>4, <1>7, <1>8, SameDoc, UndoStepKeeps

LEMMA UndoRefusedKeeps ==
    ASSUME IInv, NEW j \in Jobs, UndoRefused(j) PROVE IInv'
  <1>1. /\ undo' = [undo EXCEPT ![j].phase = "failed", ![j].left = <<>>]
        /\ UNCHANGED <<doc, sheet, table, files, run, others>>
    BY DEF UndoRefused
  <1>2. /\ DOMAIN undo' = Jobs /\ \A k \in Jobs \ {j} : undo'[k] = undo[k]
        /\ undo'[j].phase = "failed" /\ undo'[j].attempts = undo[j].attempts
        /\ DOMAIN undo'[j] = {"phase", "left", "attempts"}
    BY <1>1 DEF IInv, Shape
  <1>3. UndoOK(j)'
    BY <1>2 DEF UndoOK
  <1>4. sheet' \in [Cells -> Values] /\ undo'[j].attempts \in 0..MaxAttempts
    BY <1>1, <1>2 DEF IInv, ExecutionTypeOK
  <1>5. QED BY <1>1, <1>2, <1>3, <1>4, SameDoc, UndoStepKeeps

(* After a call of an undo: it failed, or one call less is left, or it is done. *)
LEMMA AfterCallCases ==
    ASSUME IInv, NEW j \in Jobs, NEW lost \in BOOLEAN,
           undo' = [undo EXCEPT ![j] = AfterCall(j, lost)]
    PROVE  /\ DOMAIN undo' = Jobs /\ \A k \in Jobs \ {j} : undo'[k] = undo[k]
           /\ DOMAIN undo'[j] = {"phase", "left", "attempts"}
           /\ undo'[j].attempts \in 0..MaxAttempts
           /\ \/ undo'[j].phase = "failed"
              \/ /\ undo'[j].phase = IF Len(undo[j].left) > 1 THEN "calls" ELSE "done"
                 /\ undo'[j].left = Tail(undo[j].left)
  <1>1. /\ DOMAIN undo' = Jobs /\ \A k \in Jobs \ {j} : undo'[k] = undo[k]
        /\ undo'[j] = AfterCall(j, lost)
    BY DEF IInv, Shape
  <1>2. DOMAIN undo[j] = {"phase", "left", "attempts"} /\ undo[j].attempts \in 0..MaxAttempts
    BY DEF IInv, Shape, ExecutionTypeOK
  <1>3. CASE lost
    <2>1. undo'[j] = [undo[j] EXCEPT !.phase = "failed", !.left = <<>>]
      BY <1>1, <1>3 DEF AfterCall
    <2>2. QED BY <1>1, <1>2, <2>1
  <1>4. CASE ~lost
    <2>1. PICK phase : phase = IF Len(undo[j].left) > 1 THEN "calls" ELSE "done"
      OBVIOUS
    <2>2. undo'[j] = [undo[j] EXCEPT !.phase = phase, !.left = Tail(undo[j].left)]
      BY <1>1, <1>4, <2>1 DEF AfterCall
    <2>3. QED BY <1>1, <1>2, <2>1, <2>2
  <1>5. QED BY <1>3, <1>4

LEMMA DeleteBitableRecordKeeps ==
    ASSUME IInv, NEW j \in Jobs, DeleteBitableRecord(j) PROVE IInv'
  <1>1. /\ undo[j].phase = "calls" /\ JobType[j] = "bitable_create"
        /\ table' = [r \in DOMAIN table \ {Head(undo[j].left)} |-> table[r]]
        /\ UNCHANGED <<doc, sheet, files, run, others>>
    BY DEF DeleteBitableRecord
  <1>2. PICK lost \in BOOLEAN : undo' = [undo EXCEPT ![j] = AfterCall(j, lost)]
    BY DEF DeleteBitableRecord
  <1>3. undo[j].left = <<j>> /\ Undoable(j)
    BY <1>1 DEF IInv, JobOK, UndoOK, LeftOK
  <1>4. ~(Len(undo[j].left) > 1) /\ Head(undo[j].left) = j
    BY <1>3
  <1>5. /\ DOMAIN undo' = Jobs /\ \A k \in Jobs \ {j} : undo'[k] = undo[k]
        /\ DOMAIN undo'[j] = {"phase", "left", "attempts"}
        /\ undo'[j].attempts \in 0..MaxAttempts /\ undo'[j].phase \in {"failed", "done"}
    BY <1>2, <1>4, AfterCallCases
  <1>6. DOMAIN table' = DOMAIN table \ {j}
    BY <1>1, <1>4
  <1>7. \A i \in 1..JobBlocks[j] : ~InDoc(Block(j, i))'
    BY <1>1, SameDoc
  <1>8. Undoable(j)'
    BY <1>1, <1>3 DEF Undoable
  <1>9. UndoOK(j)'
    BY <1>5, <1>6, <1>7, <1>8 DEF UndoOK
  <1>10. sheet' \in [Cells -> Values] /\ DOMAIN table' \subseteq DOMAIN table
    BY <1>1, <1>6 DEF IInv, ExecutionTypeOK
  <1>11. QED BY <1>1, <1>5, <1>9, <1>10, SameDoc, UndoStepKeeps

LEMMA RestoreSheetRangeKeeps ==
    ASSUME IInv, NEW j \in Jobs, RestoreSheetRange(j) PROVE IInv'
  <1>1. /\ undo[j].phase = "calls" /\ JobType[j] = "sheet_write"
        /\ sheet' = Overlay(sheet, Head(undo[j].left))
        /\ UNCHANGED <<doc, table, files, run, others>>
    BY DEF RestoreSheetRange
  <1>2. PICK lost \in BOOLEAN : undo' = [undo EXCEPT ![j] = AfterCall(j, lost)]
    BY DEF RestoreSheetRange
  <1>3. undo[j].left = <<run[j].result>> /\ Undoable(j)
    BY <1>1 DEF IInv, JobOK, UndoOK, LeftOK
  <1>4. ~(Len(undo[j].left) > 1) /\ Head(undo[j].left) = run[j].result
    BY <1>3
  <1>5. /\ DOMAIN undo' = Jobs /\ \A k \in Jobs \ {j} : undo'[k] = undo[k]
        /\ DOMAIN undo'[j] = {"phase", "left", "attempts"}
        /\ undo'[j].attempts \in 0..MaxAttempts /\ undo'[j].phase \in {"failed", "done"}
    BY <1>2, <1>4, AfterCallCases
  <1>6. \A i \in 1..JobBlocks[j] : ~InDoc(Block(j, i))'
    BY <1>1, SameDoc
  <1>7. Undoable(j)'
    BY <1>1, <1>3 DEF Undoable
  <1>8. j \notin DOMAIN table'
    BY <1>1 DEF IInv, JobOK, Made
  <1>9. UndoOK(j)'
    BY <1>5, <1>6, <1>7, <1>8 DEF UndoOK
  <1>10. run[j].result \in Seq(Seq(Values))
    BY <1>1, <1>3 DEF Undoable, IInv, JobOK, ReturnOK, SnapshotHolds
  <1>11. sheet' \in [Cells -> Values]
    BY <1>1, <1>4, <1>10, OverlayTyped DEF IInv, ExecutionTypeOK
  <1>12. QED BY <1>1, <1>5, <1>9, <1>11, SameDoc, UndoStepKeeps

(* The call deletes the last of the blocks that are left, if it is still there. *)
LEMMA DeletedBlock ==
    ASSUME IInv, NEW j \in Jobs, DeleteDocBlock(j)
    PROVE  \E n \in 1..JobBlocks[j] :
              /\ undo[j].left = [i \in 1..n |-> Block(j, n + 1 - i)]
              /\ \A i \in (n + 1)..JobBlocks[j] : ~InDoc(Block(j, i))
              /\ doc' \in Seq(AllBlocks) /\ IsInjective(doc') /\ Theirs(doc') = Theirs(doc)
              /\ \A b : InDoc(b)' <=> (InDoc(b) /\ b # Block(j, n))
  <1>1. undo[j].phase = "calls" /\ JobType[j] = "doc_append"
    BY DEF DeleteDocBlock
  <1>2. LeftOK(j)
    BY <1>1 DEF IInv, JobOK, UndoOK
  <1>3. PICK n : n = Len(undo[j].left)
    OBVIOUS
  <1>4. /\ n \in 1..JobBlocks[j]
        /\ undo[j].left = [i \in 1..n |-> Block(j, n + 1 - i)]
        /\ \A i \in (n + 1)..JobBlocks[j] : ~InDoc(Block(j, i))
    BY <1>1, <1>2, <1>3 DEF LeftOK
  <1>5. PICK b : b = Block(j, n)
    OBVIOUS
  <1>6. Head(undo[j].left) = b
    <2>1. 1 \in 1..n /\ n + 1 - 1 = n
      BY <1>4
    <2>2. undo[j].left[1] = b
      BY <1>4, <1>5, <2>1
    <2>3. QED BY <1>4, <2>2
  <1>7. b[1] # "they"
    BY <1>5, JobsAssumption DEF Block
  <1>8. doc \in Seq(AllBlocks) /\ IsInjective(doc)
    BY DEF IInv, ExecutionTypeOK
  <1>9. \/ \E i \in DOMAIN doc : doc[i] = b /\ doc' = RemoveAt(doc, i)
        \/ b \notin ToSet(doc) /\ doc' = doc
    BY <1>6 DEF DeleteDocBlock
  <1>10. /\ doc' \in Seq(AllBlocks) /\ IsInjective(doc') /\ Theirs(doc') = Theirs(doc)
         /\ \A c : InDoc(c)' <=> (InDoc(c) /\ c # b)
    <2>1. CASE b \notin ToSet(doc) /\ doc' = doc
      BY <1>8, <2>1 DEF InDoc
    <2>2. ASSUME NEW i \in DOMAIN doc, doc[i] = b, doc' = RemoveAt(doc, i)
          PROVE  /\ doc' \in Seq(AllBlocks) /\ IsInjective(doc') /\ Theirs(doc') = Theirs(doc)
                 /\ \A c : InDoc(c)' <=> (InDoc(c) /\ c # b)
      <3>1. PICK e : e = RemoveAt(doc, i)
        OBVIOUS
      <3>2. /\ e \in Seq(AllBlocks) /\ IsInjective(e)
            /\ ToSet(e) = ToSet(doc) \ {doc[i]}
        BY <1>8, <3>1, RemovalKeeps
      <3>3. Theirs(e) = Theirs(doc)
        BY <1>7, <1>8, <2>2, <3>1, RemovalKeepsTheirs
      <3>4. doc' = e
        BY <2>2, <3>1
      <3>5. \A c : InDoc(c)' <=> (InDoc(c) /\ c # b)
        BY <2>2, <3>2, <3>4 DEF InDoc
      <3>6. QED BY <3>2, <3>3, <3>4, <3>5
    <2>3. QED BY <1>9, <2>1, <2>2
  <1>11. QED BY <1>4, <1>5, <1>10

LEMMA DeleteDocBlockKeeps ==
    ASSUME IInv, NEW j \in Jobs, DeleteDocBlock(j) PROVE IInv'
  <1>1. /\ undo[j].phase = "calls" /\ JobType[j] = "doc_append"
        /\ UNCHANGED <<sheet, table, files, run, others>>
    BY DEF DeleteDocBlock
  <1>2. PICK lost \in BOOLEAN : undo' = [undo EXCEPT ![j] = AfterCall(j, lost)]
    BY DEF DeleteDocBlock
  <1>3. PICK n \in 1..JobBlocks[j] :
           /\ undo[j].left = [i \in 1..n |-> Block(j, n + 1 - i)]
           /\ \A i \in (n + 1)..JobBlocks[j] : ~InDoc(Block(j, i))
           /\ doc' \in Seq(AllBlocks) /\ IsInjective(doc') /\ Theirs(doc') = Theirs(doc)
           /\ \A b : InDoc(b)' <=> (InDoc(b) /\ b # Block(j, n))
    BY DeletedBlock
  <1>4. n \in Nat /\ n >= 1 /\ JobBlocks[j] \in Nat
    BY JobsAssumption
  <1>5. Len(undo[j].left) = n
    BY <1>3, <1>4
  <1>6. /\ DOMAIN undo' = Jobs /\ \A k \in Jobs \ {j} : undo'[k] = undo[k]
        /\ DOMAIN undo'[j] = {"phase", "left", "attempts"}
        /\ undo'[j].attempts \in 0..MaxAttempts
        /\ \/ undo'[j].phase = "failed"
           \/ /\ undo'[j].phase = IF n > 1 THEN "calls" ELSE "done"
              /\ undo'[j].left = Tail(undo[j].left)
    BY <1>2, <1>5, AfterCallCases
  <1>7. \A i \in n..JobBlocks[j] : ~InDoc(Block(j, i))'
    <2>1. ASSUME NEW i \in n..JobBlocks[j] PROVE i = n \/ i \in (n + 1)..JobBlocks[j]
      BY <1>4
    <2>2. QED BY <1>3, <2>1
  <1>8. Undoable(j)'
    BY <1>1 DEF IInv, JobOK, UndoOK, Undoable
  <1>9. j \notin DOMAIN table'
    BY <1>1 DEF IInv, JobOK, Made
  <1>10. ASSUME undo'[j].phase = "calls" PROVE LeftOK(j)'
    <2>1. n > 1 /\ undo'[j].left = Tail(undo[j].left)
      BY <1>6, <1>10
    <2>2. PICK rest : rest = Tail(undo[j].left)
      OBVIOUS
    <2>3. rest = [i \in 1..(n - 1) |-> Block(j, n - i)]
      <3>1. undo[j].left \in Seq(AllBlocks)
        <4>1. ASSUME NEW i \in 1..n PROVE Block(j, n + 1 - i) \in AllBlocks
          <5>1. n + 1 - i \in 1..JobBlocks[j]
            BY <1>4
          <5>2. QED BY <5>1, BlockIsOne
        <4>2. undo[j].left = [i \in 1..n |-> Block(j, n + 1 - i)]
          BY <1>3
        <4>3. QED BY <1>4, <4>1, <4>2
      <3>2. Len(rest) = n - 1 /\ DOMAIN rest = 1..(n - 1)
        BY <1>4, <1>5, <2>1, <2>2, <3>1
      <3>3. ASSUME NEW i \in 1..(n - 1) PROVE rest[i] = Block(j, n - i)
        <4>1. rest[i] = undo[j].left[i + 1]
          BY <1>4, <1>5, <2>1, <2>2, <3>1
        <4>2. i + 1 \in 1..n /\ n + 1 - (i + 1) = n - i
          BY <1>4
        <4>3. QED BY <1>3, <4>1, <4>2
      <3>4. rest = [i \in 1..(n - 1) |-> rest[i]]
        <4>1. rest \in Seq(AllBlocks)
          BY <1>4, <1>5, <2>1, <2>2, <3>1
        <4>2. QED BY <3>2, <4>1
      <3>5. QED BY <3>3, <3>4
    <2>4. Len(rest) = n - 1 /\ n - 1 \in 1..JobBlocks[j] /\ n - 1 + 1 = n
      BY <1>4, <2>1, <2>3
    <2>5. rest = [i \in 1..(n - 1) |-> Block(j, n - 1 + 1 - i)]
      BY <2>3, <2>4
    <2>6. QED BY <1>1, <1>7, <2>1, <2>2, <2>4, <2>5 DEF LeftOK
  <1>11. UndoOK(j)'
    <2>1. ASSUME undo'[j].phase = "done" PROVE \A i \in 1..JobBlocks[j] : ~InDoc(Block(j, i))'
      <3>1. n = 1
        BY <1>4, <1>6, <2>1
      <3>2. QED BY <1>7, <3>1
    <2>2. QED BY <1>8, <1>9, <1>10, <2>1 DEF UndoOK
  <1>12. Opening(j)'
    <2>1. ASSUME NEW i \in 2..JobBlocks[j], InDoc(Block(j, i))'
          PROVE  InDoc(Block(j, i - 1))' \/ Block(j, i - 1) \in others'.removed
      <3>1. InDoc(Block(j, i)) /\ i \notin n..JobBlocks[j]
        BY <1>3, <1>7, <2>1
      <3>2. i - 1 # n
        BY <1>4, <3>1
      <3>3. Block(j, i - 1) # Block(j, n)
        BY <3>2 DEF Block
      <3>4. InDoc(Block(j, i - 1)) \/ Block(j, i - 1) \in others.removed
        BY <3>1 DEF IInv, JobOK, Opening
      <3>5. QED BY <1>1, <1>3, <3>3, <3>4
    <2>2. QED BY <2>1 DEF Opening
  <1>13. ASSUME NEW k \in Jobs \ {j}, NEW i \in 1..JobBlocks[k], InDoc(Block(k, i))
         PROVE  InDoc(Block(k, i))'
    <2>1. Block(k, i) # Block(j, n)
      BY DEF Block
    <2>2. QED BY <1>3, <1>13, <2>1
  <1>14. sheet' \in [Cells -> Values]
    BY <1>1 DEF IInv, ExecutionTypeOK
  <1>15. QED BY <1>1, <1>3, <1>6, <1>11, <1>12, <1>13, <1>14, UndoStepKeeps

-----------------------------------------------------------------------------
(* Other people                                                             *)

LEMMA OthersStepKeeps ==
    ASSUME IInv, run' = run, undo' = undo, table' = table, files' = files,
           DOMAIN others' = {"count", "removed"}, others'.count \in 0..MaxOthers,
           others.removed \subseteq others'.removed,
           doc' \in Seq(AllBlocks), IsInjective(doc'), Numbered',
           \A j \in Jobs : \A i \in 1..JobBlocks[j] :
              /\ InDoc(Block(j, i))' => InDoc(Block(j, i))
              /\ InDoc(Block(j, i)) => InDoc(Block(j, i))' \/ Block(j, i) \in others'.removed,
           sheet' \in [Cells -> Values]
    PROVE  IInv'
  <1>1. ExecutionTypeOK' /\ Shape'
    BY DEF IInv, ExecutionTypeOK, Shape
  <1>2. ASSUME NEW j \in Jobs PROVE JobOK(j)'
    <2>1. JobOK(j)
      BY DEF IInv
    <2>2. Appended(j)' /\ Made(j)'
      BY <2>1 DEF JobOK, Appended, Made
    <2>3. ReturnOK(j)'
      BY <2>1 DEF JobOK, ReturnOK, SnapshotHolds
    <2>4. Opening(j)'
      <3>1. \A i \in 2..JobBlocks[j] : i - 1 \in 1..JobBlocks[j] /\ i \in 1..JobBlocks[j]
        BY JobsAssumption
      <3>2. QED BY <2>1, <3>1 DEF JobOK, Opening
    <2>5. Undoable(j) => Undoable(j)'
      BY DEF Undoable
    <2>6. ASSUME undo[j].phase = "calls", LeftOK(j) PROVE LeftOK(j)'
      <3>1. ASSUME JobType[j] = "doc_append"
            PROVE  \A i \in (Len(undo[j].left) + 1)..JobBlocks[j] : i \in 1..JobBlocks[j]
        BY <2>6, <3>1, JobsAssumption DEF LeftOK
      <3>2. QED BY <2>6, <3>1 DEF LeftOK
    <2>7. UndoOK(j)'
      BY <2>1, <2>5, <2>6 DEF JobOK, UndoOK
    <2>8. QED BY <2>2, <2>3, <2>4, <2>7 DEF JobOK
  <1>3. QED BY <1>1, <1>2 DEF IInv

LEMMA TheirBlocks ==
    /\ \A n \in 0..MaxOthers : Block("they", n) \in AllBlocks
    /\ \A b \in AllBlocks : b[1] = "they" => b[2] \in Nat
  <1>1. \A n \in 0..MaxOthers : Block("they", n) \in AllBlocks
    BY WhoseBlock
  <1>2. ASSUME NEW b \in AllBlocks, b[1] = "they" PROVE b[2] \in Nat
    <2>1. ASSUME NEW j \in Jobs, b \in BlocksOf(j) PROVE FALSE
      BY <1>2, <2>1, JobsAssumption DEF BlocksOf, Block
    <2>2. PICK n \in 0..MaxOthers : b = Block("they", n)
      BY <2>1, WhoseBlock
    <2>3. QED BY <2>2 DEF Block
  <1>3. QED BY <1>1, <1>2

LEMMA SomebodyInsertsKeeps ==
    ASSUME IInv, SomebodyInserts PROVE IInv'
  <1>1. /\ others.count < MaxOthers /\ others' = [others EXCEPT !.count = others.count + 1]
        /\ UNCHANGED <<sheet, table, files, run, undo>>
    BY DEF SomebodyInserts
  <1>2. PICK x : x = Block("they", others.count + 1)
    OBVIOUS
  <1>3. PICK i \in 1..(Len(doc) + 1) : doc' = InsertAt(doc, i, x)
    BY <1>2 DEF SomebodyInserts
  <1>4. /\ doc \in Seq(AllBlocks) /\ IsInjective(doc) /\ sheet \in [Cells -> Values]
        /\ others.count \in 0..MaxOthers /\ DOMAIN others = {"count", "removed"}
    BY DEF IInv, ExecutionTypeOK, Shape
  <1>5. /\ others'.count = others.count + 1 /\ others'.removed = others.removed
        /\ DOMAIN others' = {"count", "removed"} /\ others'.count \in 0..MaxOthers
    BY <1>1, <1>4, JobsAssumption
  <1>6. x \in AllBlocks
    BY <1>2, <1>5, TheirBlocks
  <1>7. x \notin ToSet(doc)
    <2>1. ASSUME NEW k \in DOMAIN doc, doc[k] = x PROVE FALSE
      <3>1. doc[k][2] =< others.count
        BY <1>2, <2>1 DEF IInv, Numbered, Block
      <3>2. QED BY <1>2, <1>4, <2>1, <3>1 DEF Block
    <2>2. QED BY <2>1 DEF ToSet
  <1>8. PICK e : e = InsertAt(doc, i, x)
    OBVIOUS
  <1>9. e \in Seq(AllBlocks) /\ IsInjective(e) /\ ToSet(e) = ToSet(doc) \cup {x}
    BY <1>4, <1>6, <1>7, <1>8, InsertionKeeps
  <1>10. doc' = e
    BY <1>3, <1>8
  <1>11. Numbered'
    <2>1. ASSUME NEW k \in DOMAIN e, e[k][1] = "they" PROVE e[k][2] =< others.count + 1
      <3>1. e[k] = x \/ \E m \in DOMAIN doc : doc[m] = e[k]
        BY <1>9 DEF ToSet
      <3>2. CASE e[k] = x
        BY <1>2, <1>4, <3>2 DEF Block
      <3>3. ASSUME NEW m \in DOMAIN doc, doc[m] = e[k] PROVE e[k][2] =< others.count + 1
        <4>1. e[k][2] =< others.count
          BY <2>1, <3>3 DEF IInv, Numbered
        <4>2. e[k] \in AllBlocks
          BY <1>9
        <4>3. e[k][2] \in Nat
          BY <2>1, <4>2, TheirBlocks
        <4>4. QED BY <1>4, <4>1, <4>3
      <3>4. QED BY <3>1, <3>2, <3>3
    <2>2. QED BY <1>5, <1>10, <2>1 DEF Numbered
  <1>12. ASSUME NEW j \in Jobs, NEW n \in 1..JobBlocks[j]
         PROVE  InDoc(Block(j, n))' <=> InDoc(Block(j, n))
    <2>1. Block(j, n) # x
      BY <1>2, JobsAssumption DEF Block
    <2>2. QED BY <1>9, <1>10, <2>1 DEF InDoc
  <1>13. QED BY <1>1, <1>4, <1>5, <1>9, <1>10, <1>11, <1>12, OthersStepKeeps

LEMMA SomebodyRemovesKeeps ==
    ASSUME IInv, SomebodyRemoves PROVE IInv'
  <1>1. /\ others.count < MaxOthers
        /\ UNCHANGED <<sheet, table, files, run, undo>>
    BY DEF SomebodyRemoves
  <1>2. PICK i \in DOMAIN doc :
           /\ doc' = RemoveAt(doc, i)
           /\ others' = [count |-> others.count + 1, removed |-> others.removed \cup {doc[i]}]
    BY DEF SomebodyRemoves
  <1>3. /\ doc \in Seq(AllBlocks) /\ IsInjective(doc) /\ sheet \in [Cells -> Values]
        /\ others.count \in 0..MaxOthers
    BY DEF IInv, ExecutionTypeOK
  <1>4. /\ others'.count = others.count + 1 /\ others'.removed = others.removed \cup {doc[i]}
        /\ DOMAIN others' = {"count", "removed"} /\ others'.count \in 0..MaxOthers
    BY <1>1, <1>2, <1>3, JobsAssumption
  <1>5. PICK e : e = RemoveAt(doc, i)
    OBVIOUS
  <1>6. e \in Seq(AllBlocks) /\ IsInjective(e) /\ ToSet(e) = ToSet(doc) \ {doc[i]}
    BY <1>3, <1>5, RemovalKeeps
  <1>7. doc' = e
    BY <1>2, <1>5
  <1>8. Numbered'
    <2>1. ASSUME NEW k \in DOMAIN e, e[k][1] = "they" PROVE e[k][2] =< others.count + 1
      <3>1. PICK m \in DOMAIN doc : doc[m] = e[k]
        BY <1>6 DEF ToSet
      <3>2. e[k][2] =< others.count
        BY <2>1, <3>1 DEF IInv, Numbered
      <3>3. e[k] \in AllBlocks
        BY <1>6
      <3>4. e[k][2] \in Nat
        BY <2>1, <3>3, TheirBlocks
      <3>5. QED BY <1>3, <3>2, <3>4
    <2>2. QED BY <1>4, <1>7, <2>1 DEF Numbered
  <1>9. ASSUME NEW j \in Jobs, NEW n \in 1..JobBlocks[j]
        PROVE  /\ InDoc(Block(j, n))' => InDoc(Block(j, n))
               /\ InDoc(Block(j, n)) => InDoc(Block(j, n))' \/ Block(j, n) \in others'.removed
    BY <1>4, <1>6, <1>7 DEF InDoc
  <1>10. QED BY <1>1, <1>3, <1>4, <1>6, <1>7, <1>8, <1>9, OthersStepKeeps

LEMMA SomebodyWritesKeeps ==
    ASSUME IInv, SomebodyWrites PROVE IInv'
  <1>1. /\ others.count < MaxOthers /\ others' = [others EXCEPT !.count = others.count + 1]
        /\ UNCHANGED <<doc, table, files, run, undo>>
    BY DEF SomebodyWrites
  <1>2. /\ doc \in Seq(AllBlocks) /\ IsInjective(doc) /\ sheet \in [Cells -> Values]
        /\ others.count \in 0..MaxOthers /\ DOMAIN others = {"count", "removed"}
    BY DEF IInv, ExecutionTypeOK, Shape
  <1>3. /\ others'.count = others.count + 1 /\ others'.removed = others.removed
        /\ DOMAIN others' = {"count", "removed"} /\ others'.count \in 0..MaxOthers
    BY <1>1, <1>2, JobsAssumption
  <1>4. sheet' \in [Cells -> Values]
    BY <1>2, SheetAssumption DEF SomebodyWrites
  <1>5. Numbered'
    <2>1. ASSUME NEW k \in DOMAIN doc, doc[k][1] = "they" PROVE doc[k][2] =< others.count + 1
      <3>1. doc[k][2] =< others.count
        BY <2>1 DEF IInv, Numbered
      <3>2. doc[k] \in AllBlocks
        BY <1>2
      <3>3. doc[k][2] \in Nat
        BY <2>1, <3>2, TheirBlocks
      <3>4. QED BY <1>2, <3>1, <3>3
    <2>2. QED BY <1>1, <1>3, <2>1 DEF Numbered
  <1>6. \A b : InDoc(b)' <=> InDoc(b)
    BY <1>1 DEF InDoc
  <1>7. QED BY <1>1, <1>2, <1>3, <1>4, <1>5, <1>6, OthersStepKeeps

-----------------------------------------------------------------------------
(* The invariant                                                            *)

LEMMA InitOK == Init => IInv
  <1> SUFFICES ASSUME Init PROVE IInv
    OBVIOUS
  <1>1. /\ doc = <<Block("they", 0)>> /\ sheet = [c \in Cells |-> IF c \in Formulas THEN "formula" ELSE "old"]
        /\ table = [r \in {"r0"} |-> "old"] /\ files = <<>>
        /\ undo = [j \in Jobs |-> [phase |-> "none", left |-> <<>>, attempts |-> 0]]
        /\ others = [count |-> 0, removed |-> {}]
    BY DEF Init
  <1>2. /\ DOMAIN run = Jobs
        /\ \A j \in Jobs : /\ DOMAIN run[j] = {"phase", "result", "before"}
                           /\ run[j].phase \in {"todo", "proposed"} /\ run[j].result = <<>>
    BY DEF Init, Execution
  <1>3. doc \in Seq(AllBlocks) /\ IsInjective(doc) /\ ToSet(doc) = {Block("they", 0)}
    <2>1. Block("they", 0) \in AllBlocks
      BY JobsAssumption, TheirBlocks
    <2>2. QED BY <1>1, <2>1 DEF IsInjective, ToSet
  <1>4. ExecutionTypeOK
    <2>1. DOMAIN files \subseteq Jobs
      BY <1>1
    <2>2. QED BY <1>1, <1>2, <1>3, <2>1, JobsAssumption, SheetAssumption DEF ExecutionTypeOK
  <1>5. Shape
    BY <1>1, <1>2 DEF Shape
  <1>6. Numbered
    BY <1>1 DEF Numbered, Block
  <1>7. ASSUME NEW j \in Jobs PROVE JobOK(j)
    <2>1. \A i \in 1..JobBlocks[j] : ~InDoc(Block(j, i))
      BY <1>3, JobsAssumption DEF InDoc, Block
    <2>2. Appended(j) /\ Made(j)
      BY <1>1, <2>1, JobsAssumption DEF Appended, Made
    <2>3. ReturnOK(j)
      BY <1>2 DEF ReturnOK
    <2>4. UndoOK(j)
      BY <1>1 DEF UndoOK
    <2>5. Opening(j)
      <3>1. \A i \in 2..JobBlocks[j] : i \in 1..JobBlocks[j]
        BY JobsAssumption
      <3>2. QED BY <2>1, <3>1 DEF Opening
    <2>6. QED BY <2>2, <2>3, <2>4, <2>5 DEF JobOK
  <1>8. QED BY <1>4, <1>5, <1>6, <1>7 DEF IInv

LEMMA StutterOK == IInv /\ UNCHANGED vars => IInv'
  <1> SUFFICES ASSUME IInv, UNCHANGED vars PROVE IInv'
    OBVIOUS
  <1>1. UNCHANGED <<doc, sheet, table, files, run, undo, others>>
    BY DEF vars
  <1>2. DOMAIN others' = {"count", "removed"} /\ others'.count \in 0..MaxOthers
    BY <1>1 DEF IInv, Shape, ExecutionTypeOK
  <1>3. sheet' \in [Cells -> Values]
    BY <1>1 DEF IInv, ExecutionTypeOK
  <1>4. QED BY <1>1, <1>2, <1>3, SameDoc, OthersStepKeeps

LEMMA NextOK == IInv /\ [Next]_vars => IInv'
  <1> SUFFICES ASSUME IInv, [Next]_vars PROVE IInv'
    OBVIOUS
  <1>1. ASSUME NEW j \in Jobs,
               \/ Refused(j) \/ AppendDocText(j) \/ CreateDoc(j) \/ FillDoc(j)
               \/ ReadSheetRange(j) \/ WriteSheetRange(j)
               \/ CreateBitableRecord(j) \/ UpdateBitableRecord(j)
        PROVE  IInv'
    BY <1>1, RefusedKeeps, AppendDocTextKeeps, CreateDocKeeps, ReadSheetRangeKeeps,
       WriteSheetRangeKeeps, BitableKeeps
  <1>2. ASSUME NEW j \in Jobs,
               \/ ConfirmUndo(j) \/ UndoRefused(j)
               \/ DeleteDocBlock(j) \/ DeleteBitableRecord(j) \/ RestoreSheetRange(j)
        PROVE  IInv'
    BY <1>2, ConfirmUndoKeeps, UndoRefusedKeeps, DeleteDocBlockKeeps,
       DeleteBitableRecordKeeps, RestoreSheetRangeKeeps
  <1>3. CASE SomebodyInserts \/ SomebodyRemoves \/ SomebodyWrites
    BY <1>3, SomebodyInsertsKeeps, SomebodyRemovesKeeps, SomebodyWritesKeeps
  <1>4. CASE UNCHANGED vars
    BY <1>4, StutterOK
  <1>5. QED BY <1>1, <1>2, <1>3, <1>4 DEF Next

(* In every behaviour, for all actions, texts, sheets and edits of others: the
   inductive invariant.  (FeishuWriteExecutor.execute.) *)
THEOREM ExecutionInvariant == Spec => []IInv
  <1>1. Init => IInv
    BY InitOK
  <1>2. IInv /\ [Next]_vars => IInv'
    BY NextOK
  <1>3. QED BY <1>1, <1>2, PTL DEF Spec

(* The state keeps its types, and no block ever stands twice in the document.
   (FeishuWriteExecutor.execute.) *)
THEOREM ExecutionTyped == Spec => []ExecutionTypeOK
  <1>1. IInv => ExecutionTypeOK
    BY DEF IInv
  <1>2. QED BY <1>1, ExecutionInvariant, PTL

(* What a partial or repeated undo leaves of a text is an opening of it, and an undo
   that counts as done leaves nothing.  (executor.py execute, the deleting types.) *)
THEOREM UndoLeavesOpenings == Spec => []UndoLeavesAnOpening
  <1>1. ASSUME IInv PROVE UndoLeavesAnOpening
    <2>1. ASSUME NEW j \in Jobs, NEW i \in 2..JobBlocks[j], Block(j, i) \in ToSet(doc)
          PROVE  Block(j, i - 1) \in ToSet(doc) \cup others.removed
      BY <1>1, <2>1 DEF IInv, JobOK, Opening, InDoc
    <2>2. ASSUME NEW j \in Jobs, undo[j].phase = "done"
          PROVE  (\A b \in ToSet(doc) : b[1] # j) /\ j \notin DOMAIN table
      <3>1. (\A i \in 1..JobBlocks[j] : Block(j, i) \notin ToSet(doc)) /\ j \notin DOMAIN table
        BY <1>1, <2>2 DEF IInv, JobOK, UndoOK, InDoc
      <3>2. ASSUME NEW b \in ToSet(doc), b[1] = j PROVE FALSE
        <4>1. b \in AllBlocks
          BY <1>1 DEF IInv, ExecutionTypeOK, ToSet
        <4>2. \A n \in 0..MaxOthers : b # Block("they", n)
          BY <3>2, JobsAssumption DEF Block
        <4>3. PICK k \in Jobs : b \in BlocksOf(k)
          BY <4>1, <4>2, WhoseBlock
        <4>4. PICK i \in 1..JobBlocks[k] : b = Block(k, i)
          BY <4>3 DEF BlocksOf
        <4>5. k = j
          BY <3>2, <4>4 DEF Block
        <4>6. QED BY <3>1, <4>4, <4>5
      <3>3. QED BY <3>1, <3>2
    <2>3. QED BY <2>1, <2>2 DEF UndoLeavesAnOpening
  <1>2. QED BY <1>1, ExecutionInvariant, PTL

(* Only other people take away or move what other people put into the document.
   (service.py _doc_created_block_ids.) *)
THEOREM OthersAreLeftAlone == Spec => OthersBlocksSurvive
  <1>1. ASSUME IInv, [Next]_vars, others' = others PROVE Theirs(doc') = Theirs(doc)
    <2>1. ASSUME NEW j \in Jobs, AppendDocText(j) PROVE Theirs(doc') = Theirs(doc)
      <3>1. doc \in Seq(AllBlocks)
        BY <1>1 DEF IInv, ExecutionTypeOK
      <3>2. Blocks(j) \in Seq(AllBlocks) /\ \A k \in DOMAIN Blocks(j) : Blocks(j)[k][1] # "they"
        BY BlocksTyped, JobsAssumption
      <3>3. doc' = Blocks(j) \o doc \/ doc' = doc \o Blocks(j)
        BY <2>1 DEF AppendDocText
      <3>4. QED BY <3>1, <3>2, <3>3, JoiningKeepsTheirs
    <2>2. ASSUME NEW j \in Jobs, DeleteDocBlock(j) PROVE Theirs(doc') = Theirs(doc)
      BY <1>1, <2>2, DeletedBlock
    <2>3. CASE UNCHANGED doc
      BY <2>3
    <2>4. ASSUME SomebodyInserts \/ SomebodyRemoves PROVE FALSE
      <3>1. others.count \in Int /\ DOMAIN others = {"count", "removed"}
        BY <1>1 DEF IInv, ExecutionTypeOK, Shape
      <3>2. others'.count = others.count + 1
        BY <2>4, <3>1 DEF SomebodyInserts, SomebodyRemoves
      <3>3. QED BY <1>1, <3>1, <3>2
    <2>5. ASSUME NEW j \in Jobs,
                 \/ Refused(j) \/ CreateDoc(j) \/ FillDoc(j)
                 \/ ReadSheetRange(j) \/ WriteSheetRange(j)
                 \/ CreateBitableRecord(j) \/ UpdateBitableRecord(j)
                 \/ ConfirmUndo(j) \/ UndoRefused(j)
                 \/ DeleteBitableRecord(j) \/ RestoreSheetRange(j)
          PROVE  UNCHANGED doc
      BY <2>5 DEF Refused, CreateDoc, FillDoc, ReadSheetRange, WriteSheetRange,
                  CreateBitableRecord, UpdateBitableRecord, ConfirmUndo, UndoRefused,
                  DeleteBitableRecord, RestoreSheetRange
    <2>6. SomebodyWrites \/ UNCHANGED vars => UNCHANGED doc
      BY DEF SomebodyWrites, vars
    <2>7. QED BY <1>1, <2>1, <2>2, <2>3, <2>4, <2>5, <2>6 DEF Next
  <1>2. QED BY <1>1, ExecutionInvariant, PTL DEF Spec, OthersBlocksSurvive

(* The undo of a sheet write puts back into every cell the write wrote the text that cell
   showed when it was read: the cell's own text, or what its formula, number or date looked
   like.  (executor.py _sheet_snapshot; openapi.py read_sheet_range.) *)
THEOREM CellsAreRestored == Spec => UndoRestoresWhatWasShown
  <1>1. ASSUME IInv, [Next]_vars,
               NEW j \in Jobs, JobType[j] = "sheet_write",
               undo[j].phase # "done", undo'[j].phase = "done",
               NEW c \in DOMAIN run[j].before
        PROVE  sheet'[c] = Rendered[run[j].before[c]]
    <2>1. CASE RestoreSheetRange(j)
      <3>1. undo[j].phase = "calls" /\ sheet' = Overlay(sheet, Head(undo[j].left))
        BY <2>1 DEF RestoreSheetRange
      <3>2. undo[j].left = <<run[j].result>> /\ SnapshotHolds(j)
        BY <1>1, <3>1 DEF IInv, JobOK, UndoOK, LeftOK, Undoable, ReturnOK
      <3>3. /\ c \in WrittenCells(run[j].result)
            /\ run[j].result[c[1]][c[2]] = Rendered[run[j].before[c]]
        BY <1>1, <3>2 DEF SnapshotHolds
      <3>4. c \in Cells
        <4>1. DOMAIN run[j].before = WrittenCells(JobValues[j])
          BY <3>2 DEF SnapshotHolds
        <4>2. QED BY <1>1, <4>1, SheetAssumption, SnapshotCovers DEF IInv, ExecutionTypeOK
      <3>5. sheet' = Overlay(sheet, run[j].result)
        BY <3>1, <3>2
      <3>6. QED BY <3>3, <3>4, <3>5 DEF Overlay
    <2>2. ASSUME ~RestoreSheetRange(j) PROVE FALSE
      <3>1. DOMAIN undo = Jobs /\ DOMAIN undo[j] = {"phase", "left", "attempts"}
        BY <1>1 DEF IInv, Shape
      <3>2. undo' # undo
        BY <1>1
      <3>3. PICK k \in Jobs : \/ ConfirmUndo(k) \/ UndoRefused(k) \/ DeleteDocBlock(k)
                              \/ DeleteBitableRecord(k) \/ RestoreSheetRange(k)
        BY <1>1, <3>2 DEF Next, vars, Refused, AppendDocText, CreateDoc, FillDoc, ReadSheetRange,
           WriteSheetRange, CreateBitableRecord, UpdateBitableRecord, SomebodyInserts,
           SomebodyRemoves, SomebodyWrites
      <3>4. \A i \in Jobs \ {k} : undo'[i] = undo[i]
        BY <3>1, <3>3, <1>1 DEF ConfirmUndo, UndoRefused, DeleteDocBlock, DeleteBitableRecord,
           RestoreSheetRange, IInv, Shape
      <3>5. k = j
        BY <1>1, <3>4
      <3>6. ConfirmUndo(j) \/ UndoRefused(j)
        BY <1>1, <2>2, <3>3, <3>5 DEF DeleteDocBlock, DeleteBitableRecord
      <3>7. undo'[j].phase # "done"
        BY <3>1, <3>6 DEF ConfirmUndo, UndoRefused
      <3>8. QED BY <1>1, <3>7
    <2>3. QED BY <2>1, <2>2
  <1>2. ASSUME IInv, [Next]_vars
        PROVE  \A j \in Jobs :
                  (JobType[j] = "sheet_write" /\ undo[j].phase # "done" /\ undo'[j].phase = "done")
                     => \A c \in DOMAIN run[j].before : sheet'[c] = Rendered[run[j].before[c]]
    BY <1>1, <1>2
  <1>3. QED BY <1>2, ExecutionInvariant, PTL DEF Spec, UndoRestoresWhatWasShown
===========================================================================
