------------------------------ MODULE NvsProofs -----------------------------
(***************************************************************************)
(* Theorems about Nvs, for all names, page sizes, counter widths and       *)
(* numbers of calls.                                                       *)
(***************************************************************************)
EXTENDS Nvs, TLAPS

Index == 0..(Indexes - 1)
TableEntry == [name : Names \ LongNames, index : Index, page : Nat, slot : Nat]
Item == [ns : Index, key : Names \ LongNames, val : Nat, page : Nat, slot : Nat,
         span : 1..Capacity]
Cursor == [page : Nat, n : 0..Capacity]

\* An entry that ends before the cursor c, and fits its page.
Below(e, span, c) ==
    /\ e.slot + span <= Capacity
    /\ e.page < c.page \/ (e.page = c.page /\ e.slot + span <= c.n)

\* The layout of a partition with cursor c, namespace entries t and items q.  It
\* is stated of any three so that the stages of a setter can be taken in turn.
Layout(c, t, q) ==
    /\ c \in Cursor /\ t \in Seq(TableEntry) /\ q \in Seq(Item)
    /\ \A i \in DOMAIN t : Below(t[i], 1, c)
    /\ \A i \in DOMAIN q : Below(q[i], q[i].span, c)
    /\ \A i, j \in DOMAIN t : i # j => Slots(t[i], 1) \cap Slots(t[j], 1) = {}
    /\ \A i \in DOMAIN t, j \in DOMAIN q : Slots(t[i], 1) \cap Slots(q[j], q[j].span) = {}
    /\ \A i, j \in DOMAIN q : i # j => Slots(q[i], q[i].span) \cap Slots(q[j], q[j].span) = {}

\* What Append does, element by element.
LEMMA Appended ==
    ASSUME NEW S, NEW s \in Seq(S), NEW e \in S
    PROVE  /\ Append(s, e) \in Seq(S)
           /\ DOMAIN Append(s, e) = DOMAIN s \cup {Len(s) + 1}
           /\ Len(s) + 1 \notin DOMAIN s
           /\ \A i \in DOMAIN s : Append(s, e)[i] = s[i] /\ s[i] \in S
           /\ Append(s, e)[Len(s) + 1] = e
  OBVIOUS

LEMMA Element == ASSUME NEW S, NEW s \in Seq(S), NEW i \in DOMAIN s PROVE s[i] \in S
  OBVIOUS

\* The fields a layout uses, of the entries and items in one.
LEMMA EntryFields ==
    ASSUME NEW e \in TableEntry
    PROVE  e.page \in Nat /\ e.slot \in Nat
  BY DEF TableEntry

LEMMA ItemFields ==
    ASSUME NEW e \in Item
    PROVE  e.page \in Nat /\ e.slot \in Nat /\ e.span \in 1..Capacity /\ e.span \in Nat
<1>1. e.page \in Nat /\ e.slot \in Nat /\ e.span \in 1..Capacity
  BY DEF Item
<1> QED
  BY <1>1, NvsAssumption

LEMMA SpansType == Spans \subseteq Nat \ {0}
<1>1. ASSUME NEW l \in Nat PROVE VarSpan(l) \in Nat \ {0}
  <2>1. l + EntrySize - 1 \in Nat /\ EntrySize \in Nat \ {0}
    BY NvsAssumption
  <2>2. (l + EntrySize - 1) \div EntrySize \in Nat
    BY <2>1, Z3
  <2> QED
    BY <2>2 DEF VarSpan
<1>2. Lengths \subseteq Nat
  BY NvsAssumption
<1> QED
  BY <1>1, <1>2 DEF Spans

\* Where fit() puts an item of a given span.
LEMMA FitType ==
    ASSUME NEW c \in Cursor, NEW span \in 1..Capacity
    PROVE  /\ Fit(c, span) \in Cursor
           /\ Fit(c, span).n + span <= Capacity
           /\ Fit(c, span).page > c.page \/ Fit(c, span) = c
  BY NvsAssumption DEF Cursor, Fit, Advances, Free

LEMMA AfterType ==
    ASSUME NEW c \in Cursor, NEW span \in 1..Capacity, c.n + span <= Capacity
    PROVE  /\ After(c, span) \in Cursor
           /\ After(c, span).page = c.page /\ After(c, span).n = c.n + span
  BY NvsAssumption DEF Cursor, After

\* A cursor that moves on leaves what was below it below it.
LEMMA BelowMoves ==
    ASSUME NEW c \in Cursor, NEW d \in Cursor,
           d.page > c.page \/ (d.page = c.page /\ d.n >= c.n),
           NEW e, NEW span \in Nat, e.page \in Nat, e.slot \in Nat, Below(e, span, c)
    PROVE  Below(e, span, d)
  BY NvsAssumption DEF Below, Cursor

\* Entries below a cursor share no slot with one that starts at it.
LEMMA ApartFromNew ==
    ASSUME NEW c \in Cursor, NEW e, NEW span \in Nat, e.page \in Nat, e.slot \in Nat,
           Below(e, span, c),
           NEW f, NEW fspan \in Nat, f.page = c.page, f.slot = c.n
    PROVE  Slots(e, span) \cap Slots(f, fspan) = {}
<1>1. SUFFICES ASSUME NEW x \in Slots(e, span), x \in Slots(f, fspan) PROVE FALSE
  OBVIOUS
<1>2. PICK s \in e.slot .. (e.slot + span - 1) : x = <<e.page, s>>
  BY <1>1 DEF Slots
<1>3. PICK r \in f.slot .. (f.slot + fspan - 1) : x = <<f.page, r>>
  BY <1>1 DEF Slots
<1>4. e.page = f.page /\ s = r
  BY <1>2, <1>3
<1> QED
  BY <1>2, <1>3, <1>4, NvsAssumption DEF Below, Cursor

LEMMA LayoutFit ==
    ASSUME NEW c, NEW t, NEW q, Layout(c, t, q), NEW span \in 1..Capacity
    PROVE  Layout(Fit(c, span), t, q)
<1>0. c \in Cursor /\ t \in Seq(TableEntry) /\ q \in Seq(Item)
  BY DEF Layout
<1>4. /\ Fit(c, span) \in Cursor
      /\ Fit(c, span).page > c.page \/ Fit(c, span) = c
  BY <1>0, FitType
<1>5. c.n \in Nat /\ c.page \in Nat /\ 1 \in Nat
  BY <1>0, NvsAssumption DEF Cursor
<1>1. /\ Fit(c, span) \in Cursor /\ c \in Cursor
      /\ Fit(c, span).page > c.page \/ (Fit(c, span).page = c.page /\ Fit(c, span).n >= c.n)
  BY <1>0, <1>4, <1>5
<1>2. ASSUME NEW i \in DOMAIN t PROVE Below(t[i], 1, Fit(c, span))
  <2>1. t[i].page \in Nat /\ t[i].slot \in Nat
    BY <1>0, Element, EntryFields
  <2>2. Below(t[i], 1, c)
    BY DEF Layout
  <2> QED
    BY <1>1, <1>5, <2>1, <2>2, BelowMoves
<1>3. ASSUME NEW i \in DOMAIN q PROVE Below(q[i], q[i].span, Fit(c, span))
  <2>1. q[i].page \in Nat /\ q[i].slot \in Nat /\ q[i].span \in Nat
    BY <1>0, Element, ItemFields
  <2>2. Below(q[i], q[i].span, c)
    BY DEF Layout
  <2> QED
    BY <1>1, <2>1, <2>2, BelowMoves
<1> QED
  BY <1>0, <1>1, <1>2, <1>3 DEF Layout

\* Writing a namespace entry, or an item, at a cursor with room for it.
LEMMA LayoutNamespace ==
    ASSUME NEW c, NEW t, NEW q, Layout(c, t, q), c.n + 1 <= Capacity,
           NEW e \in TableEntry, e.page = c.page, e.slot = c.n
    PROVE  Layout(After(c, 1), Append(t, e), q)
<1> DEFINE u == Append(t, e)
           d == After(c, 1)
<1>1. c \in Cursor /\ t \in Seq(TableEntry) /\ q \in Seq(Item) /\ 1 \in 1..Capacity
  BY NvsAssumption DEF Layout
<1>2. d \in Cursor /\ d.page = c.page /\ d.n = c.n + 1
  BY <1>1, AfterType
<1>3. /\ u \in Seq(TableEntry) /\ DOMAIN u = DOMAIN t \cup {Len(t) + 1}
      /\ Len(t) + 1 \notin DOMAIN t /\ u[Len(t) + 1] = e
      /\ \A i \in DOMAIN t : u[i] = t[i] /\ t[i] \in TableEntry
  BY <1>1, Appended
<1>4. d.page > c.page \/ (d.page = c.page /\ d.n >= c.n)
  BY <1>1, <1>2 DEF Cursor
<1>5. ASSUME NEW i \in DOMAIN t
      PROVE  Below(t[i], 1, d) /\ Slots(t[i], 1) \cap Slots(e, 1) = {}
  <2>1. t[i].page \in Nat /\ t[i].slot \in Nat
    BY <1>1, Element, EntryFields
  <2>2. Below(t[i], 1, c)
    BY DEF Layout
  <2> QED
    BY <1>1, <1>2, <1>4, <2>1, <2>2, BelowMoves, ApartFromNew
<1>6. ASSUME NEW i \in DOMAIN q
      PROVE  Below(q[i], q[i].span, d) /\ Slots(q[i], q[i].span) \cap Slots(e, 1) = {}
  <2>1. q[i].page \in Nat /\ q[i].slot \in Nat /\ q[i].span \in Nat
    BY <1>1, Element, ItemFields
  <2>2. Below(q[i], q[i].span, c)
    BY DEF Layout
  <2> QED
    BY <1>1, <1>2, <1>4, <2>1, <2>2, BelowMoves, ApartFromNew
<1>7. Below(e, 1, d)
  BY <1>1, <1>2 DEF Below, Cursor
<1>8. \A i \in DOMAIN u : Below(u[i], 1, d)
  BY <1>3, <1>5, <1>7
<1>9. \A i, j \in DOMAIN u : i # j => Slots(u[i], 1) \cap Slots(u[j], 1) = {}
  <2>1. SUFFICES ASSUME NEW i \in DOMAIN u, NEW j \in DOMAIN u, i # j
                 PROVE  Slots(u[i], 1) \cap Slots(u[j], 1) = {}
    OBVIOUS
  <2>2. CASE i \in DOMAIN t /\ j \in DOMAIN t
    BY <1>3, <2>1, <2>2 DEF Layout
  <2>3. CASE i \in DOMAIN t /\ j = Len(t) + 1
    BY <1>3, <1>5, <2>3
  <2>4. CASE j \in DOMAIN t /\ i = Len(t) + 1
    BY <1>3, <1>5, <2>4
  <2> QED
    BY <1>3, <2>1, <2>2, <2>3, <2>4
<1>10. \A i \in DOMAIN u, j \in DOMAIN q : Slots(u[i], 1) \cap Slots(q[j], q[j].span) = {}
  BY <1>3, <1>6 DEF Layout
<1> QED
  BY <1>1, <1>2, <1>3, <1>6, <1>8, <1>9, <1>10 DEF Layout

LEMMA LayoutItem ==
    ASSUME NEW c, NEW t, NEW q, Layout(c, t, q),
           NEW e \in Item, e.page = c.page, e.slot = c.n, c.n + e.span <= Capacity
    PROVE  Layout(After(c, e.span), t, Append(q, e))
<1> DEFINE u == Append(q, e)
           d == After(c, e.span)
<1>1. /\ c \in Cursor /\ t \in Seq(TableEntry) /\ q \in Seq(Item)
      /\ e.span \in 1..Capacity /\ e.span \in Nat
  BY ItemFields DEF Layout
<1>2. d \in Cursor /\ d.page = c.page /\ d.n = c.n + e.span
  BY <1>1, AfterType
<1>3. /\ u \in Seq(Item) /\ DOMAIN u = DOMAIN q \cup {Len(q) + 1}
      /\ Len(q) + 1 \notin DOMAIN q /\ u[Len(q) + 1] = e
      /\ \A i \in DOMAIN q : u[i] = q[i] /\ q[i] \in Item
  BY <1>1, Appended
<1>4. d.page > c.page \/ (d.page = c.page /\ d.n >= c.n)
  BY <1>1, <1>2 DEF Cursor
<1>5. ASSUME NEW i \in DOMAIN t
      PROVE  Below(t[i], 1, d) /\ Slots(t[i], 1) \cap Slots(e, e.span) = {}
  <2>1. t[i].page \in Nat /\ t[i].slot \in Nat
    BY <1>1, Element, EntryFields
  <2>2. Below(t[i], 1, c)
    BY DEF Layout
  <2> QED
    BY <1>1, <1>2, <1>4, <2>1, <2>2, BelowMoves, ApartFromNew
<1>6. ASSUME NEW i \in DOMAIN q
      PROVE  Below(q[i], q[i].span, d) /\ Slots(q[i], q[i].span) \cap Slots(e, e.span) = {}
  <2>1. q[i].page \in Nat /\ q[i].slot \in Nat /\ q[i].span \in Nat
    BY <1>1, Element, ItemFields
  <2>2. Below(q[i], q[i].span, c)
    BY DEF Layout
  <2> QED
    BY <1>1, <1>2, <1>4, <2>1, <2>2, BelowMoves, ApartFromNew
<1>7. Below(e, e.span, d)
  BY <1>1, <1>2 DEF Below, Cursor
<1>8. \A i \in DOMAIN u : Below(u[i], u[i].span, d)
  BY <1>3, <1>6, <1>7
<1>9. \A i, j \in DOMAIN u : i # j => Slots(u[i], u[i].span) \cap Slots(u[j], u[j].span) = {}
  <2>1. SUFFICES ASSUME NEW i \in DOMAIN u, NEW j \in DOMAIN u, i # j
                 PROVE  Slots(u[i], u[i].span) \cap Slots(u[j], u[j].span) = {}
    OBVIOUS
  <2>2. CASE i \in DOMAIN q /\ j \in DOMAIN q
    BY <1>3, <2>1, <2>2 DEF Layout
  <2>3. CASE i \in DOMAIN q /\ j = Len(q) + 1
    BY <1>3, <1>6, <2>3
  <2>4. CASE j \in DOMAIN q /\ i = Len(q) + 1
    BY <1>3, <1>6, <2>4
  <2> QED
    BY <1>3, <2>1, <2>2, <2>3, <2>4
<1>10. \A i \in DOMAIN t, j \in DOMAIN u : Slots(t[i], 1) \cap Slots(u[j], u[j].span) = {}
  BY <1>3, <1>5 DEF Layout
<1> QED
  BY <1>1, <1>2, <1>3, <1>5, <1>8, <1>9, <1>10 DEF Layout

-----------------------------------------------------------------------------
(* The stages of a setter. *)

\* Every item has the entry of its namespace before it.
Ordered(t, q) ==
    \A i \in DOMAIN q : \E j \in DOMAIN t :
        /\ t[j].index = q[i].ns
        /\ \/ t[j].page < q[i].page
           \/ t[j].page = q[i].page /\ t[j].slot < q[i].slot

IndexedBy(t, k) == \E j \in DOMAIN t : t[j].index = k

LEMMA NextIndexType == ASSUME nsN \in Index PROVE NextIndex \in Index
<1>1. nsN + 1 \in Nat /\ Indexes \in Nat /\ Indexes > 0
  BY NvsAssumption DEF Index
<1>2. (nsN + 1) % Indexes \in 0..(Indexes - 1)
  BY <1>1, Z3
<1> QED
  BY <1>2 DEF NextIndex, Index

\* namespace() keeps the layout, and returns an index that has an entry.
LEMMA RegisteredType ==
    ASSUME nsN \in Index, Layout(cur, table, items), Ordered(table, items),
           NEW ns \in Names, Known(ns) \/ ns \notin LongNames
    PROVE  LET r == Registered(ns) IN
           /\ Layout(r.cur, r.table, items) /\ Ordered(r.table, items)
           /\ r.nsN \in Index /\ r.index \in Index /\ IndexedBy(r.table, r.index)
<1> DEFINE r == Registered(ns)
<1>1. CASE Known(ns)
  <2>1. r = [cur |-> cur, table |-> table, nsN |-> nsN, index |-> IndexOf(ns)]
    BY <1>1 DEF Registered
  <2>2. PICK i \in DOMAIN table : IndexOf(ns) = table[i].index
    BY <1>1 DEF Known, IndexOf
  <2>3. table[i] \in TableEntry
    BY Element DEF Layout
  <2>4. table[i].index \in Index
    BY <2>3 DEF TableEntry
  <2> QED
    BY <2>1, <2>2, <2>4 DEF IndexedBy
<1>2. CASE ~Known(ns)
  <2> DEFINE at == Fit(cur, 1)
             e == [name |-> ns, index |-> NextIndex, page |-> at.page, slot |-> at.n]
  <2>1. r = [cur |-> After(at, 1), nsN |-> NextIndex, index |-> NextIndex,
             table |-> Append(table, e)]
    BY <1>2 DEF Registered
  <2>2. 1 \in 1..Capacity /\ cur \in Cursor /\ table \in Seq(TableEntry)
    BY NvsAssumption DEF Layout
  <2>3. Layout(at, table, items) /\ at \in Cursor /\ at.n + 1 <= Capacity
    BY <2>2, LayoutFit, FitType
  <2>4. at.page \in Nat /\ at.n \in Nat
    BY <2>3, NvsAssumption DEF Cursor
  <2>5. e \in TableEntry /\ e.page = at.page /\ e.slot = at.n /\ e.index = NextIndex
    BY <1>2, <2>4, NextIndexType DEF TableEntry
  <2>6. Layout(After(at, 1), Append(table, e), items)
    BY <2>3, <2>5, LayoutNamespace
  <2>7. /\ DOMAIN table \subseteq DOMAIN Append(table, e)
        /\ Len(table) + 1 \in DOMAIN Append(table, e)
        /\ \A i \in DOMAIN table : Append(table, e)[i] = table[i]
        /\ Append(table, e)[Len(table) + 1] = e
    BY <2>2, <2>5, Appended
  <2>8. Ordered(Append(table, e), items)
    BY <2>7 DEF Ordered
  <2>9. IndexedBy(Append(table, e), NextIndex)
    BY <2>5, <2>7 DEF IndexedBy
  <2> QED
    BY <2>1, <2>6, <2>8, <2>9, NextIndexType
<1> QED
  BY <1>1, <1>2

-----------------------------------------------------------------------------
(* The invariant. *)

Request == Names \X Names \X (0..MaxCalls)

IInv ==
    /\ Layout(cur, table, items)
    /\ Ordered(table, items)
    /\ nsN \in Index
    /\ calls \in 0..MaxCalls
    /\ args = <<>> \/ args \in Request
    /\ wrapped \in BOOLEAN
    /\ result \in {"nil", "error", "rendered", "full"}

LEMMA InitIInv == Init => IInv
<1> SUFFICES ASSUME Init PROVE IInv
  OBVIOUS
<1>1. Layout(cur, table, items)
  BY NvsAssumption DEF Init, Layout, Cursor
<1>2. Ordered(table, items)
  BY DEF Init, Ordered
<1>3. nsN \in Index /\ calls \in 0..MaxCalls
  BY NvsAssumption DEF Init, Index
<1> QED
  BY <1>1, <1>2, <1>3 DEF IInv, Init

LEMMA SetItemIInv ==
    ASSUME IInv, NEW ns \in Names, NEW key \in Names, NEW span \in Nat \ {0},
           SetItem(ns, key, span), calls \in Nat
    PROVE  Layout(cur', table', items') /\ Ordered(table', items') /\ nsN' \in Index
<1> DEFINE r == Registered(ns)
           at == Fit(r.cur, span)
           e == [ns |-> r.index, key |-> key, val |-> calls,
                 page |-> at.page, slot |-> at.n, span |-> span]
<1>1. /\ cur' = After(at, span) /\ table' = r.table /\ nsN' = r.nsN
      /\ items' = Append(items, e)
      /\ span \in 1..Capacity /\ key \in Names \ LongNames
  BY NvsAssumption DEF SetItem, ItemIndex
<1>2. /\ Layout(r.cur, r.table, items) /\ Ordered(r.table, items)
      /\ r.nsN \in Index /\ r.index \in Index /\ IndexedBy(r.table, r.index)
  BY RegisteredType DEF IInv, SetItem
<1>3. r.cur \in Cursor /\ r.table \in Seq(TableEntry) /\ items \in Seq(Item)
  BY <1>2 DEF Layout
<1>4. /\ Layout(at, r.table, items) /\ at \in Cursor /\ at.n + span <= Capacity
      /\ at.page > r.cur.page \/ at = r.cur
  BY <1>1, <1>2, <1>3, LayoutFit, FitType
<1>5. at.page \in Nat /\ at.n \in Nat /\ r.cur.page \in Nat /\ r.cur.n \in Nat
  BY <1>3, <1>4, NvsAssumption DEF Cursor
<1>6. e \in Item /\ e.page = at.page /\ e.slot = at.n /\ e.span = span /\ e.ns = r.index
  BY <1>1, <1>2, <1>5 DEF Item
<1>7. Layout(After(at, span), r.table, Append(items, e))
  <2> HIDE DEF e, at, r
  <2> QED
    BY <1>4, <1>6, LayoutItem
<1>8. PICK j \in DOMAIN r.table : r.table[j].index = r.index
  BY <1>2 DEF IndexedBy
<1>9. r.table[j].page < e.page \/ (r.table[j].page = e.page /\ r.table[j].slot < e.slot)
  <2>1. Below(r.table[j], 1, at)
    BY <1>4 DEF Layout
  <2>2. r.table[j].page \in Nat /\ r.table[j].slot \in Nat
    BY <1>3, Element, EntryFields
  <2> HIDE DEF e, at, r
  <2> QED
    BY <1>5, <1>6, <2>1, <2>2 DEF Below
<1>10. /\ DOMAIN Append(items, e) = DOMAIN items \cup {Len(items) + 1}
       /\ \A i \in DOMAIN items : Append(items, e)[i] = items[i]
       /\ Append(items, e)[Len(items) + 1] = e
  <2> HIDE DEF e
  <2> QED
    BY <1>3, <1>6, Appended
<1>11. Ordered(r.table, Append(items, e))
  <2> HIDE DEF e, r
  <2> SUFFICES ASSUME NEW i \in DOMAIN Append(items, e)
               PROVE  \E k \in DOMAIN r.table :
                        /\ r.table[k].index = Append(items, e)[i].ns
                        /\ \/ r.table[k].page < Append(items, e)[i].page
                           \/ /\ r.table[k].page = Append(items, e)[i].page
                              /\ r.table[k].slot < Append(items, e)[i].slot
    BY DEF Ordered
  <2>1. CASE i \in DOMAIN items
    BY <1>2, <1>10, <2>1 DEF Ordered
  <2>2. CASE i = Len(items) + 1
    BY <1>6, <1>8, <1>9, <1>10, <2>2
  <2> QED
    BY <1>10, <2>1, <2>2
<1> QED
  BY <1>1, <1>2, <1>7, <1>11

LEMMA BadItemIInv ==
    ASSUME IInv, NEW ns \in Names, NEW key \in Names, NEW span \in Nat \ {0},
           BadItem(ns, key, span)
    PROVE  Layout(cur', table', items') /\ Ordered(table', items') /\ nsN' \in Index
<1> DEFINE r == Registered(ns)
<1>1. /\ table' = r.table /\ nsN' = r.nsN /\ items' = items
      /\ cur' = IF span > Capacity THEN r.cur ELSE Fit(r.cur, span)
  BY DEF BadItem
<1>2. /\ Layout(r.cur, r.table, items) /\ Ordered(r.table, items)
      /\ r.nsN \in Index
  BY RegisteredType DEF IInv, BadItem
<1>3. CASE span > Capacity
  BY <1>1, <1>2, <1>3
<1>4. CASE ~(span > Capacity)
  <2>1. span \in 1..Capacity
    BY <1>4, NvsAssumption
  <2>2. Layout(Fit(r.cur, span), r.table, items)
    BY <1>2, <2>1, LayoutFit
  <2> QED
    BY <1>1, <1>2, <1>4, <2>2
<1> QED
  BY <1>3, <1>4

LEMMA BadNamespaceIInv ==
    ASSUME IInv, NEW ns \in Names, BadNamespace(ns)
    PROVE  Layout(cur', table', items') /\ Ordered(table', items') /\ nsN' \in Index
<1>1. 1 \in 1..Capacity
  BY NvsAssumption
<1>2. Layout(Fit(cur, 1), table, items) /\ NextIndex \in Index
  BY <1>1, LayoutFit, NextIndexType DEF IInv
<1> QED
  BY <1>2 DEF IInv, BadNamespace

LEMMA StepIInv == IInv /\ [Next]_vars => IInv'
<1> SUFFICES ASSUME IInv, [Next]_vars PROVE IInv'
  OBVIOUS
<1>1. CASE Set
  <2>1. /\ calls \in Nat /\ calls' \in 0..MaxCalls
    BY <1>1, NvsAssumption DEF IInv, Set
  <2>2. PICK ns \in Names, key \in Names, span \in Spans :
          /\ args' = <<ns, key, calls>> /\ wrapped' = (wrapped \/ RunsOver(ns))
          /\ BadNamespace(ns) \/ BadItem(ns, key, span) \/ SetItem(ns, key, span)
    BY <1>1 DEF Set
  <2>3. span \in Nat \ {0}
    BY SpansType
  <2>4. Layout(cur', table', items') /\ Ordered(table', items') /\ nsN' \in Index
    BY <2>1, <2>2, <2>3, BadNamespaceIInv, BadItemIInv, SetItemIInv
  <2>5. result' \in {"nil", "error", "rendered", "full"}
    BY <2>2 DEF BadNamespace, BadItem, SetItem
  <2>6. args' \in Request /\ wrapped' \in BOOLEAN
    BY <2>2 DEF Request, IInv
  <2> QED
    BY <2>1, <2>4, <2>5, <2>6 DEF IInv
<1>2. CASE Bytes
  BY <1>2 DEF IInv, Bytes
<1>3. CASE UNCHANGED vars
  BY <1>3 DEF IInv, vars
<1> QED
  BY <1>1, <1>2, <1>3 DEF Next

LEMMA Invariance == Spec => []IInv
  BY InitIInv, StepIInv, PTL DEF Spec

-----------------------------------------------------------------------------
(* Theorems. *)

\* Type correctness.
THEOREM TypeCorrect == Spec => []TypeOK
<1>1. IInv => TypeOK
  BY DEF IInv, Layout, TypeOK, Cursor, TableEntry, Item, Index, Request
<1> QED
  BY <1>1, Invariance, PTL

LEMMA BelowContained ==
    ASSUME NEW c \in Cursor, NEW e, NEW span \in Nat, e.page \in Nat, e.slot \in Nat,
           Below(e, span, c)
    PROVE  Slots(e, span) \subseteq (0..c.page) \X (0..(Capacity - 1))
<1>1. SUFFICES ASSUME NEW s \in e.slot .. (e.slot + span - 1)
               PROVE  e.page \in 0..c.page /\ s \in 0..(Capacity - 1)
  BY DEF Slots
<1> QED
  BY <1>1, NvsAssumption DEF Below, Cursor

\* Whatever setters fail, and where, every entry and item lies in slots of its own
\* within a page of the partition (nvs.go, fit and writeEntry).
THEOREM ContainedCorrect == Spec => []Contained
<1>1. ASSUME IInv PROVE Contained
  <2>1. cur \in Cursor /\ table \in Seq(TableEntry) /\ items \in Seq(Item)
    BY <1>1 DEF IInv, Layout
  <2>2. ASSUME NEW i \in DOMAIN table
        PROVE  Slots(table[i], 1) \subseteq (0..cur.page) \X (0..(Capacity - 1))
    <3>1. table[i].page \in Nat /\ table[i].slot \in Nat
      BY <2>1, Element, EntryFields
    <3>2. Below(table[i], 1, cur)
      BY <1>1 DEF IInv, Layout
    <3> QED
      BY <2>1, <3>1, <3>2, BelowContained
  <2>3. ASSUME NEW i \in DOMAIN items
        PROVE  Slots(items[i], items[i].span) \subseteq (0..cur.page) \X (0..(Capacity - 1))
    <3>1. items[i].page \in Nat /\ items[i].slot \in Nat /\ items[i].span \in Nat
      BY <2>1, Element, ItemFields
    <3>2. Below(items[i], items[i].span, cur)
      BY <1>1 DEF IInv, Layout
    <3> QED
      BY <2>1, <3>1, <3>2, BelowContained
  <2> QED
    BY <1>1, <2>2, <2>3 DEF Contained, IInv, Layout
<1> QED
  BY <1>1, Invariance, PTL

\* A reader that scans the partition from its start has met the entry of a
\* namespace before any item that carries its index.
THEOREM NamespaceFirstCorrect == Spec => []NamespaceFirst
<1>1. IInv => NamespaceFirst
  BY DEF IInv, Ordered, NamespaceFirst
<1> QED
  BY <1>1, Invariance, PTL

-----------------------------------------------------------------------------
(* Pages that fit() leaves behind. *)

Occupied(p, t, q) == (\E i \in DOMAIN t : t[i].page = p) \/ (\E i \in DOMAIN q : q[i].page = p)

\* The pages before the cursor hold something; the current one as well, once a
\* slot of it is taken.  It is the second part that a later fit() relies on.
Filled(c, t, q) == \A p \in 0..c.page : p < c.page \/ c.n > 0 => Occupied(p, t, q)

\* A page is left only for an item that does not fit what is free of it: since
\* the item fits a page, that page is not empty.
LEMMA FilledFit ==
    ASSUME NEW c \in Cursor, NEW span \in 1..Capacity, NEW t, NEW q, Filled(c, t, q)
    PROVE  Filled(Fit(c, span), t, q)
<1>1. c.page \in Nat /\ c.n \in Nat /\ Capacity \in Nat /\ span <= Capacity
  BY NvsAssumption DEF Cursor
<1>2. CASE Advances(c, span)
  <2>1. c.n > 0
    BY <1>1, <1>2 DEF Advances, Free
  <2>2. Fit(c, span).page = c.page + 1 /\ Fit(c, span).n = 0
    BY <1>2 DEF Fit
  <2>3. \A p \in 0..(c.page + 1) : p < c.page + 1 => p \in 0..c.page
    BY <1>1
  <2> QED
    BY <2>1, <2>2, <2>3 DEF Filled
<1>3. CASE ~Advances(c, span)
  BY <1>3 DEF Fit
<1> QED
  BY <1>2, <1>3

\* Something written on the current page.
LEMMA FilledAfter ==
    ASSUME NEW c \in Cursor, NEW span \in 1..Capacity, c.n + span <= Capacity,
           NEW t, NEW q, Filled(c, t, q), NEW u, NEW v,
           \A p : Occupied(p, t, q) => Occupied(p, u, v), Occupied(c.page, u, v)
    PROVE  Filled(After(c, span), u, v)
<1>1. After(c, span).page = c.page
  BY AfterType
<1>2. \A p \in 0..c.page : p < c.page \/ p = c.page
  BY DEF Cursor
<1> QED
  BY <1>1, <1>2 DEF Filled

LEMMA RegisteredFilled ==
    ASSUME IInv, Filled(cur, table, items),
           NEW ns \in Names, Known(ns) \/ ns \notin LongNames
    PROVE  LET r == Registered(ns) IN Filled(r.cur, r.table, items)
<1> DEFINE r == Registered(ns)
<1>1. CASE Known(ns)
  BY <1>1 DEF Registered
<1>2. CASE ~Known(ns)
  <2> DEFINE at == Fit(cur, 1)
             e == [name |-> ns, index |-> NextIndex, page |-> at.page, slot |-> at.n]
             u == Append(table, e)
  <2>1. r.cur = After(at, 1) /\ r.table = u
    BY <1>2 DEF Registered
  <2>2. /\ 1 \in 1..Capacity /\ cur \in Cursor /\ table \in Seq(TableEntry)
        /\ nsN \in Index
    BY NvsAssumption DEF IInv, Layout
  <2>3. at \in Cursor /\ at.n + 1 <= Capacity /\ Filled(at, table, items)
    BY <2>2, FitType, FilledFit
  <2>4. at.page \in Nat /\ at.n \in Nat
    BY <2>3, NvsAssumption DEF Cursor
  <2>5. e \in TableEntry /\ e.page = at.page
    BY <1>2, <2>2, <2>4, NextIndexType DEF TableEntry
  <2>6. /\ DOMAIN u = DOMAIN table \cup {Len(table) + 1}
        /\ \A i \in DOMAIN table : u[i] = table[i]
        /\ u[Len(table) + 1] = e
    <3> HIDE DEF e
    <3> QED
      BY <2>2, <2>5, Appended
  <2>7. Filled(After(at, 1), u, items)
    <3> HIDE DEF at, e, u
    <3>1. Occupied(at.page, u, items)
      BY <2>5, <2>6 DEF Occupied
    <3>2. \A p : Occupied(p, table, items) => Occupied(p, u, items)
      BY <2>6 DEF Occupied
    <3> QED
      BY <2>2, <2>3, <3>1, <3>2, FilledAfter
  <2> QED
    BY <2>1, <2>7
<1> QED
  BY <1>1, <1>2

LEMMA SetItemFilled ==
    ASSUME IInv, Filled(cur, table, items), calls \in Nat,
           NEW ns \in Names, NEW key \in Names, NEW span \in Nat \ {0},
           SetItem(ns, key, span)
    PROVE  Filled(cur', table', items')
<1> DEFINE r == Registered(ns)
           at == Fit(r.cur, span)
           e == [ns |-> r.index, key |-> key, val |-> calls,
                 page |-> at.page, slot |-> at.n, span |-> span]
           v == Append(items, e)
<1>1. /\ cur' = After(at, span) /\ table' = r.table /\ items' = v
      /\ span \in 1..Capacity /\ key \in Names \ LongNames
      /\ Known(ns) \/ ns \notin LongNames
  BY NvsAssumption DEF SetItem, ItemIndex
<1>2. Layout(r.cur, r.table, items) /\ r.index \in Index /\ Filled(r.cur, r.table, items)
  BY <1>1, RegisteredType, RegisteredFilled DEF IInv
<1>3. r.cur \in Cursor /\ items \in Seq(Item)
  BY <1>2 DEF Layout
<1>4. at \in Cursor /\ at.n + span <= Capacity /\ Filled(at, r.table, items)
  BY <1>1, <1>2, <1>3, FitType, FilledFit
<1>5. at.page \in Nat /\ at.n \in Nat
  BY <1>4, NvsAssumption DEF Cursor
<1>6. e \in Item /\ e.page = at.page
  BY <1>1, <1>2, <1>5 DEF Item
<1>7. /\ DOMAIN v = DOMAIN items \cup {Len(items) + 1}
      /\ \A i \in DOMAIN items : v[i] = items[i]
      /\ v[Len(items) + 1] = e
  <2> HIDE DEF e
  <2> QED
    BY <1>3, <1>6, Appended
<1>8. Filled(After(at, span), r.table, v)
  <2> HIDE DEF at, e, v, r
  <2>1. Occupied(at.page, r.table, v)
    BY <1>6, <1>7 DEF Occupied
  <2>2. \A p : Occupied(p, r.table, items) => Occupied(p, r.table, v)
    BY <1>7 DEF Occupied
  <2> QED
    BY <1>1, <1>4, <2>1, <2>2, FilledAfter
<1> QED
  BY <1>1, <1>8

LEMMA BadItemFilled ==
    ASSUME IInv, Filled(cur, table, items),
           NEW ns \in Names, NEW key \in Names, NEW span \in Nat \ {0},
           BadItem(ns, key, span)
    PROVE  Filled(cur', table', items')
<1> DEFINE r == Registered(ns)
<1>1. /\ table' = r.table /\ items' = items
      /\ cur' = IF span > Capacity THEN r.cur ELSE Fit(r.cur, span)
      /\ Known(ns) \/ ns \notin LongNames
  BY DEF BadItem
<1>2. Layout(r.cur, r.table, items) /\ Filled(r.cur, r.table, items)
  BY <1>1, RegisteredType, RegisteredFilled DEF IInv
<1>3. r.cur \in Cursor
  BY <1>2 DEF Layout
<1>4. CASE span > Capacity
  BY <1>1, <1>2, <1>4
<1>5. CASE ~(span > Capacity)
  <2>1. span \in 1..Capacity
    BY <1>5, NvsAssumption
  <2> QED
    BY <1>1, <1>2, <1>3, <1>5, <2>1, FilledFit
<1> QED
  BY <1>4, <1>5

LEMMA StepFilled ==
    ASSUME IInv, Filled(cur, table, items), [Next]_vars
    PROVE  Filled(cur', table', items')
<1>1. CASE Set
  <2>1. PICK ns \in Names, key \in Names, span \in Spans :
          BadNamespace(ns) \/ BadItem(ns, key, span) \/ SetItem(ns, key, span)
    BY <1>1, Zenon DEF Set
  <2>2. span \in Nat \ {0} /\ calls \in Nat
    BY SpansType, NvsAssumption DEF IInv
  <2>3. CASE BadNamespace(ns)
    <3>1. 1 \in 1..Capacity /\ cur \in Cursor
      BY NvsAssumption DEF IInv, Layout
    <3> QED
      BY <2>3, <3>1, FilledFit DEF BadNamespace
  <2>4. CASE BadItem(ns, key, span)
    BY <2>2, <2>4, BadItemFilled
  <2>5. CASE SetItem(ns, key, span)
    BY <2>2, <2>5, SetItemFilled
  <2> QED
    BY <2>1, <2>3, <2>4, <2>5
<1>2. CASE Bytes \/ UNCHANGED vars
  BY <1>2 DEF Bytes, vars
<1> QED
  BY <1>1, <1>2 DEF Next

\* What Bytes has said still holds: the next setter takes the answer back.
Said ==
    /\ result = "rendered" => cur.page + 1 <= Pages - 1
    /\ result = "full" => cur.page + 1 > Pages - 1

FInv == IInv /\ Filled(cur, table, items) /\ Said

LEMMA StepSaid == ASSUME IInv, Said, [Next]_vars PROVE Said'
<1>1. CASE Set
  <2>1. result' \in {"nil", "error"}
    BY <1>1 DEF Set, BadNamespace, BadItem, SetItem
  <2> QED
    BY <2>1 DEF Said
<1>2. CASE Bytes
  <2>1. cur.page \in Nat /\ Pages \in Nat
    BY NvsAssumption DEF IInv, Layout, Cursor
  <2> QED
    BY <1>2, <2>1 DEF Said, Bytes, Usable
<1>3. CASE UNCHANGED vars
  BY <1>3 DEF Said, vars
<1> QED
  BY <1>1, <1>2, <1>3 DEF Next

LEMMA FilledInvariance == Spec => []FInv
<1>1. Init => FInv
  <2> SUFFICES ASSUME Init PROVE FInv
    OBVIOUS
  <2>1. cur.page = 0 /\ cur.n = 0
    BY DEF Init
  <2>2. \A p \in 0..0 : ~(p < 0)
    OBVIOUS
  <2> QED
    BY <2>1, <2>2, InitIInv DEF FInv, Filled, Said, Init
<1>2. FInv /\ [Next]_vars => FInv'
  BY StepIInv, StepFilled, StepSaid DEF FInv
<1> QED
  BY <1>1, <1>2, PTL DEF Spec

\* A page that is written as full holds an entry, although fit() may add a page
\* for an item that then fails (nvs.go, fit, writePrimitive, writeVar).
THEOREM NoEmptyPageCorrect == Spec => []NoEmptyPage
<1>1. FInv => NoEmptyPage
  BY DEF FInv, Filled, Occupied, NoEmptyPage, Holds
<1> QED
  BY <1>1, FilledInvariance, PTL

\* An image that is rendered leaves out nothing and keeps a page in reserve; a
\* partition that is refused has something on every page before that one (nvs.go,
\* Bytes).
THEOREM BytesForCauseCorrect == Spec => []BytesForCause
<1>1. ASSUME FInv PROVE BytesForCause
  <2>1. cur.page \in Nat /\ Pages \in Nat
    BY <1>1, NvsAssumption DEF FInv, IInv, Layout, Cursor
  <2>2. ASSUME result = "rendered", NEW p \in 0..cur.page PROVE p < Pages - 1
    BY <1>1, <2>1, <2>2 DEF FInv, Said
  <2>3. ASSUME result = "full", NEW p \in 0..(Pages - 2) PROVE Holds(p)
    <3>1. p \in 0..cur.page /\ p < cur.page
      BY <1>1, <2>1, <2>3 DEF FInv, Said
    <3> QED
      BY <1>1, <3>1 DEF FInv, Filled, Occupied, Holds
  <2> QED
    BY <2>2, <2>3 DEF BytesForCause
<1> QED
  BY <1>1, FilledInvariance, PTL

-----------------------------------------------------------------------------
(* Indexes, until the counter runs over. *)

Numbered(t, k) ==
    /\ \A i \in DOMAIN t : t[i].index \in 1..k
    /\ \A i, j \in DOMAIN t : i # j => t[i].index # t[j].index

NInv == IInv /\ (~wrapped => Numbered(table, nsN))

NamesIn(t, k) == {t[i].name : i \in {j \in DOMAIN t : t[j].index = k}}

\* A namespace that is registered gets an index nothing has, and its alone.
LEMMA RegisteredNumbered ==
    ASSUME nsN \in Index, table \in Seq(TableEntry), cur \in Cursor, Numbered(table, nsN),
           NEW ns \in Names, ~RunsOver(ns), Known(ns) \/ ns \notin LongNames
    PROVE  LET r == Registered(ns) IN
           /\ Numbered(r.table, r.nsN)
           /\ NamesIn(r.table, r.index) = {ns}
           /\ \A k \in 1..nsN : NamesIn(r.table, k) = NamesIn(table, k)
<1> DEFINE r == Registered(ns)
<1>0. nsN \in Nat
  BY NvsAssumption DEF Index
<1>1. CASE Known(ns)
  <2>1. r = [cur |-> cur, table |-> table, nsN |-> nsN, index |-> IndexOf(ns)]
    BY <1>1 DEF Registered
  <2>2. PICK i \in DOMAIN table : table[i].name = ns /\ IndexOf(ns) = table[i].index
    BY <1>1 DEF Known, IndexOf
  <2>3. {j \in DOMAIN table : table[j].index = IndexOf(ns)} = {i}
    BY <2>2 DEF Numbered
  <2>4. NamesIn(table, IndexOf(ns)) = {ns}
    BY <2>2, <2>3 DEF NamesIn
  <2>5. r.nsN = nsN /\ r.table = table /\ r.index = IndexOf(ns)
    BY <2>1
  <2>6. /\ Numbered(r.table, r.nsN)
        /\ NamesIn(r.table, r.index) = {ns}
        /\ \A k \in 1..nsN : NamesIn(r.table, k) = NamesIn(table, k)
    <3> HIDE DEF r
    <3> QED
      BY <1>0, <2>4, <2>5
  <2> QED
    BY <2>6
<1>2. CASE ~Known(ns)
  <2> DEFINE at == Fit(cur, 1)
             e == [name |-> ns, index |-> NextIndex, page |-> at.page, slot |-> at.n]
             u == Append(table, e)
  <2>1. r = [cur |-> After(at, 1), nsN |-> NextIndex, index |-> NextIndex, table |-> u]
    BY <1>2 DEF Registered
  <2>2. NextIndex = nsN + 1 /\ NextIndex \in Index
    <3>1. nsN + 1 \in 0..(Indexes - 1) /\ Indexes \in Nat
      BY <1>0, <1>2, NvsAssumption DEF RunsOver, Index
    <3>2. (nsN + 1) % Indexes = nsN + 1
      BY <3>1, Z3
    <3> QED
      BY <3>1, <3>2 DEF NextIndex, Index
  <2>3. 1 \in 1..Capacity
    BY NvsAssumption
  <2>4. at \in Cursor
    BY <2>3, FitType
  <2>5. at.page \in Nat /\ at.n \in Nat
    BY <2>4, NvsAssumption DEF Cursor
  <2>6. e \in TableEntry /\ e.index = nsN + 1 /\ e.name = ns
    BY <1>2, <2>2, <2>5 DEF TableEntry
  <2>7. /\ DOMAIN u = DOMAIN table \cup {Len(table) + 1}
        /\ Len(table) + 1 \notin DOMAIN table
        /\ \A i \in DOMAIN table : u[i] = table[i]
        /\ u[Len(table) + 1] = e
    BY <2>6, Appended
  <2>8. \A i \in DOMAIN table : u[i].index \in 1..nsN /\ u[i].index # nsN + 1
    BY <1>0, <2>7 DEF Numbered
  <2> HIDE DEF e, u, at
  <2>9. Numbered(u, nsN + 1)
    <3>1. ASSUME NEW i \in DOMAIN u PROVE u[i].index \in 1..(nsN + 1)
      BY <1>0, <2>6, <2>7, <2>8
    <3>2. ASSUME NEW i \in DOMAIN u, NEW j \in DOMAIN u, i # j
          PROVE  u[i].index # u[j].index
      BY <2>6, <2>7, <2>8, <3>2 DEF Numbered
    <3> QED
      BY <3>1, <3>2 DEF Numbered
  <2>10. {j \in DOMAIN u : u[j].index = nsN + 1} = {Len(table) + 1}
    BY <2>6, <2>7, <2>8
  <2>11. NamesIn(u, nsN + 1) = {ns}
    BY <2>6, <2>7, <2>10 DEF NamesIn
  <2>12. ASSUME NEW k \in 1..nsN PROVE NamesIn(u, k) = NamesIn(table, k)
    <3>1. k # nsN + 1
      BY <1>0
    <3>2. {j \in DOMAIN u : u[j].index = k} = {j \in DOMAIN table : table[j].index = k}
      BY <2>6, <2>7, <3>1
    <3> QED
      BY <2>7, <3>2 DEF NamesIn
  <2>13. r.nsN = nsN + 1 /\ r.table = u /\ r.index = nsN + 1
    BY <2>1, <2>2
  <2>14. /\ Numbered(r.table, r.nsN)
        /\ NamesIn(r.table, r.index) = {ns}
        /\ \A k \in 1..nsN : NamesIn(r.table, k) = NamesIn(table, k)
    <3> HIDE DEF r
    <3> QED
      BY <1>0, <2>9, <2>11, <2>12, <2>13
  <2> QED
    BY <2>14
<1> QED
  BY <1>1, <1>2

LEMMA StepNumbered ==
    ASSUME NInv, [Next]_vars, ~wrapped'
    PROVE  ~wrapped /\ Numbered(table', nsN')
<1>0. /\ nsN \in Index /\ table \in Seq(TableEntry) /\ cur \in Cursor
      /\ nsN \in Nat /\ Indexes \in Nat /\ wrapped \in BOOLEAN
      /\ ~wrapped => Numbered(table, nsN)
  BY NvsAssumption DEF NInv, IInv, Layout, Index
<1>1. CASE Set
  <2>1. PICK ns \in Names, key \in Names, span \in Spans :
          /\ wrapped' = (wrapped \/ RunsOver(ns))
          /\ BadNamespace(ns) \/ BadItem(ns, key, span) \/ SetItem(ns, key, span)
    BY <1>1, Zenon DEF Set
  <2>2. ~wrapped /\ ~RunsOver(ns) /\ Numbered(table, nsN)
    BY <1>0, <2>1
  <2>3. CASE BadNamespace(ns)
    <3>1. nsN' = (nsN + 1) % Indexes /\ table' = table
      BY <2>3 DEF BadNamespace, NextIndex
    <3>2. nsN + 1 < Indexes
      BY <1>0, <2>2, <2>3 DEF BadNamespace, RunsOver, Index
    <3>3. (nsN + 1) % Indexes = nsN + 1
      BY <1>0, <3>2, Z3
    <3> QED
      BY <1>0, <2>2, <3>1, <3>3 DEF Numbered
  <2>4. CASE BadItem(ns, key, span) \/ SetItem(ns, key, span)
    <3> DEFINE r == Registered(ns)
    <3>1. (Known(ns) \/ ns \notin LongNames) /\ nsN' = r.nsN /\ table' = r.table
      BY <2>4 DEF BadItem, SetItem
    <3>2. Numbered(r.table, r.nsN)
      BY <1>0, <2>2, <3>1, RegisteredNumbered
    <3> HIDE DEF r
    <3> QED
      BY <2>2, <3>1, <3>2
  <2> QED
    BY <2>1, <2>3, <2>4
<1>2. CASE Bytes \/ UNCHANGED vars
  <2>1. UNCHANGED <<wrapped, table, nsN>>
    BY <1>2 DEF Bytes, vars
  <2> QED
    BY <1>0, <2>1
<1> QED
  BY <1>1, <1>2 DEF Next

LEMMA NumberedInvariance == Spec => []NInv
<1>1. Init => NInv
  <2> SUFFICES ASSUME Init PROVE NInv
    OBVIOUS
  <2>1. nsN = 0 /\ table = <<>>
    BY DEF Init
  <2> QED
    BY <2>1, InitIInv DEF NInv, Numbered
<1>2. NInv /\ [Next]_vars => NInv'
  <2> SUFFICES ASSUME NInv, [Next]_vars PROVE NInv'
    OBVIOUS
  <2>1. IInv'
    BY StepIInv DEF NInv
  <2> QED
    BY <2>1, StepNumbered DEF NInv
<1> QED
  BY <1>1, <1>2, PTL DEF Spec

\* Until the uint8 that numbers them has run over, every namespace has an index of
\* its own that is not the table's, whatever setters were refused before it (nvs.go,
\* namespace).
THEOREM IndexesDistinctCorrect == Spec => []IndexesDistinct
<1>1. ASSUME NInv PROVE IndexesDistinct
  <2> SUFFICES ASSUME ~wrapped
               PROVE  /\ \A i \in DOMAIN table : table[i].index # 0
                      /\ \A i, j \in DOMAIN table : i # j => table[i].index # table[j].index
    BY DEF IndexesDistinct
  <2>1. Numbered(table, nsN) /\ nsN \in Nat
    BY <1>1, NvsAssumption DEF NInv, IInv, Index
  <2>2. \A i \in DOMAIN table : table[i].index # 0
    BY <2>1 DEF Numbered
  <2> QED
    BY <2>1, <2>2 DEF Numbered
<1> QED
  BY <1>1, NumberedInvariance, PTL

-----------------------------------------------------------------------------
(* Refinement. *)

Found == [under : SUBSET Names, key : Names, val : 0..MaxCalls]

\* What a reader finds for the items q under the entries t.
Reading(t, q) ==
    [i \in DOMAIN q |-> [under |-> NamesIn(t, q[i].ns), key |-> q[i].key, val |-> q[i].val]]

RInv == NInv /\ \A i \in DOMAIN items : items[i].val \in 0..MaxCalls

LEMMA IsAppend ==
    ASSUME NEW S, NEW f \in Seq(S), NEW g \in Seq(S), NEW x \in S,
           Len(g) = Len(f) + 1, \A i \in 1..Len(f) : g[i] = f[i], g[Len(f) + 1] = x
    PROVE  g = Append(f, x)
  OBVIOUS

LEMMA ReadingType ==
    ASSUME NEW t \in Seq(TableEntry), NEW q \in Seq(Item),
           \A i \in DOMAIN q : q[i].val \in 0..MaxCalls
    PROVE  /\ Reading(t, q) \in Seq(Found) /\ Len(Reading(t, q)) = Len(q)
           /\ \A i \in DOMAIN q : Reading(t, q)[i] =
                [under |-> NamesIn(t, q[i].ns), key |-> q[i].key, val |-> q[i].val]
<1>1. ASSUME NEW k PROVE NamesIn(t, k) \in SUBSET Names
  <2>1. ASSUME NEW i \in DOMAIN t PROVE t[i].name \in Names
    <3>1. t[i] \in TableEntry
      BY Element
    <3> QED
      BY <3>1 DEF TableEntry
  <2> QED
    BY <2>1 DEF NamesIn
<1>2. ASSUME NEW i \in DOMAIN q
      PROVE  [under |-> NamesIn(t, q[i].ns), key |-> q[i].key, val |-> q[i].val] \in Found
  <2>1. q[i] \in Item
    BY Element
  <2>2. q[i].key \in Names
    BY <2>1 DEF Item
  <2> QED
    BY <1>1, <2>2 DEF Found
<1>3. DOMAIN q = 1..Len(q) /\ Len(q) \in Nat
  OBVIOUS
<1>4. Reading(t, q) \in [1..Len(q) -> Found]
  BY <1>2, <1>3 DEF Reading
<1> QED
  BY <1>3, <1>4 DEF Reading

LEMMA ContentsReading == Contents = Reading(table, items)
  BY DEF Contents, Reading, NamesOf, NamesIn

LEMMA ContentsReadingNext == Contents' = Reading(table', items')
  BY DEF Contents, Reading, NamesOf, NamesIn

\* Entries of other namespaces do not change what is found for an item.
LEMMA ReadingKept ==
    ASSUME NInv, ~wrapped, NEW t, \A k \in 1..nsN : NamesIn(t, k) = NamesIn(table, k)
    PROVE  Reading(t, items) = Reading(table, items)
<1>1. ASSUME NEW i \in DOMAIN items PROVE items[i].ns \in 1..nsN
  BY DEF NInv, IInv, Ordered, Numbered
<1> QED
  BY <1>1 DEF Reading

\* The values in a partition are the numbers of setters that were called.
LEMMA StepValues ==
    ASSUME RInv, [Next]_vars
    PROVE  \A i \in DOMAIN items' : items'[i].val \in 0..MaxCalls
<1>0. items \in Seq(Item) /\ \A i \in DOMAIN items : items[i].val \in 0..MaxCalls
  BY DEF RInv, NInv, IInv, Layout
<1>1. CASE items' = items
  BY <1>0, <1>1
<1>2. ASSUME NEW ns \in Names, NEW key \in Names, NEW span \in Spans, Set, SetItem(ns, key, span)
      PROVE  \A i \in DOMAIN items' : items'[i].val \in 0..MaxCalls
  <2> DEFINE r == Registered(ns)
             at == Fit(r.cur, span)
             e == [ns |-> r.index, key |-> key, val |-> calls,
                   page |-> at.page, slot |-> at.n, span |-> span]
  <2>1. items' = Append(items, e)
    BY <1>2 DEF SetItem, ItemIndex
  <2>2. e.val = calls /\ calls \in 0..MaxCalls
    BY DEF RInv, NInv, IInv
  <2>3. /\ DOMAIN items' = DOMAIN items \cup {Len(items) + 1}
        /\ \A i \in DOMAIN items : items'[i] = items[i]
        /\ items'[Len(items) + 1] = e
    <3> HIDE DEF e
    <3> QED
      BY <1>0, <2>1
  <2> HIDE DEF e
  <2> QED
    BY <1>0, <2>2, <2>3
<1>3. CASE Set
  <2>1. PICK ns \in Names, key \in Names, span \in Spans :
          BadNamespace(ns) \/ BadItem(ns, key, span) \/ SetItem(ns, key, span)
    BY <1>3, Zenon DEF Set
  <2>2. CASE BadNamespace(ns) \/ BadItem(ns, key, span)
    BY <1>1, <2>2 DEF BadNamespace, BadItem
  <2> QED
    BY <1>2, <1>3, <2>1, <2>2
<1>4. CASE Bytes \/ UNCHANGED vars
  BY <1>1, <1>4 DEF Bytes, vars
<1> QED
  BY <1>3, <1>4 DEF Next

LEMMA StepRefines == ASSUME RInv, [Next]_vars PROVE [Log!Next]_(Log!vars)
<1>0. /\ nsN \in Index /\ table \in Seq(TableEntry) /\ cur \in Cursor /\ items \in Seq(Item)
      /\ calls \in 0..MaxCalls /\ wrapped \in BOOLEAN /\ wrapped' \in BOOLEAN
      /\ ~wrapped => Numbered(table, nsN)
      /\ \A i \in DOMAIN items : items[i].val \in 0..MaxCalls
  BY StepIInv DEF RInv, NInv, IInv, Layout
<1>1. nsN \in Nat /\ calls \in Nat /\ Indexes \in Nat /\ MaxCalls \in Nat
  BY NvsAssumption DEF RInv, NInv, IInv, Index
<1>2. CASE wrapped'
  <2>1. Log!Exhaust
    BY <1>0, <1>2 DEF Log!Exhaust
  <2> QED
    BY <2>1 DEF Log!Next
<1>3. CASE Set /\ ~wrapped'
  <2>0. PICK ns \in Names, key \in Names, span \in Spans :
          /\ args' = <<ns, key, calls>> /\ wrapped' = (wrapped \/ RunsOver(ns))
          /\ BadNamespace(ns) \/ BadItem(ns, key, span) \/ SetItem(ns, key, span)
    BY <1>3, Zenon DEF Set
  <2>1. ~wrapped /\ ~RunsOver(ns) /\ Numbered(table, nsN)
    BY <1>0, <1>3, <2>0
  <2>2. Log!Asked /\ wrapped' = wrapped
    BY <1>0, <1>3, <2>0, <2>1 DEF Log!Asked
  <2> DEFINE r == Registered(ns)
  <2>6. ASSUME result' = "error", Contents' = Contents PROVE Log!Next
    <3>1. Log!Fail
      BY <2>2, <2>6 DEF Log!Fail
    <3> QED
      BY <3>1 DEF Log!Next
  <2>3. CASE BadNamespace(ns)
    <3>1. items' = items /\ table' = table /\ result' = "error"
      BY <2>3 DEF BadNamespace
    <3>2. Contents' = Contents
      BY <3>1, ContentsReading, ContentsReadingNext
    <3> QED
      BY <2>6, <3>1, <3>2
  <2>4. CASE BadItem(ns, key, span)
    <3>1. /\ items' = items /\ table' = r.table /\ result' = "error"
          /\ Known(ns) \/ ns \notin LongNames
      BY <2>4 DEF BadItem
    <3>2. \A k \in 1..nsN : NamesIn(r.table, k) = NamesIn(table, k)
      BY <1>0, <2>1, <3>1, RegisteredNumbered
    <3>3. Reading(r.table, items) = Reading(table, items)
      BY <2>1, <3>2, ReadingKept DEF RInv
    <3>4. Contents' = Contents
      BY <3>1, <3>3, ContentsReading, ContentsReadingNext
    <3> QED
      BY <2>6, <3>1, <3>4
  <2>5. CASE SetItem(ns, key, span)
    <3> DEFINE at == Fit(r.cur, span)
               e == [ns |-> r.index, key |-> key, val |-> calls,
                     page |-> at.page, slot |-> at.n, span |-> span]
               x == [under |-> {ns}, key |-> key, val |-> calls]
    <3>1. /\ items' = Append(items, e) /\ table' = r.table /\ result' = "nil"
          /\ Known(ns) \/ ns \notin LongNames
      BY <2>5 DEF SetItem, ItemIndex
    <3>2. /\ \A k \in 1..nsN : NamesIn(r.table, k) = NamesIn(table, k)
          /\ NamesIn(r.table, r.index) = {ns}
      BY <1>0, <2>1, <3>1, RegisteredNumbered
    <3>3. Reading(r.table, items) = Reading(table, items)
      BY <2>1, <3>2, ReadingKept DEF RInv
    <3>4. Layout(cur', table', items')
      BY StepIInv DEF RInv, NInv, IInv
    <3>5. table' \in Seq(TableEntry) /\ items' \in Seq(Item)
      BY <3>4 DEF Layout
    <3>6. /\ DOMAIN items' = DOMAIN items \cup {Len(items) + 1}
          /\ \A i \in DOMAIN items : items'[i] = items[i]
          /\ items'[Len(items) + 1] = e /\ Len(items') = Len(items) + 1
      <4> HIDE DEF e
      <4> QED
        BY <1>0, <3>1
    <3>7. e.val = calls /\ e.key = key /\ e.ns = r.index
      OBVIOUS
    <3>8. \A i \in DOMAIN items' : items'[i].val \in 0..MaxCalls
      BY StepValues
    <3>9. /\ Reading(table', items') \in Seq(Found)
          /\ Len(Reading(table', items')) = Len(items')
          /\ \A i \in DOMAIN items' : Reading(table', items')[i] =
               [under |-> NamesIn(table', items'[i].ns), key |-> items'[i].key,
                val |-> items'[i].val]
      BY <3>5, <3>8, ReadingType
    <3>10. /\ Reading(table, items) \in Seq(Found)
           /\ Len(Reading(table, items)) = Len(items)
           /\ \A i \in DOMAIN items : Reading(table, items)[i] =
                [under |-> NamesIn(table, items[i].ns), key |-> items[i].key,
                 val |-> items[i].val]
      BY <1>0, ReadingType
    <3>11. x \in Found
      BY <1>0 DEF Found
    <3>12. Reading(table', items')[Len(items) + 1] = x
      <4>1. NamesIn(table', e.ns) = {ns}
        BY <3>1, <3>2
      <4> HIDE DEF e
      <4>2. Len(items) + 1 \in DOMAIN items' /\ items'[Len(items) + 1] = e
        BY <3>6
      <4> QED
        BY <3>7, <3>9, <4>1, <4>2
    <3>13. ASSUME NEW i \in 1..Len(items)
           PROVE  Reading(table', items')[i] = Reading(table, items)[i]
      <4> HIDE DEF e, r
      <4>1. i \in DOMAIN items /\ i \in DOMAIN items' /\ items'[i] = items[i]
        BY <1>0, <3>6
      <4>2. NamesIn(table', items[i].ns) = NamesIn(table, items[i].ns)
        <5>1. items[i].ns \in 1..nsN
          BY <2>1, <4>1 DEF RInv, NInv, IInv, Ordered, Numbered
        <5> QED
          BY <3>1, <3>2, <5>1
      <4> QED
        BY <3>9, <3>10, <4>1, <4>2
    <3>14. Reading(table', items') = Append(Reading(table, items), x)
      <4> HIDE DEF e, r, x
      <4> QED
        BY <3>6, <3>9, <3>10, <3>11, <3>12, <3>13, IsAppend
    <3>15. Contents' = Append(Contents, x)
      BY <3>14, ContentsReading, ContentsReadingNext
    <3>16. args'[1] = ns /\ args'[2] = key /\ args'[3] = calls
      BY <2>0
    <3>17. x = [under |-> {args'[1]}, key |-> args'[2], val |-> args'[3]]
      BY <3>16
    <3>18. Contents' = Append(Contents,
                              [under |-> {args'[1]}, key |-> args'[2], val |-> args'[3]])
      <4> HIDE DEF x
      <4> QED
        BY <3>15, <3>17
    <3>19. Log!Set
      BY <2>2, <3>1, <3>18 DEF Log!Set
    <3> QED
      BY <3>19 DEF Log!Next
  <2> QED
    BY <2>0, <2>3, <2>4, <2>5
<1>4. CASE Bytes
  <2>1. items' = items /\ table' = table /\ args' = args /\ wrapped' = wrapped
    BY <1>4 DEF Bytes
  <2>2. Contents' = Contents
    BY <2>1, ContentsReading, ContentsReadingNext
  <2>3. Log!Render
    BY <2>1, <2>2 DEF Log!Render
  <2> QED
    BY <2>3 DEF Log!Next
<1>5. CASE UNCHANGED vars
  <2>1. items' = items /\ table' = table /\ args' = args /\ wrapped' = wrapped /\ result' = result
    BY <1>5 DEF vars
  <2>2. Contents' = Contents
    BY <2>1, ContentsReading, ContentsReadingNext
  <2> QED
    BY <2>1, <2>2 DEF Log!vars
<1> QED
  BY <1>2, <1>3, <1>4, <1>5 DEF Next

\* Until the counter runs over, what can be read back is what the setters that
\* returned nil were asked to store, in their order and each under the namespace
\* its caller named and no other; the failed ones leave no trace in it.
THEOREM Refinement == Spec => Refines
<1>1. Init => RInv /\ Log!Init
  <2> SUFFICES ASSUME Init PROVE RInv /\ Log!Init
    OBVIOUS
  <2>1. /\ items = <<>> /\ table = <<>> /\ nsN = 0 /\ calls = 0 /\ result = "nil"
        /\ args = <<>> /\ wrapped = FALSE
    BY DEF Init
  <2>2. RInv
    BY <2>1, InitIInv DEF RInv, NInv, Numbered
  <2>3. Contents = <<>>
    BY <2>1 DEF Contents
  <2> QED
    BY <2>1, <2>2, <2>3 DEF Log!Init
<1>2. RInv /\ [Next]_vars => RInv' /\ [Log!Next]_(Log!vars)
  <2> SUFFICES ASSUME RInv, [Next]_vars PROVE RInv' /\ [Log!Next]_(Log!vars)
    OBVIOUS
  <2>1. IInv'
    BY StepIInv DEF RInv, NInv
  <2>2. ~wrapped' => Numbered(table', nsN')
    BY StepNumbered DEF RInv
  <2>3. \A i \in DOMAIN items' : items'[i].val \in 0..MaxCalls
    BY StepValues
  <2> QED
    BY <2>1, <2>2, <2>3, StepRefines DEF RInv, NInv
<1> QED
  BY <1>1, <1>2, PTL DEF Spec, Refines, Log!Spec
=============================================================================
