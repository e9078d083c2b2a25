-------------------------------- MODULE Nvs ---------------------------------
(***************************************************************************)
(* The NVS partition generator: a Partition is filled by typed setters and *)
(* rendered.  A page has a number of 32-byte slots; an item takes a slot   *)
(* for an integer, a head slot and as many as its data needs for a string  *)
(* or a blob, and does not cross pages.  A namespace is itself an entry,   *)
(* that names the index which the items of the namespace carry.            *)
(*                                                                         *)
(* A setter first looks up or registers the namespace, then writes the     *)
(* item; either can fail with the work before it done.                     *)
(***************************************************************************)
EXTENDS Naturals, Sequences

CONSTANTS
    Names,          \* names of namespaces and keys ...
    LongNames,      \* ... those of more than 15 characters
    Lengths,        \* lengths of strings and blobs
    EntrySize,      \* bytes in a slot (32)
    Capacity,       \* slots in a page (126)
    Pages,          \* size / pageSize
    Indexes,        \* values of the namespace counter, a uint8 (256)
    MaxCalls        \* bound: calls of setters

ASSUME NvsAssumption ==
    /\ LongNames \subseteq Names /\ Lengths \subseteq Nat
    /\ EntrySize \in Nat \ {0} /\ Capacity \in Nat \ {0}
    /\ Pages \in Nat /\ Pages >= 3      \* New refuses a smaller partition
    /\ Indexes \in Nat /\ Indexes > 1
    /\ MaxCalls \in Nat

VARIABLES
    cur,            \* the current page, and the first free slot in it (page.n)
    table,          \* namespace entries: [name, index, page, slot]
    items,          \* [ns, key, val, page, slot, span]
    nsN,            \* Partition.nsN
    calls,          \* setters called; the number of a call stands for its value
    args,           \* of the last setter: <<namespace, key, value>>
    wrapped,        \* the counter has run over
    result          \* of the last call: "nil", "error", "rendered", "full"

vars == <<cur, table, items, nsN, calls, args, wrapped, result>>

\* nss[name] is assigned if, and only if, the entry was written.
Known(name) == \E i \in DOMAIN table : table[i].name = name
IndexOf(name) == table[CHOOSE i \in DOMAIN table : table[i].name = name].index

TypeOK ==
    /\ cur \in [page : Nat, n : 0..Capacity]
    /\ table \in Seq([name : Names \ LongNames, index : 0..(Indexes - 1), page : Nat, slot : Nat])
    /\ items \in Seq([ns : 0..(Indexes - 1), key : Names \ LongNames, val : Nat,
                      page : Nat, slot : Nat, span : 1..Capacity])
    /\ nsN \in 0..(Indexes - 1)
    /\ calls \in 0..MaxCalls
    /\ args = <<>> \/ args \in Names \X Names \X (0..MaxCalls)
    /\ wrapped \in BOOLEAN
    /\ result \in {"nil", "error", "rendered", "full"}

Init ==
    /\ cur = [page |-> 0, n |-> 0]
    /\ table = <<>> /\ items = <<>>
    /\ nsN = 0
    /\ calls = 0 /\ args = <<>> /\ wrapped = FALSE /\ result = "nil"

-----------------------------------------------------------------------------
(* Slots.                                                                  *)

\* Operators named Bug... are mistakes that could be made in this code.  No
\* behaviour uses them: PROJECT.json pairs each with the definition it would
\* replace and the property that then fails.

VarSpan(length) == 1 + (length + EntrySize - 1) \div EntrySize

\* SetU8 .. SetI64, SetBlob, and SetString, which appends a NUL.
Spans == {1} \cup {VarSpan(l) : l \in Lengths} \cup {VarSpan(l + 1) : l \in Lengths}

BugFreeOffByOne(at) == Capacity - at.n + 1
Free(at) == Capacity - at.n

BugAdvanceEarly(at, span) == Free(at) <= span
Advances(at, span) == Free(at) < span

\* fit(): where an item of this span goes.  The new page stays, whatever
\* becomes of the item.
Fit(at, span) == IF Advances(at, span) THEN [page |-> at.page + 1, n |-> 0] ELSE at

After(at, span) == [at EXCEPT !.n = @ + span]

-----------------------------------------------------------------------------
(* namespace(). *)

BugCountAfter == nsN
NextIndex == (nsN + 1) % Indexes

\* A name that is too long fails in putKey: the counter has been advanced, and
\* there may be a new page.
BadNamespace(ns) ==
    /\ ~Known(ns) /\ ns \in LongNames
    /\ cur' = Fit(cur, 1)
    /\ nsN' = NextIndex
    /\ result' = "error"
    /\ UNCHANGED <<table, items>>

\* What namespace() leaves to the rest of the setter.
Registered(ns) ==
    LET at == Fit(cur, 1) IN
    IF Known(ns) THEN [cur |-> cur, table |-> table, nsN |-> nsN, index |-> IndexOf(ns)]
    ELSE [cur |-> After(at, 1), nsN |-> NextIndex, index |-> NextIndex,
          table |-> Append(table, [name |-> ns, index |-> NextIndex,
                                   page |-> at.page, slot |-> at.n])]

-----------------------------------------------------------------------------
(* writePrimitive, writeVar.                                               *)

BugLastIndex(r) == r.nsN
ItemIndex(r) == r.index

\* An item for which no page is large enough, or a key that is too long: the
\* namespace stays registered, a new page appended.
BadItem(ns, key, span) ==
    /\ Known(ns) \/ ns \notin LongNames
    /\ span > Capacity \/ key \in LongNames
    /\ LET r == Registered(ns) IN
       /\ cur' = IF span > Capacity THEN r.cur ELSE Fit(r.cur, span)
       /\ table' = r.table /\ nsN' = r.nsN
    /\ result' = "error"
    /\ UNCHANGED items

SetItem(ns, key, span) ==
    /\ Known(ns) \/ ns \notin LongNames
    /\ span <= Capacity /\ key \notin LongNames
    /\ LET r == Registered(ns)
           at == Fit(r.cur, span)
       IN
       /\ cur' = After(at, span)
       /\ table' = r.table /\ nsN' = r.nsN
       /\ items' = Append(items, [ns |-> ItemIndex(r), key |-> key, val |-> calls,
                                  page |-> at.page, slot |-> at.n, span |-> span])
    /\ result' = "nil"

\* A uint8, advanced for every name not registered yet.
RunsOver(ns) == ~Known(ns) /\ nsN + 1 = Indexes

Set ==
    /\ calls < MaxCalls /\ calls' = calls + 1
    /\ \E ns, key \in Names, span \in Spans :
           /\ args' = <<ns, key, calls>>
           /\ wrapped' = (wrapped \/ RunsOver(ns))
           /\ BadNamespace(ns) \/ BadItem(ns, key, span) \/ SetItem(ns, key, span)

\* Bytes(): one page stays in reserve.  It may be called at any time, and again.
BugNoReserve == Pages
Usable == Pages - 1

Bytes ==
    /\ result' = IF cur.page + 1 > Usable THEN "full" ELSE "rendered"
    /\ UNCHANGED <<cur, table, items, nsN, calls, args, wrapped>>

Next == Set \/ Bytes

Spec == Init /\ [][Next]_vars

-----------------------------------------------------------------------------
(* Properties. *)

\* Entries of the partition, as the slots they take.
Slots(e, span) == {<<e.page, s>> : s \in e.slot .. (e.slot + span - 1)}

\* Every entry lies within a page that exists, and no slot is used twice,
\* whatever mix of setters failed.
Contained ==
    /\ \A i \in DOMAIN table : Slots(table[i], 1) \subseteq (0..cur.page) \X (0..(Capacity - 1))
    /\ \A i \in DOMAIN items :
           Slots(items[i], items[i].span) \subseteq (0..cur.page) \X (0..(Capacity - 1))
    /\ \A i, j \in DOMAIN table : i # j => Slots(table[i], 1) \cap Slots(table[j], 1) = {}
    /\ \A i \in DOMAIN table, j \in DOMAIN items :
           Slots(table[i], 1) \cap Slots(items[j], items[j].span) = {}
    /\ \A i, j \in DOMAIN items :
           i # j => Slots(items[i], items[i].span) \cap Slots(items[j], items[j].span) = {}

\* No page before the current one is empty, although fit() appends a page for
\* items that are then not written: a page marked FULL holds something.
Holds(p) ==
    \/ \E i \in DOMAIN table : table[i].page = p
    \/ \E i \in DOMAIN items : items[i].page = p

NoEmptyPage == \A p \in 0..cur.page : p < cur.page => Holds(p)

\* Bytes renders and refuses with cause: an image has everything that was set and
\* its last page to spare, and a partition is refused only when all the pages
\* before that one are in use, whatever pages failed setters have added.
BytesForCause ==
    /\ result = "rendered" => \A p \in 0..cur.page : Holds(p) => p < Pages - 1
    /\ result = "full" => \A p \in 0..(Pages - 2) : Holds(p)

\* An index names one namespace, and never the table itself, until the counter
\* has run over: at the 256th name that is asked for and not registered, a refused
\* one counted each time.  (Partition.namespace; what comes after that is shown by
\* NumberedFromOne.)
IndexesDistinct ==
    ~wrapped =>
        /\ \A i \in DOMAIN table : table[i].index # 0
        /\ \A i, j \in DOMAIN table : i # j => table[i].index # table[j].index

\* "Indices start at **1**, increment per distinct namespace; duplicates reuse."
\* (nvs/FORMAT.md:156): the namespaces of a partition are numbered 1, 2, 3 ...  0 is
\* the index of the namespace table.
NumberedFromOne == \A i \in DOMAIN table : table[i].index = i

\* An item comes after the entry of its namespace, for a reader that scans.
NamespaceFirst ==
    \A i \in DOMAIN items : \E j \in DOMAIN table :
        /\ table[j].index = items[i].ns
        /\ \/ table[j].page < items[i].page
           \/ table[j].page = items[i].page /\ table[j].slot < items[i].slot

\* What a reader of the format finds.
NamesOf(index) == {table[i].name : i \in {j \in DOMAIN table : table[j].index = index}}

Contents ==
    [i \in DOMAIN items |->
        [under |-> NamesOf(items[i].ns), key |-> items[i].key, val |-> items[i].val]]

Log == INSTANCE NvsLog WITH
    Value <- 0..MaxCalls, contents <- Contents, request <- args, exhausted <- wrapped,
    result <- result \in {"nil", "rendered"}

Refines == Log!Spec
=============================================================================
