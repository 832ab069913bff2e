----------------------------- MODULE DiskStorage -----------------------------
(***************************************************************************)
(* DiskStorageManager of the spatial index library: a data file of pages   *)
(* that are overwritten in place, and in memory a table of the pages of    *)
(* every array and a stack of empty pages, which only the destructor       *)
(* writes to the index file.                                               *)
(*                                                                         *)
(* The module has no variables: an operation is a function of the state d  *)
(* of a manager,                                                           *)
(*   m_pageIndex     pages of every array, by id                           *)
(*   m_emptyPages    the stack, its top first                              *)
(*   m_nextPage      the first page behind those ever used                 *)
(*   data            the pages of the data file                            *)
(*   behind          the page written last, which the stream may still hold *)
(*                   back: the next seek writes it                         *)
(*   fail            a write failed: the stream of the data file refuses   *)
(*                   every access from then on                             *)
(*                                                                         *)
(* An array is a sequence of blocks, each filling a page; what is behind   *)
(* the end of a last, shorter block is never read.  All callers store at   *)
(* least one block.                                                        *)
(***************************************************************************)
EXTENDS Integers, Sequences

CONSTANTS
    Block,          \* contents of a page
    Array,          \* the arrays that are stored
    MaxPage,        \* bound of the model: pages of the data file
    NULL

ASSUME ArrayAssumption == \A a \in Array : a \in Seq(Block) /\ a # <<>>
ASSUME NullAssumption  == NULL \notin Block
ASSUME BoundAssumption == MaxPage \in Nat

Page == 0 .. MaxPage - 1

Least(a, b) == IF a <= b THEN a ELSE b

Elements(s) == {s[n] : n \in 1 .. Len(s)}

\* t with e under id, and without id.
With(t, id, e)  == [x \in DOMAIN t \cup {id} |-> IF x = id THEN e ELSE t[x]]
Without(t, id)  == [x \in DOMAIN t \ {id} |-> t[x]]

-----------------------------------------------------------------------------
\* loadByteArray, for every id of the table.
Contents(d) ==
    [id \in DOMAIN d.m_pageIndex |->
        [n \in DOMAIN d.m_pageIndex[id] |-> d.data[d.m_pageIndex[id][n]]]]

\* Pages for n blocks: those of the old array, then empty pages, then new ones.
Reused(old, n)   == Least(Len(old), n)
Taken(d, old, n) == Least(n - Reused(old, n), Len(d.m_emptyPages))

Pages(d, old, n) ==
    [k \in 1 .. n |->
        IF k <= Reused(old, n) THEN old[k]
        ELSE IF k <= Reused(old, n) + Taken(d, old, n) THEN d.m_emptyPages[k - Reused(old, n)]
        ELSE d.m_nextPage + k - Reused(old, n) - Taken(d, old, n) - 1]

\* m_nextPage after that.
Next0(d, old, n) == d.m_nextPage + n - Reused(old, n) - Taken(d, old, n)

\* The stack after the pages of s are pushed one after the other.
Pushed(s, stack) == [k \in 1 .. Len(s) |-> s[Len(s) + 1 - k]] \o stack

Behind(s, n) == SubSeq(s, n + 1, Len(s))

\* Mutant: pages that an array no longer needs are forgotten.
StackForgets(d, old, n) == Behind(d.m_emptyPages, Taken(d, old, n))

\* The stack after the pages are taken and those that the old array has too many are
\* put back.
Stack(d, old, n) == Pushed(Behind(old, n), Behind(d.m_emptyPages, Taken(d, old, n)))

\* The data file after the first n blocks of a went to the pages ps.
Written(data, ps, a, n) ==
    [p \in Page |-> IF \E k \in 1 .. n : ps[k] = p
                    THEN a[CHOOSE k \in 1 .. n : ps[k] = p] ELSE data[p]]

Touch(d, ps, a, n) ==
    [d EXCEPT !.data = Written(@, ps, a, n),
              !.behind = IF n = 0 THEN @ ELSE {ps[n]}]

\* storeByteArray with array a in place of old, under the old id or, when old has no
\* pages, under the id of its first page.
Put(d, old, a) ==
    LET ps == Pages(d, old, Len(a))
    IN  [Touch(d, ps, a, Len(a)) EXCEPT
            !.m_pageIndex = With(@, ps[1], ps),
            !.m_emptyPages = Stack(d, old, Len(a)),
            !.m_nextPage = Next0(d, old, Len(a))]

\* The same when the write of block n fails: the pages taken until then are gone, and
\* so are the entry of an old array, which is erased first, and its pages.  NULL stands
\* for what is left in the page of block n.
PutFails(d, old, a, n) ==
    [Touch(d, Pages(d, old, n), a, n - 1) EXCEPT
        !.data = [p \in Page |-> IF p = Pages(d, old, n)[n] /\ ~d.fail THEN NULL ELSE @[p]],
        !.behind = {},
        !.m_pageIndex = IF old = <<>> THEN @ ELSE Without(@, old[1]),
        !.m_emptyPages = Behind(@, Taken(d, old, n)),
        !.m_nextPage = Next0(d, old, n),
        !.fail = TRUE]

\* Blocks whose write may be the one that fails.
FailAt(d, a) == IF d.fail THEN {1} ELSE 1 .. Len(a)

OldPages(d, id) == d.m_pageIndex[id]

\* deleteByteArray.
Erase(d, id) ==
    [d EXCEPT !.m_emptyPages = Pushed(OldPages(d, id), @),
              !.m_pageIndex = Without(@, id)]

-----------------------------------------------------------------------------
(* The index file, and the constructor that reads it                       *)

NoFile == [valid |-> FALSE]

\* What flush writes; it is the destructor's only, for IStorageManager has none.  The
\* stack goes to the file from its top on.
IndexFile(d) ==
    [valid |-> TRUE, table |-> d.m_pageIndex, empty |-> d.m_emptyPages, next |-> d.m_nextPage]

\* The files made anew (Overwrite): empty, the index file stays so until flush.
Fresh ==
    [m_pageIndex |-> <<>>, m_emptyPages |-> <<>>, m_nextPage |-> 0,
     data |-> [p \in Page |-> NULL], behind |-> {}, fail |-> FALSE]

\* Mutant: the next page is the one behind the empty ones.
OpenedEarly(file, data) ==
    [m_pageIndex |-> file.table, m_emptyPages |-> Pushed(file.empty, <<>>),
     m_nextPage |-> Len(file.empty), data |-> data, behind |-> {}, fail |-> FALSE]

\* The files opened.  Reading the stack pushes its pages, which turns it around.
Opened(file, data) ==
    [m_pageIndex |-> file.table, m_emptyPages |-> Pushed(file.empty, <<>>),
     m_nextPage |-> file.next, data |-> data, behind |-> {}, fail |-> FALSE]

\* No manager is there; only the data file is left.
Gone(data) == [Fresh EXCEPT !.data = data]

-----------------------------------------------------------------------------
\* Pages of the table.
Used(d) == UNION {Elements(d.m_pageIndex[id]) : id \in DOMAIN d.m_pageIndex}

\* Pages that neither the table nor the stack has: lost until the files are made anew.
Lost(d) == (0 .. d.m_nextPage - 1) \ (Used(d) \cup Elements(d.m_emptyPages))

\* No page is in two arrays, or twice in one, or in an array and in the stack, or
\* twice there; each array's id is its first page, which is why the id of a new one
\* is never in use; and no page behind m_nextPage was given away.
Apart(d) ==
    /\ \A id \in DOMAIN d.m_pageIndex :
          LET ps == d.m_pageIndex[id]
          IN  /\ ps[1] = id
              /\ \A m, n \in 1 .. Len(ps) : ps[m] = ps[n] => m = n
              /\ \A other \in DOMAIN d.m_pageIndex \ {id} :
                    Elements(ps) \cap Elements(d.m_pageIndex[other]) = {}
    /\ \A m, n \in 1 .. Len(d.m_emptyPages) : d.m_emptyPages[m] = d.m_emptyPages[n] => m = n
    /\ Used(d) \cap Elements(d.m_emptyPages) = {}
    /\ Used(d) \cup Elements(d.m_emptyPages) \subseteq 0 .. d.m_nextPage - 1
=============================================================================
