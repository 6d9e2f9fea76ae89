----------------------------- MODULE Compaction -----------------------------
(***************************************************************************)
(* The release of a frozen guest's all-zero pages, block by block, for one *)
(* linear memory; step scans memories one after another.  Lengths and      *)
(* addresses are in pages.  The guest is drained: nothing else writes.     *)
(***************************************************************************)
EXTENDS Integers, Sequences, FiniteSets, SequencesExt, FiniteSetsExt

CONSTANTS
  MaxPages,   \* bound: the longest memory
  Huge,       \* pages in a huge page
  Contents,   \* bound: what pages may hold when the scan starts
  Overlays    \* bound: the sets of overlays, as <<start, end>>, considered

ASSUME CompactionAssumption == MaxPages \in Nat \ {0} /\ Huge \in Nat \ {0}

VARIABLES
  memory,   \* base, pages, overlays, extents, and the pages mapped without huge pages
  origin,   \* what each page held when the scan started
  scan,     \* MemoryScan's next and pending, the pages, and the totals
  refused   \* whether a system call has failed

vars == <<memory, origin, scan, refused>>

(* What a page is: data or zeros in memory, data in swap, or nothing, which  *)
(* reads as zeros.                                                           *)
Kinds == {"data", "zero", "swapped", "nothing"}
Resident == {"data", "zero"}

None == <<>>

Index == 0..(memory.pages - 1)

TypeOK ==
  /\ memory.pages \in 1..MaxPages /\ memory.base \in 0..(Huge - 1)
  /\ origin \in [Index -> Kinds] /\ scan.page \in [Index -> Kinds]
  /\ scan.next \in 0..memory.pages
  /\ scan.pending \in {None} \cup {<<a, b>> \in Index \X (1..scan.next) : a < b}
  /\ scan.released \in 0..memory.pages /\ scan.runs \in 0..scan.released
  /\ refused \in BOOLEAN

-----------------------------------------------------------------------------
(* Compaction::start.                                                        *)

Before(a, b) == a[1] < b[1] \/ (a[1] = b[1] /\ a[2] <= b[2])

LastEnd(acc, overlay) == overlay[2]

FurthestEnd(acc, overlay) == Max({acc.from, overlay[2]})

SkipOverlay(acc, overlay) ==
  [from    |-> FurthestEnd(acc, overlay),
   extents |-> IF acc.from < overlay[1] THEN Append(acc.extents, <<acc.from, overlay[1]>>)
               ELSE acc.extents]

\* The anonymous ranges of the memory, in order.
Extents(overlays, pages) ==
  LET within == {o \in overlays : o[1] < Min({o[2], pages})}
      walk == FoldLeft(SkipOverlay, [from |-> 0, extents |-> <<>>], SetToSortSeq(within, Before))
  IN  IF walk.from < pages THEN Append(walk.extents, <<walk.from, pages>>)
      ELSE walk.extents

\* smaps is read once; a page of a mapping it does not know may be huge.
Init ==
  \E pages \in 1..MaxPages, base \in 0..(Huge - 1), overlays \in Overlays :
  \E plain \in {0..(n - 1) : n \in 0..pages} \cup {n..(pages - 1) : n \in 1..(pages - 1)} :
    /\ memory = [base |-> base, pages |-> pages, overlays |-> overlays, plain |-> plain,
                 extents |-> Extents(overlays, pages)]
    /\ origin \in [0..(pages - 1) -> Contents]
    /\ scan = [next |-> 0, pending |-> None, page |-> origin, runs |-> 0, released |-> 0]
    /\ refused = FALSE

-----------------------------------------------------------------------------
(* scan_block.                                                               *)

Given(s) ==
  [s EXCEPT !.runs = @ + 1, !.released = @ + s.pending[2] - s.pending[1],
            !.page = [p \in Index |-> IF s.pending[1] <= p /\ p < s.pending[2] THEN "nothing" ELSE @[p]]]

\* release_pending: madvise gives the run back, or refuses.
Release(s, works) ==
  [(IF s.pending # None /\ works THEN Given(s) ELSE s) EXCEPT !.pending = None]

\* The rest of the extents, and the end of the block at a page.
Ahead == SelectSeq(memory.extents, LAMBDA e : scan.next < e[2])

BlockEnd(first, end) == Min({((memory.base + first) \div Huge + 1) * Huge - memory.base, end})

Fragment(first, last) == FALSE

\* A block that may be one huge page goes whole or not at all.
Full(first, last) ==
  /\ first \notin memory.plain /\ last - first = Huge
  /\ \A p \in first..(last - 1) : scan.page[p] \in Resident

Dropped(first, last) ==
  {p \in first..(last - 1) :
     IF Full(first, last) THEN \A q \in first..(last - 1) : scan.page[q] = "zero"
     ELSE scan.page[p] = "zero"}

\* A dropped page extends the pending run or starts one.
Extend(s, p, works) ==
  IF s.pending # None /\ s.pending[2] = p THEN [s EXCEPT !.pending[2] = p + 1]
  ELSE [Release(s, works) EXCEPT !.pending = <<p, p + 1>>]

Mark(s, first, last, works) ==
  LET dropped == Dropped(first, last)
      page(acc, p) == IF p \in dropped THEN Extend(acc, p, works) ELSE Release(acc, works)
  IN  FoldLeft(page, s, [i \in 1..(last - first) |-> first + i - 1])

\* A run never spans an overlay.
Skip(extent, works) ==
  IF scan.next < extent[1] THEN [Release(scan, works) EXCEPT !.next = extent[1]] ELSE scan

ScanBlock ==
  /\ scan.next < memory.pages /\ Ahead # <<>>
  /\ \E works \in BOOLEAN :
       LET s == Skip(Head(Ahead), works)
           last == BlockEnd(s.next, Head(Ahead)[2])
           marked == [Mark(s, s.next, last, works) EXCEPT !.next = last]
       IN  /\ scan' = IF last >= memory.pages THEN Release(marked, works) ELSE marked
           /\ refused' = (refused \/ ~works)
  /\ UNCHANGED <<memory, origin>>

\* mincore fails: the rest of the memory is kept.
MincoreFails ==
  /\ scan.next < memory.pages /\ Ahead # <<>>
  /\ \E works \in BOOLEAN :
       scan' = Release([Skip(Head(Ahead), works) EXCEPT !.next = memory.pages], works)
  /\ refused' = TRUE /\ UNCHANGED <<memory, origin>>

\* Nothing but an overlay is left.
ScanEnds ==
  /\ scan.next < memory.pages /\ Ahead = <<>>
  /\ \E works \in BOOLEAN :
       /\ scan' = Release([scan EXCEPT !.next = memory.pages], works)
       /\ refused' = (refused \/ ~works)
  /\ UNCHANGED <<memory, origin>>

Next == ScanBlock \/ MincoreFails \/ ScanEnds

Spec == Init /\ [][Next]_vars

-----------------------------------------------------------------------------
(* Properties.                                                               *)

Reads(kind) == IF kind \in {"data", "swapped"} THEN "data" ELSE "zero"

InOverlay(p) == \E o \in memory.overlays : o[1] <= p /\ p < o[2]

\* "The guest cannot tell": every page reads as it did, after every block, when
\* a fork may come; and of an overlay ("the scan skips it") no page is given back
\* or waits to be, whatever call failed before.
GuestCannotTell ==
  \A p \in Index :
    /\ Reads(scan.page[p]) = Reads(origin[p])
    /\ InOverlay(p) =>
         /\ scan.page[p] = origin[p]
         /\ scan.pending # None => p \notin scan.pending[1]..(scan.pending[2] - 1)

Block(p) == {q \in Index : (memory.base + q) \div Huge = (memory.base + p) \div Huge}

\* A huge page may be where a whole aligned block is in memory.
MaybeHuge(p) ==
  /\ Cardinality(Block(p)) = Huge /\ Min(Block(p)) \notin memory.plain
  /\ \A q \in Block(p) : ~InOverlay(q) /\ origin[q] \in Resident

\* What is to be released: every zero page in memory, but of what may be a huge
\* page all or nothing.
ToRelease ==
  {p \in Index : /\ ~InOverlay(p) /\ origin[p] = "zero"
                 /\ MaybeHuge(p) => \A q \in Block(p) : origin[q] = "zero"}

\* "Every resident, entirely zero page ... is given back", a huge page only when
\* it is zero throughout: a scan without failures releases exactly these, in one
\* madvise for each run, across blocks.
ReleasesExactly ==
  scan.next = memory.pages /\ ~refused =>
    /\ {p \in Index : scan.page[p] # origin[p]} = ToRelease
    /\ scan.released = Cardinality(ToRelease)
    /\ scan.runs = Cardinality({p \in ToRelease : p - 1 \notin ToRelease})

=============================================================================
