-------------------------------- MODULE Paging --------------------------------
(***************************************************************************)
(* The pages of a search, as the MCP server and the D-Bus bridge make them:  *)
(* overFetch, paginate, applyCapTruncation and paginateOutcome of            *)
(* mcp/protocol.cpp, with the searches they are made from (handleToolCall    *)
(* and doLegacyPage of mcp/main.cpp, handleSearch of dbus/main.cpp).         *)
(*                                                                         *)
(* A reader takes page after page, each at the offset where the last ended,  *)
(* with any limit, until one says that there is no more.  Every page is a    *)
(* new search, whose workers stop at other places each time: what a search   *)
(* promises is what module SearchScan shows of it.  The matches are the      *)
(* numbers 1..m in the order asked for; they do not change meanwhile.        *)
(***************************************************************************)
EXTENDS Naturals, Sequences, FiniteSets, FiniteSetsExt

CONSTANTS
  MaxMatches,  \* a bound on the matches
  PageLimits,      \* the limits a page may have, in 1..kMaxLimit (clampLimit)
  PageCap          \* Index::kDefaultCandidateCap

ASSUME PagingAssumption ==
  MaxMatches \in Nat /\ PageCap \in Nat \ {0} /\ PageLimits \subseteq Nat \ {0}

VARIABLES
  m,      \* how many matches there are
  exact,  \* by search2 or search3, else as by a legacy search
  pages,  \* the items of all pages so far, one after the other
  page    \* the last page

pagingVars == <<m, exact, pages, page>>

-----------------------------------------------------------------------------
(* What the daemon may answer.                                              *)

\* The i-th is the one that has i not above it.
Sorted(S) == [i \in 1..Cardinality(S) |-> CHOOSE x \in S : Cardinality({y \in S : y <= x}) = i]
Least(a, b) == IF a <= b THEN a ELSE b
UpTo(s, n)  == SubSeq(s, 1, Least(n, Len(s)))

\* Index::searchEx with limit n: as many as the cap allows, sorted before the
\* limit cuts them.  With just as many as the cap it may say either.
Outcomes(n) ==
  {[results |-> UpTo(Sorted(S), n), total |-> Cardinality(S), capped |-> c] :
     S \in kSubset(Least(m, PageCap), 1..m),
     c \in {b \in BOOLEAN : (m < PageCap => ~ b) /\ (m > PageCap => b)}}

\* Index::search with limit n, not above the cap: any n matches if there are more.
Searches(n) == {Sorted(S) : S \in kSubset(Least(m, n), 1..m)}

-----------------------------------------------------------------------------

\* What one search must bring for a page that ends at offset + limit.
OverFetch(offset, limit) == Least(offset + limit, PageCap)

Slice(s, offset, limit) == SubSeq(s, offset + 1, Least(offset + limit, Len(s)))

MoreIfFull(returned, limit) == returned = limit

\* Faulty: just as many as the cap is taken for all there are.
AboveCap(fetched) == Len(fetched) > PageCap

\* applyCapTruncation
AtCap(fetched) == Len(fetched) >= PageCap

Paginate(fetched, offset, limit) ==
  LET items == IF offset >= PageCap THEN <<>> ELSE Slice(fetched, offset, limit) IN
  [offset    |-> offset,
   items     |-> items,
   hasMore   |-> offset < PageCap /\ MoreIfFull(Len(items), limit),
   truncated |-> OverFetch(offset, limit) >= PageCap \/ AtCap(fetched)]

\* Faulty: total is the number of results of this page's search.
TotalOfPage(outcome) == Len(outcome.results)

Total(outcome) == outcome.total

PaginateOutcome(outcome, offset, limit) ==
  LET items == Slice(outcome.results, offset, limit) IN
  [offset    |-> offset,
   items     |-> items,
   hasMore   |-> ~ outcome.capped /\ offset + Len(items) < Total(outcome),
   truncated |-> outcome.capped]

\* Faulty: a full page is not taken from a second search.
NeverRefetch(fetched, n) == FALSE

\* A search that stopped at its limit brought just any matches.
MustRefetch(fetched, n) == Len(fetched) = n /\ n < PageCap

LegacyPage(offset, limit) ==
  LET n == OverFetch(offset, limit) IN
  \E fetched \in Searches(n) :
    IF MustRefetch(fetched, n)
    THEN \E full \in Searches(PageCap) : page' = Paginate(full, offset, limit)
    ELSE page' = Paginate(fetched, offset, limit)

ExactPage(offset, limit) ==
  \E o \in Outcomes(offset + limit) : page' = PaginateOutcome(o, offset, limit)

Offset == page.offset + Len(page.items)

PagingInit ==
  /\ m \in 0..MaxMatches /\ exact \in BOOLEAN
  /\ pages = <<>>
  /\ page = [offset |-> 0, items |-> <<>>, hasMore |-> TRUE, truncated |-> FALSE]

Turn ==
  /\ page.hasMore
  /\ \E limit \in PageLimits :
       IF exact THEN ExactPage(Offset, limit) ELSE LegacyPage(Offset, limit)
  /\ pages' = pages \o page'.items
  /\ UNCHANGED <<m, exact>>

PagingSpec == PagingInit /\ [][Turn]_pagingVars

-----------------------------------------------------------------------------

PagingTypeOK ==
  /\ pages \in Seq(1..m) /\ page.items \in Seq(1..m)
  /\ page.offset \in 0..PageCap /\ Len(page.items) <= Max(PageLimits)
  /\ page.hasMore \in BOOLEAN /\ page.truncated \in BOOLEAN

AllUpTo(n) == [i \in 1..n |-> i]

\* With fewer matches than the cap the pages follow on each other: in order,
\* none twice, none left out, though each is from a search of its own.
PagesFollow == m < PageCap => pages = AllUpTo(Offset)

\* A page that ends the series and does not say it is cut short ends the matches.
EndIsTheEnd == ~ page.hasMore /\ ~ page.truncated => pages = AllUpTo(m)

\* Every page says so when there are more matches than the cap.
CutIsSaid == (pages # <<>> /\ m > PageCap) => page.truncated

\* What a reader of the pages may rely on.
PagesRight == PagesFollow /\ EndIsTheEnd /\ CutIsSaid

=============================================================================
