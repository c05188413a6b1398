----------------------------- MODULE SearchScan -----------------------------
(***************************************************************************)
(* The parallel scan of the index by one query: Index::search, searchEx and *)
(* countEx of core/search.cpp.                                              *)
(*                                                                         *)
(* The entries are divided among the workers.  They share a count of the    *)
(* hits, read and incremented without a lock and with relaxed memory order, *)
(* and (searchEx, countEx) a flag "capped".  A relaxed load may return any  *)
(* value of the count that is not older than the last one this worker has   *)
(* read or written (C++ coherence); fetch_add acts on the latest one.       *)
(*                                                                         *)
(* The daemon holds idxLock_ during a query, so the entries do not change.  *)
(* What a query matches (substring, wildcard, regular expression, under,    *)
(* dirs_only, files_only) is the set "hits" of positions; the sort key is a *)
(* total order (ties go by path), given as Rank.                            *)
(***************************************************************************)
EXTENDS Integers, FiniteSets

CONSTANTS
  N,         \* entries_.size()
  T,         \* the number of workers: hardware_concurrency() within 1..32 and 1..N
  Cap,       \* candidateCap_, the most candidates a query collects
  Limits,    \* the limits a request may carry; 0 is "no limit"
  Rank,      \* Rank[i]: the place of entry i in the order asked for
  None       \* no answer yet

Positions == 0..(N - 1)
Workers   == 0..(T - 1)
Ops       == {"search", "searchEx", "countEx"}

ASSUME ScanAssumption ==
  /\ N \in Nat \ {0} /\ T \in 1..N
  /\ Cap \in Nat \ {0}
  /\ Limits \subseteq Nat
  /\ Rank \in [Positions -> Nat]
  /\ \A i, j \in Positions : Rank[i] = Rank[j] => i = j

VARIABLES
  op, limit, hits,  \* the query
  count,            \* the shared count
  capped,           \* the shared flag
  seen,             \* seen[t]: the value of count worker t has last read or written
  at,               \* at[t]: the loop variable i of worker t
  pc,               \* pc[t]: before the load, before the fetch_add, or done
  got,              \* the positions in the workers' vectors
  answer            \* what the call returns, or None

query == <<op, limit, hits>>
vars  == <<query, count, capped, seen, at, pc, got, answer>>

-----------------------------------------------------------------------------

\* The entries of worker t: [First(t), End(t)).
First(t) == (N * t) \div T
End(t)   == (N * (t + 1)) \div T

MinOf(a, b) == IF a <= b THEN a ELSE b

\* Faulty: limit 0 is not looked at.
LimitAsGiven == limit

\* search() without a limit is limited by the cap.
Limit == IF op = "search" /\ limit = 0 THEN Cap ELSE limit

Init ==
  /\ op \in Ops /\ limit \in Limits /\ hits \in SUBSET Positions
  /\ count = 0 /\ capped = FALSE
  /\ seen = [t \in Workers |-> 0]
  /\ at = [t \in Workers |-> First(t)]
  /\ pc = [t \in Workers |-> "load"]
  /\ got = {} /\ answer = None

\* Faulty: one too few.
EnoughEarly(c) == c + 1 >= Cap

\* A count c makes a worker stop.
Enough(c) == c >= Cap \/ (op = "search" /\ c >= Limit)

\* The load at the head of the loop, and the match of one entry.
Load(t) ==
  /\ pc[t] = "load" /\ at[t] < End(t)
  /\ \E c \in seen[t]..count :
       /\ seen' = [seen EXCEPT ![t] = c]
       /\ IF Enough(c)
          THEN /\ pc' = [pc EXCEPT ![t] = "done"]
               /\ capped' = (capped \/ op # "search")
               /\ UNCHANGED at
          ELSE /\ IF at[t] \in hits
                  THEN pc' = [pc EXCEPT ![t] = "add"] /\ UNCHANGED at
                  ELSE at' = [at EXCEPT ![t] = @ + 1] /\ UNCHANGED pc
               /\ UNCHANGED capped
  /\ UNCHANGED <<query, count, got, answer>>

PastEnd(t) ==
  /\ pc[t] = "load" /\ at[t] >= End(t)
  /\ pc' = [pc EXCEPT ![t] = "done"]
  /\ UNCHANGED <<query, count, capped, seen, at, got, answer>>

\* Faulty: the slot is not looked at before the hit is collected.
HasSlotAlways(before) == TRUE

\* searchEx and countEx drop a hit whose slot is beyond the cap; search does not.
HasSlot(before) == op = "search" \/ before < Cap

\* fetch_add, and push_back into the worker's own vector.
AddHit(t) ==
  /\ pc[t] = "add"
  /\ count' = count + 1
  /\ seen' = [seen EXCEPT ![t] = count + 1]
  /\ IF HasSlot(count)
     THEN /\ got' = IF op = "countEx" THEN got ELSE got \cup {at[t]}
          /\ at' = [at EXCEPT ![t] = @ + 1]
          /\ pc' = [pc EXCEPT ![t] = "load"]
          /\ UNCHANGED capped
     ELSE /\ capped' = TRUE
          /\ pc' = [pc EXCEPT ![t] = "done"]
          /\ UNCHANGED <<got, at>>
  /\ UNCHANGED <<query, answer>>

\* sortResults and resize: the first n of the set S in the order asked for.
Top(S, n) == {i \in S : Cardinality({j \in S : Rank[j] < Rank[i]}) < n}

\* Faulty: resize before the sort, which keeps any n.
Chopped(S) == IF Limit = 0 THEN S ELSE {i \in S : Cardinality({j \in S : j < i}) < Limit}

Trimmed(S) == IF Limit = 0 THEN S ELSE Top(S, Limit)

\* Faulty: countEx reports the flag only.
FlagOnly == [total |-> MinOf(count, Cap), capped |-> capped, results |-> {}]

\* What the three functions return once the workers are joined.
Counted == [total |-> MinOf(count, Cap), capped |-> capped \/ count >= Cap, results |-> {}]

Outcome ==
  CASE op = "search"   -> [total   |-> Cardinality(got),
                           capped  |-> Cardinality(got) >= Cap,
                           results |-> Trimmed(got)]
    [] op = "searchEx" -> [total   |-> Cardinality(got),
                           capped  |-> capped,
                           results |-> Trimmed(got)]
    [] op = "countEx"  -> Counted

JoinAll ==
  /\ answer = None /\ \A t \in Workers : pc[t] = "done"
  /\ answer' = Outcome
  /\ UNCHANGED <<query, count, capped, seen, at, pc, got>>

\* The call has returned.
Returned == answer # None /\ UNCHANGED vars

Worker(t) == Load(t) \/ PastEnd(t) \/ AddHit(t)

Next == JoinAll \/ Returned \/ \E t \in Workers : Worker(t)

Spec == Init /\ [][Next]_vars

-----------------------------------------------------------------------------
(* Properties.                                                             *)

TypeOK ==
  /\ op \in Ops /\ limit \in Nat /\ hits \subseteq Positions
  /\ count \in Nat /\ capped \in BOOLEAN
  /\ seen \in [Workers -> Nat]
  /\ at \in [Workers -> 0..N]
  /\ pc \in [Workers -> {"load", "add", "done"}]
  /\ got \subseteq hits
  /\ answer = None \/ answer \in [total : Nat, capped : BOOLEAN, results : SUBSET hits]

\* searchEx collects as many hits as have been counted, and never more than the
\* cap, however the workers race for the last slots (comment at search.cpp:322:
\* the number stored is exactly cap).
SlotsExact == op = "searchEx" => Cardinality(got) = MinOf(count, Cap)

\* An answer of searchEx that is not capped is the truth: every match counted,
\* and the first "limit" of them in the order asked for, of all entries.  It is
\* what paging by offset relies on (docs/specs/010-search-protocol.md:39).
ExactUnlessCapped ==
  op = "searchEx" /\ answer # None /\ ~ answer.capped =>
    /\ answer.total = Cardinality(hits)
    /\ answer.results = IF limit = 0 THEN hits ELSE Top(hits, limit)

\* A capped answer is a lower bound that the count reached.
CappedIsLowerBound ==
  op # "search" /\ answer # None /\ answer.capped =>
    /\ answer.total = Cap
    /\ Cap <= Cardinality(hits)

\* countEx does not depend on the interleaving.
CountDetermined ==
  op = "countEx" /\ answer # None =>
    /\ answer.total = MinOf(Cardinality(hits), Cap)
    /\ answer.capped <=> Cardinality(hits) >= Cap

\* search() returns as many hits as it may, and says "truncated" only when
\* there are cap matches; when the limit is not below the cap, always then.
LegacyAnswer ==
  LET wanted == IF limit = 0 THEN Cap ELSE limit
  IN  op = "search" /\ answer # None =>
        /\ answer.results \subseteq hits
        /\ Cardinality(answer.results) >= MinOf(Cardinality(hits), MinOf(wanted, Cap))
        /\ Cardinality(answer.results) <= wanted
        /\ answer.capped => Cardinality(hits) >= Cap
        /\ wanted >= Cap /\ Cardinality(hits) >= Cap => answer.capped

\* The answers of the three entry points, whatever the interleaving and however
\* stale the loads.
AnswersTrue == ExactUnlessCapped /\ CappedIsLowerBound /\ CountDetermined /\ LegacyAnswer

\* docs/specs/010-search-protocol.md:44: a query with exactly cap matches "also
\* reports total_capped=1, total=cap".
ExactCapIsReported ==
  op = "searchEx" /\ answer # None /\ Cardinality(hits) = Cap => answer.capped
=============================================================================
