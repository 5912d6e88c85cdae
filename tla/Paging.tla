-------------------------------- MODULE Paging --------------------------------
(***************************************************************************)
(* A client that reads the matches of a date page by page: the slice that  *)
(* MatchesService.getMatches (matches/matches.service.ts) takes of the list *)
(* of this moment, and what GetMatchesQueryDto lets through.               *)
(***************************************************************************)
EXTENDS Integers, Sequences, FiniteSets

CONSTANTS
    Matches,    \* the matches there are
    MaxLimit    \* @Max of limit and offset, 1000 in the code

ASSUME PagingAssumption == MaxLimit \in Nat \ {0}

Lists == UNION {[1..n -> Matches] : n \in 0..Cardinality(Matches)}
NoneTwice(s) == \A i, j \in DOMAIN s : s[i] = s[j] => i = j

VARIABLES
    list,       \* the filtered list of the date
    limit,      \* the limit the client has chosen
    read,       \* what the client has put together
    offset,     \* the offset of its next page, 0 if it is left out
    changed,    \* whether the list has changed since the first page
    done        \* the client has seen a short page, or cannot go further

pagingVars == <<list, limit, read, offset, changed, done>>

PagingTypeOK ==
    /\ list \in Seq(Matches) /\ NoneTwice(list)
    /\ limit \in 1..MaxLimit
    /\ read \in Seq(Matches)
    /\ offset \in 0..MaxLimit
    /\ changed \in BOOLEAN
    /\ done \in BOOLEAN

PagingInit ==
    /\ list = <<>>
    /\ limit = MaxLimit
    /\ read = <<>>
    /\ offset = 0
    /\ changed = FALSE
    /\ done = FALSE

\* Mutant: slice(offset, limit).
SliceToLimit(s, from, n) == SubSeq(s, from + 1, IF n < Len(s) THEN n ELSE Len(s))

\* s.slice(from, from + n)
Slice(s, from, n) ==
    SubSeq(s, from + 1, IF from + n < Len(s) THEN from + n ELSE Len(s))

\* IsInt, Min(1), Max(1000).
Accepted(n) == n \in 1..MaxLimit

\* The client asks for the next page and steps its offset by its limit, which
\* it has to leave out at first: 0 is refused.
NextPage ==
    /\ ~done
    /\ LET page == Slice(list, offset, limit)
           next == offset + limit
       IN  /\ read' = read \o page
           /\ done' = (Len(page) < limit \/ ~Accepted(next))
           /\ offset' = IF Accepted(next) THEN next ELSE offset
    /\ UNCHANGED <<list, limit, changed>>

\* A refresh brings another list.
Refresh ==
    /\ ~done
    /\ list' \in {s \in Lists : NoneTwice(s)}
    /\ changed' = (read # <<>>)
    /\ UNCHANGED <<limit, read, offset, done>>

Again ==
    /\ done
    /\ limit' \in 1..MaxLimit
    /\ read' = <<>> /\ offset' = 0 /\ changed' = FALSE /\ done' = FALSE
    /\ UNCHANGED list

PagingNext == NextPage \/ Refresh \/ Again
PagingSpec == PagingInit /\ [][PagingNext]_pagingVars
-----------------------------------------------------------------------------
\* Pages tile the list: while it does not change, nothing is read twice or left
\* out, up to the last item an accepted offset can reach (getMatches, slice).
PagesTile ==
    ~changed /\ read # <<>> =>
        /\ read = SubSeq(list, 1, Len(read))
        /\ done => Len(read) = Len(list) \/ Len(read) > MaxLimit
=============================================================================
