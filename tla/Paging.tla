------------------------------- MODULE Paging -------------------------------
(***************************************************************************)
(* The three fetchers that walk a paged listing, ArxivFetcher (Atom),      *)
(* ArxivOaiFetcher and BiorxivFetcher: discover(since) against a server    *)
(* whose listing changes between one request and the next.                 *)
(*                                                                         *)
(* A request, its parsing and the documents it yields are one step: they   *)
(* see one state of the server.  The order in which the server lists is    *)
(* its protocol's: Atom newest first, OAI and bioRxiv oldest first.  What  *)
(* is listed and what was yielded are sets; a record's place in the        *)
(* listing is the number of records before it.                             *)
(*                                                                         *)
(* Records are of papers, whose id is the document's external_id.  Atom    *)
(* and OAI list a paper once, OAI under a new datestamp, so at the end,    *)
(* when it is revised; bioRxiv lists every version of it.                  *)
(***************************************************************************)
EXTENDS Integers, FiniteSets

CONSTANTS
  Fetchers,   \* which of "atom", "oai", "biorxiv" are started
  Records,    \* ids of what a server may list; ids grow with time
  Shapes,     \* what the records may be like, see the parsers below
  Papers,     \* which papers they may be of: functions on Records
  Since,      \* records below it are older than the window
  PageSize,   \* Atom's page_size; bound: what a server puts on a page
  MaxPages,   \* MAX_PAGES of the fetchers
  MaxGaps     \* bound: withdrawals a walk notices

Protocols == {"atom", "oai", "biorxiv"}
AnyShape == [Records -> {"plain", "untitled", "deleted", "undated", "other"}]

ASSUME PagingConstants ==
  /\ Fetchers \subseteq Protocols /\ Shapes \subseteq AnyShape
  /\ \A paper \in Papers : DOMAIN paper = Records
  /\ Records \subseteq Nat /\ Since \in Nat
  /\ PageSize \in Nat \ {0} /\ MaxPages \in Nat \ {0} /\ MaxGaps \in Nat

VARIABLES
  fetcher,
  shape,      \* of each record
  paper,      \* of each record
  listing,    \* the records the server lists for the query
  first,      \* those it listed at the first request (observed)
  gaps,       \* how many were withdrawn from behind the cursor (observed)
  page,       \* the loop variable of discover
  cursor,     \* position of the next page: start, token or cursor
  tokens,     \* OAI: seen_tokens
  times,      \* how many times discover has yielded each record
  ended       \* "" while walking, else why discover ended

walkVars == <<fetcher, shape, paper, listing, first, gaps, page, cursor, tokens, times, ended>>
serverVars == <<fetcher, shape, paper, listing, first, gaps>>

\* _parse_entry of the Atom fetcher needs an id and a title.  An entry without
\* a date it can read is a document; a withdrawn paper is an entry like others.
AtomParsed(r) == shape[r] # "untitled"
HasDate(r) == shape[r] # "undated"

\* parse_record of the OAI fetcher leaves out tombstones as well.
OaiParsed(r) == shape[r] \notin {"untitled", "deleted"}

\* parse_record of the bioRxiv fetcher needs a DOI and a title.
BiorxivParsed(r) == shape[r] # "untitled"

\* _matches: the category is filtered on this side.
Matches(r) == shape[r] # "other"

SamePaper(S, r) == {q \in S : paper[q] = paper[r]}

\* by_doi: the last record of a DOI on the page decides for all of them.
Last(S) == {r \in S : \A q \in S : q <= r}
Kept(collection) ==
  {r \in collection : BiorxivParsed(r) /\ \A q \in Last(SamePaper(collection, r)) : Matches(q)}

\* A version is wanted if no version of the paper is of another category: of
\* versions that disagree it depends on the page which of them decides.
Wanted(r) ==
  CASE fetcher = "atom" -> AtomParsed(r)
    [] fetcher = "oai" -> OaiParsed(r)
    [] fetcher = "biorxiv" -> BiorxivParsed(r) /\ \A q \in SamePaper(Records, r) : Matches(q)

\* OAI and bioRxiv take the window as a parameter of the query.
Windowed(S) == IF fetcher = "atom" THEN S ELSE {r \in S : r >= Since}

\* The server's order, and a record's place in it, counted from 0.
Precedes(q, r) == IF fetcher = "atom" THEN q > r ELSE q < r
Ahead(r) == {q \in listing : Precedes(q, r)}
Place(r) == Cardinality(Ahead(r))

\* The seen set of the Atom fetcher.
Yielded == {r \in Records : times[r] > 0}

\* No two of these records are of one paper.
OneEach(S) == \A q, r \in S : paper[q] = paper[r] => q = r

WalkInit ==
  /\ fetcher \in Fetchers /\ shape \in Shapes /\ paper \in Papers
  /\ \E S \in SUBSET Records : IsFiniteSet(S) /\ listing = Windowed(S)
  /\ fetcher # "biorxiv" => OneEach(listing)
  /\ first = listing
  /\ gaps = 0
  /\ page = 0 /\ cursor = 0
  /\ tokens = {}
  /\ times = [r \in Records |-> 0]
  /\ ended = ""

(***************************************************************************)
(* The server.                                                             *)
(***************************************************************************)
\* What may be listed next: for Atom a paper it has not had, for OAI also one
\* it has dropped (a revision), for bioRxiv also a version of one it lists.
Listable(r) ==
  CASE fetcher = "atom" -> SamePaper(listing \cup first \cup Yielded, r) = {}
    [] fetcher = "oai" -> SamePaper(listing, r) = {}
    [] fetcher = "biorxiv" -> TRUE

Appear ==
  /\ ended = ""
  /\ \E r \in Records :
       /\ r >= Since
       /\ \A q \in listing \cup first \cup Yielded : r > q
       /\ Listable(r)
       /\ listing' = listing \cup {r}
  /\ first' = IF page = 0 THEN listing' ELSE first
  /\ UNCHANGED <<fetcher, shape, paper, gaps, page, cursor, tokens, times, ended>>

\* A record is withdrawn, or of a paper that is being revised.  Those behind
\* it move up; the walk steps over one if it has passed the place already.
Withdraw ==
  /\ ended = "" /\ page > 0 /\ gaps < MaxGaps
  /\ \E r \in listing :
       /\ listing' = listing \ {r}
       /\ gaps' = IF Place(r) < cursor THEN gaps + 1 ELSE gaps
  /\ UNCHANGED <<fetcher, shape, paper, first, page, cursor, tokens, times, ended>>

(***************************************************************************)
(* The fetchers.                                                           *)
(***************************************************************************)
\* At most n records from position at on.
Slice(at, n) == {r \in listing : Place(r) \in at..(at + n - 1)}

Yield(docs) == times' = [r \in Records |-> IF r \in docs THEN times[r] + 1 ELSE times[r]]

\* Mutant: the page ceiling is not applied.
NextPageUnbounded(p) == page' = page + 1 /\ cursor' = p /\ ended' = ""

\* The walk goes on with the page at position p, unless it was the last one.
NextPage(p) ==
  /\ page' = page + 1
  /\ cursor' = p
  /\ ended' = IF page + 1 = MaxPages THEN "limit" ELSE ""

\* discover returns.
Stop(why) == ended' = why /\ UNCHANGED <<page, cursor>>

\* SafeHttpClient.get raises, the answer does not parse, or the server
\* answers with an OAI error: the exception goes through discover.
Raises ==
  /\ ended = ""
  /\ Stop("raised")
  /\ UNCHANGED <<serverVars, tokens, times>>

\* Mutant: a document that shifted onto the next page is yielded again.
AtomAgain(docs) == docs

\* The documents of a page whose id has not been yielded before.
AtomFresh(docs) == {d \in docs : SamePaper(Yielded, d) = {}}

\* The documents in front of all of those.
Before(docs, old) == {d \in docs : \A o \in old : Precedes(d, o)}

\* What the server tells of its total: 0 is nothing, and it may be wrong.
Totals == 0..(Cardinality(listing) + 1)

\* How a walk that trusted this total ends.
Trusting(total, why) == Stop(IF total < Cardinality(listing) THEN "short" ELSE why)

\* ArxivFetcher.discover: up to the first entry older than the window.
AtomPage ==
  /\ fetcher = "atom" /\ ended = ""
  /\ LET docs == {r \in Slice(cursor, PageSize) : AtomParsed(r)}
         old == {r \in docs : HasDate(r) /\ r < Since}
         recent == Before(docs, old)
     IN  \E total \in Totals :
           \/ /\ docs = {}
              /\ Stop("empty")
              /\ UNCHANGED times
           \/ /\ docs # {} /\ old # {}
              /\ Yield(AtomFresh(recent))
              /\ Stop("edge")
           \/ /\ docs # {} /\ old = {}
              /\ Yield(AtomFresh(recent))
              /\ IF (page + 1) * PageSize >= total
                 THEN Trusting(total, "total")
                 ELSE NextPage((page + 1) * PageSize)
  /\ UNCHANGED <<serverVars, tokens>>

\* A token that was handed back before ends the walk, any other is followed.
OaiFollow(token) ==
  IF token \in tokens
  THEN Stop("repeated") /\ UNCHANGED tokens
  ELSE tokens' = tokens \cup {token} /\ NextPage(token)

\* ArxivOaiFetcher.discover.  A token stands for the position it resumes at;
\* a server that misbehaves hands back one it has given before.  An empty
\* listing is the benign noRecordsMatch.
OaiPage ==
  /\ fetcher = "oai" /\ ended = ""
  /\ \E n \in 1..PageSize :
       /\ Yield({r \in Slice(cursor, n) : OaiParsed(r)})
       /\ \/ /\ cursor + n >= Cardinality(listing)
             /\ Stop("complete")
             /\ UNCHANGED tokens
          \/ /\ cursor + n < Cardinality(listing)
             /\ OaiFollow(cursor + n)
          \/ \E token \in tokens : OaiFollow(token)
  /\ UNCHANGED serverVars

\* Mutant: a page shorter than a full one is taken for the last.
BiorxivShortPage(n, seen, total) == n < PageSize

\* An empty page, or the server's own total reached.
BiorxivDone(n, seen, total) == n = 0 \/ (total # 0 /\ seen >= total)

\* BiorxivFetcher.discover: the server decides how long a page is.  seen and
\* cursor are the same number.
BiorxivPage ==
  /\ fetcher = "biorxiv" /\ ended = ""
  /\ \E n \in 1..PageSize, total \in Totals :
       LET collection == Slice(cursor, n)
           seen == cursor + Cardinality(collection)
       IN  /\ Yield(Kept(collection))
           /\ IF ~ BiorxivDone(Cardinality(collection), seen, total) THEN NextPage(seen)
              ELSE IF collection = {} THEN Stop("complete")
              ELSE Trusting(total, "complete")
  /\ UNCHANGED <<serverVars, tokens>>

Walk == AtomPage \/ OaiPage \/ BiorxivPage \/ Raises

WalkNext == Appear \/ Withdraw \/ Walk

WalkSpec == WalkInit /\ [][WalkNext]_walkVars
-----------------------------------------------------------------------------
(* The types of the variables; page also bounds the requests of a walk.      *)
WalkTypeOK ==
  /\ fetcher \in Fetchers /\ shape \in Shapes /\ paper \in Papers
  /\ listing \subseteq Records /\ first \subseteq Records
  /\ gaps \in Nat
  /\ page \in 0..MaxPages /\ cursor \in Nat
  /\ tokens \subseteq Nat
  /\ times \in [Records -> Nat]
  /\ ended \in {"", "raised", "empty", "edge", "total", "short",
                "repeated", "complete", "limit"}

\* What a complete walk has to yield: the wanted records the server lists; for
\* Atom, which lists new ones in front, those it also listed at the start.
Due == {r \in listing : r >= Since /\ Wanted(r) /\ (fetcher = "atom" => r \in first)}

(* A walk that ends the way a complete one does has missed nothing that is   *)
(* still listed, however much was added or revised meanwhile and however     *)
(* long the pages were, but at most one record for each that went away from  *)
(* behind its cursor; unless the server told a total below what it listed.   *)
(* ("reached the window edge", the total reached, no token left)             *)
Complete ==
  ended \in {"edge", "total", "complete"} => Cardinality(Due \ Yielded) <= gaps

(* No record is yielded twice, though a paper submitted during an Atom walk  *)
(* shifts every later page by one.  A paper is only yielded again as another *)
(* version of it that bioRxiv lists, or when OAI lists it again because it   *)
(* was revised during the walk.  (the seen set of ArxivFetcher.discover, the *)
(* seen_tokens of ArxivOaiFetcher.discover)                                  *)
NothingTwice ==
  /\ \A r \in Records : times[r] <= 1
  /\ \A q, r \in Yielded :
       paper[q] = paper[r] /\ q < r => fetcher = "biorxiv" \/ (fetcher = "oai" /\ r \notin first)
-----------------------------------------------------------------------------
\* The records a walk at this cursor will not see any more.
Lost == {r \in Due \ Yielded : Place(r) < cursor}

(* What lies before the cursor has been yielded as far as it was due, but    *)
(* for one record to each gap; gaps also take a cursor beyond the end of a   *)
(* listing that grows there, in which nothing that lies behind the cursor    *)
(* has been yielded.  (the paging of the three discover)                     *)
Behind ==
  /\ Cardinality(Lost) <= gaps
  /\ fetcher # "atom" /\ ended = "" => cursor + Cardinality(Lost) <= Cardinality(listing) + gaps
  /\ fetcher # "atom" /\ ended = "" => \A r \in listing \cap Yielded : Place(r) < cursor

(* Whose records there are: what came after the first request is newer than  *)
(* all that was there, and only bioRxiv lists a paper twice at a time.       *)
(* Before the first request nothing was yielded.                             *)
Papered ==
  /\ \A r \in listing \cup Yielded : r \in first \/ \A q \in first : q < r
  /\ fetcher = "atom" => OneEach(listing \cup first \cup Yielded)
  /\ fetcher = "oai" => OneEach(listing) /\ OneEach(first)
  /\ page = 0 => first = listing
  /\ page = 0 /\ ended = "" => Yielded = {}

(* Where the loop stands: below the ceiling, and for Atom at a multiple of   *)
(* the page size.  (range(MAX_PAGES), start=page * self.page_size)           *)
Stands ==
  /\ ended = "" => page < MaxPages
  /\ ended = "" /\ fetcher = "atom" => cursor = page * PageSize
  /\ page = 0 => cursor = 0

(* The inductive invariant of a walk: the types, where the loop stands, what *)
(* the cursor means, and the two promises above.                             *)
WalkInv ==
  /\ WalkTypeOK /\ IsFiniteSet(listing)
  /\ Stands /\ Behind /\ Papered
  /\ Complete /\ NothingTwice
=============================================================================
