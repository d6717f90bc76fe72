---------------------------- MODULE PagedListing ----------------------------
(***************************************************************************)
(* One listing of a management endpoint, page by page: ListAllExchanges in *)
(* clients/clients.go over its retryTransport, and the same loop over the  *)
(* queues in extrabbitmq/queue_discovery.go.  Between two requests the     *)
(* broker's exchanges may change.                                          *)
(*                                                                         *)
(* The broker is external: it sorts by name, and each reply gives a page,  *)
(* the number of pages and the total at that moment; a page behind the     *)
(* last one is refused or empty.                                           *)
(***************************************************************************)
EXTENDS Integers, Sequences, FiniteSets, SequencesExt

CONSTANTS
    Names,       \* names of exchanges, ordered as numbers
    PageSize,    \* page_size
    MaxRetries,  \* retryTransport.maxRetries
    MaxChanges   \* bound: changes at the broker during the listing

ASSUME NamesAssumption == Names \subseteq Nat /\ IsFiniteSet(Names)
ASSUME PageSizeAssumption == PageSize \in Nat \ {0}
ASSUME BoundsAssumption == MaxRetries \in Nat /\ MaxChanges \in Nat

VARIABLES
    phase,      \* "listing", "done" or "failed"
    exchanges,  \* what exists at the broker
    page,       \* the page that is requested
    attempt,    \* the loop variable of RoundTrip
    all,        \* what has been collected
    initial,    \* what existed when the listing began
    created,    \* something was created since
    deleted,    \* something was deleted since
    failures,   \* history: requests of this page that have failed
    refused,    \* a request was answered, but not with a page
    changes     \* changes so far

broker == <<exchanges, initial, created, deleted, changes>>
vars == <<phase, page, attempt, all, failures, refused, broker>>

TypeOK ==
    /\ phase \in {"listing", "done", "failed"}
    /\ exchanges \subseteq Names
    /\ page \in Nat \ {0}
    /\ attempt \in 0..MaxRetries
    /\ all \in Seq(Names)
    /\ initial \subseteq Names
    /\ created \in BOOLEAN
    /\ deleted \in BOOLEAN
    /\ failures \in 0..MaxRetries + 1
    /\ refused \in BOOLEAN
    /\ changes \in 0..MaxChanges

Init ==
    /\ phase = "listing"
    /\ exchanges \in SUBSET Names
    /\ initial = exchanges
    /\ page = 1
    /\ attempt = 0
    /\ all = <<>>
    /\ created = FALSE /\ deleted = FALSE
    /\ failures = 0
    /\ refused = FALSE
    /\ changes = 0

-----------------------------------------------------------------------------
(* The broker.                                                             *)

\* The position of a name in the broker's list.
Position(n) == Cardinality({m \in exchanges : m <= n})

Sorted == [i \in 1..Cardinality(exchanges) |-> CHOOSE n \in exchanges : Position(n) = i]

TotalCount == Len(Sorted)

PageCount == (TotalCount + PageSize - 1) \div PageSize

LastOnPage(p) == IF p * PageSize < TotalCount THEN p * PageSize ELSE TotalCount

Items(p) == SubSeq(Sorted, (p - 1) * PageSize + 1, LastOnPage(p))

Create(n) ==
    /\ phase = "listing" /\ changes < MaxChanges
    /\ n \notin exchanges
    /\ exchanges' = exchanges \cup {n}
    /\ created' = TRUE
    /\ changes' = changes + 1
    /\ UNCHANGED <<phase, page, attempt, all, failures, refused, initial, deleted>>

Delete(n) ==
    /\ phase = "listing" /\ changes < MaxChanges
    /\ n \in exchanges
    /\ exchanges' = exchanges \ {n}
    /\ deleted' = TRUE
    /\ changes' = changes + 1
    /\ UNCHANGED <<phase, page, attempt, all, failures, refused, initial, created>>

-----------------------------------------------------------------------------
(* The client.                                                             *)

\* No retry is left for this page.
LastAttempt == attempt >= MaxRetries

\* A transport error or a gateway timeout: the transport repeats the GET, and hands
\* over what the last attempt brought, which ends the listing.
RequestFails ==
    /\ phase = "listing"
    /\ failures' = failures + 1
    /\ IF LastAttempt
       THEN phase' = "failed" /\ UNCHANGED attempt
       ELSE attempt' = attempt + 1 /\ UNCHANGED phase
    /\ UNCHANGED <<page, all, refused, broker>>

\* Any other status than 200, or a body that cannot be decoded, ends the listing without
\* a retry; the broker may answer so to a page that no longer exists.
RequestRefused ==
    /\ phase = "listing"
    /\ refused' = TRUE
    /\ phase' = "failed"
    /\ UNCHANGED <<page, attempt, all, failures, broker>>

\* (Mutated form: the number of pages is compared with the next page.)
ListingEndsEarly == Items(page) = <<>> \/ Len(all') >= TotalCount \/ page + 1 >= PageCount

\* An empty page, all items, or the last page.
ListingEnds == Items(page) = <<>> \/ Len(all') >= TotalCount \/ page >= PageCount

\* (Mutated form: a page is appended at every attempt that the retry makes.)
RequestAnsweredAgain ==
    /\ phase = "listing"
    /\ all' = all \o Items(page) \o (IF attempt > 0 THEN Items(page) ELSE <<>>)
    /\ IF ListingEnds
       THEN phase' = "done" /\ UNCHANGED <<page, attempt>>
       ELSE page' = page + 1 /\ attempt' = 0 /\ UNCHANGED phase
    /\ failures' = 0
    /\ UNCHANGED <<refused, broker>>

\* (Mutated form: one budget of attempts for all pages.)
RequestAnsweredOnBudget ==
    /\ phase = "listing"
    /\ all' = all \o Items(page)
    /\ IF ListingEnds
       THEN phase' = "done" /\ UNCHANGED page
       ELSE page' = page + 1 /\ UNCHANGED phase
    /\ failures' = 0
    /\ UNCHANGED <<attempt, refused, broker>>

\* A page arrives; the next one is a request of its own.
RequestAnswered ==
    /\ phase = "listing"
    /\ all' = all \o Items(page)
    /\ IF ListingEnds
       THEN phase' = "done" /\ UNCHANGED <<page, attempt>>
       ELSE page' = page + 1 /\ attempt' = 0 /\ UNCHANGED phase
    /\ failures' = 0
    /\ UNCHANGED <<refused, broker>>

Client == RequestFails \/ RequestRefused \/ RequestAnswered

Broker == \E n \in Names : Create(n) \/ Delete(n)

Next == Client \/ Broker

Spec == Init /\ [][Next]_vars

-----------------------------------------------------------------------------
(* Properties.                                                             *)

\* What exists throughout the listing is found, as long as nothing is deleted: new
\* exchanges may come before, behind and on the pages that were read.
NothingMissedWithoutDeletes ==
    phase = "done" /\ ~deleted => initial \subseteq ToSet(all)

\* Nothing is found twice, as long as nothing is created, however often pages are
\* requested again.
NothingTwiceWithoutCreates == ~created => IsInjective(all)

\* The listing only gives up at a page that was refused or failed MaxRetries + 1 times,
\* however many requests of other pages have failed before it: up to MaxRetries failures
\* at each page are never seen by the caller (retryTransport.RoundTrip).
FailuresAreRetried == phase = "failed" /\ ~refused => failures > MaxRetries
=============================================================================
