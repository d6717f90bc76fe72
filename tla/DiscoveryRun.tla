---------------------------- MODULE DiscoveryRun ----------------------------
(***************************************************************************)
(* One discovery: FetchTargetPerClient in extrabbitmq/common.go visits the *)
(* configured management endpoints in order and calls a handler for each.  *)
(* The handlers of exchanges and queues make a listing in pages            *)
(* (PagedListing); those of nodes and vhosts ask once, over the same       *)
(* transport.  A handler asks for the name of the cluster too, but ignores *)
(* that it cannot be had.                                                  *)
(***************************************************************************)
EXTENDS PagedListing

CONSTANTS
    Endpoints,  \* how many management endpoints are configured
    Hidden      \* the unnamed default exchange, the amq.* built-ins, internal exchanges

ASSUME EndpointsAssumption == Endpoints \in Nat
ASSUME HiddenAssumption == Hidden \subseteq Names

Handlers == {"exchanges", "queues", "nodes", "vhosts"}

VARIABLES
    kind,     \* which discovery it is
    answers,  \* what each endpoint visited so far has brought
    targets,  \* all targets collected: the endpoint and the name of each
    lastErr,  \* some endpoint has failed
    result    \* "open", "targets" or "error"

discovery == <<kind, answers, targets, lastErr, result>>

\* The endpoint that is visited now.
Visited == Len(answers) + 1

More == result = "open" /\ Visited <= Endpoints

DiscoveryInit ==
    /\ Init
    /\ kind \in Handlers
    /\ answers = <<>>
    /\ targets = {}
    /\ lastErr = FALSE
    /\ result = "open"

\* What the handler of a kind reports if it exists: exchanges are filtered.
Reportable(k) == IF k = "exchanges" THEN Names \ Hidden ELSE Names

\* What the handler makes of a listing.
Reported == {<<Visited, n>> : n \in ToSet(all) \cap Reportable(kind)}

\* The next endpoint has other exchanges, and its listing starts anew.
NextListing ==
    /\ phase' = "listing"
    /\ exchanges' \in (IF Visited < Endpoints THEN SUBSET Names ELSE {{}})
    /\ initial' = exchanges'
    /\ page' = 1 /\ attempt' = 0 /\ all' = <<>>
    /\ created' = FALSE /\ deleted' = FALSE /\ refused' = FALSE
    /\ failures' = 0 /\ changes' = 0

\* ListNodes and ListVhosts: one reply has everything.
RequestAnsweredWhole ==
    /\ phase = "listing"
    /\ all' = Sorted
    /\ phase' = "done"
    /\ failures' = 0
    /\ UNCHANGED <<page, attempt, refused, broker>>

PagedStep == kind \in {"exchanges", "queues"} /\ Client

WholeStep ==
    /\ kind \in {"nodes", "vhosts"}
    /\ RequestFails \/ RequestRefused \/ RequestAnsweredWhole

\* A step of the listing, or a change at its broker.
Listing ==
    /\ More
    /\ PagedStep \/ WholeStep \/ Broker
    /\ UNCHANGED discovery

\* (Mutated form: the first error ends the visits, like a return in the loop.)
EndpointFailsForGood ==
    /\ More /\ (phase = "failed" \/ (phase = "listing" /\ page = 1 /\ attempt = 0))
    /\ answers' = Append(answers, [ok |-> FALSE, targets |-> {}])
    /\ lastErr' = TRUE
    /\ result' = IF targets = {} THEN "error" ELSE "targets"
    /\ NextListing
    /\ UNCHANGED <<kind, targets>>

\* There is no client for the endpoint, before anything is requested, or the listing has
\* failed: the next endpoint is visited.
EndpointFails ==
    /\ More /\ (phase = "failed" \/ (phase = "listing" /\ page = 1 /\ attempt = 0))
    /\ answers' = Append(answers, [ok |-> FALSE, targets |-> {}])
    /\ lastErr' = TRUE
    /\ NextListing
    /\ UNCHANGED <<kind, targets, result>>

\* The targets of the endpoint join those before.
EndpointAnswers ==
    /\ More /\ phase = "done"
    /\ answers' = Append(answers, [ok |-> TRUE, targets |-> Reported])
    /\ targets' = targets \cup Reported
    /\ NextListing
    /\ UNCHANGED <<kind, lastErr, result>>

\* Without a configured endpoint, or with no target and an error, the discovery fails.
Conclude ==
    /\ result = "open" /\ ~More
    /\ result' = IF Endpoints = 0 \/ (targets = {} /\ lastErr) THEN "error" ELSE "targets"
    /\ UNCHANGED <<vars, kind, answers, targets, lastErr>>

Concluded == result # "open" /\ UNCHANGED <<vars, discovery>>

DiscoveryNext == Listing \/ EndpointFails \/ EndpointAnswers \/ Conclude \/ Concluded

DiscoverySpec == DiscoveryInit /\ [][DiscoveryNext]_<<vars, discovery>>

-----------------------------------------------------------------------------
(* Properties.                                                             *)

Ownership(k) == [i \in 1..Endpoints |-> {i} \X Reportable(k)]

Promise == INSTANCE Discovery WITH
    Ownerships <- {Ownership(k) : k \in Handlers},
    owned <- Ownership(kind)

\* "Individual endpoint errors are logged and do not stop iteration": with its pages,
\* retries and errors the discovery does what it promises; each endpoint is asked, and
\* what any of them has brought is reported, whichever fail before or after it.
ImplementsDiscovery == Promise!Spec
=============================================================================
