------------------------------ MODULE Endpoints ------------------------------
(***************************************************************************)
(* How the extension finds its way back to a broker.  ParseConfiguration   *)
(* (config/config.go) normalises the configured endpoints; a discovery     *)
(* makes a client of each and puts the client's URL, and the AMQP URL it   *)
(* resolves from it, into its targets; an action has nothing but these two *)
(* attributes of its target, and looks its endpoint up by one of them      *)
(* before it connects (clients/clients.go, prepareCommon in publish.go).   *)
(*                                                                         *)
(* A URL is a record of the parts that are told apart.  plain says whether *)
(* its text is what url.Parse and String make of it: "HTTP://host" is not. *)
(* The hosts, names, passwords and files are external, and so is the       *)
(* connecting itself: a call succeeds when it gets so far as to connect.   *)
(***************************************************************************)
EXTENDS Integers, Sequences, FiniteSets

CONSTANTS
    None,            \* an empty string, a part that a URL does not have
    Names,           \* user names and passwords, None among them
    HostNames,       \* hosts, with their port
    Files,           \* CA files, None among them
    Configurations,  \* what the JSON may hold: sequences of endpoints
    GlobalCa,        \* globalCaFile(), or None
    GlobalInsecure,  \* Config.InsecureSkipVerify
    Readable,        \* the CA files that can be read
    Vhosts           \* vhosts of the brokers, see OnTheWire

Login == [user : Names, password : Names]

ManagementURL ==
    [scheme : {"blank", "malformed", "http", "https", "ftp"}, login : Login,
     host : HostNames, plain : BOOLEAN]

AmqpURL ==
    [scheme : {"absent", "blank", "malformed", "amqp", "amqps", "http"}, login : Login,
     host : HostNames]

\* config.ManagementEndpoint with its AMQPOptions; "ftp" is any other scheme of the one
\* URL, "http" any other of the other, and the scheme "absent" a missing amqp object.
Endpoint ==
    [url : ManagementURL, username : Names, password : Names, caFile : Files,
     insecure : BOOLEAN,
     amqp : [url : AmqpURL, username : Names, password : Names, caFile : Files,
             insecure : BOOLEAN, vhostGiven : BOOLEAN]]

ASSUME NoneAssumption == None \in Names /\ None \in Files
ASSUME ConfigurationsAssumption == Configurations \subseteq Seq(Endpoint)
ASSUME InsecureAssumption == GlobalInsecure \in BOOLEAN
ASSUME CaAssumption == GlobalCa \in Files

VARIABLES
    configured,  \* the endpoints that the JSON holds
    endpoints,   \* Config.ManagementEndpoints, as far as it is normalised
    phase,       \* "parsing", "serving" or "fatal"
    target,      \* a target that the platform has picked, or NoTarget
    call         \* what the last action for that target has done, or NoCall

vars == <<configured, endpoints, phase, target, call>>

NoLogin == [user |-> None, password |-> None]
NoUrl == [scheme |-> "blank", login |-> NoLogin, host |-> None]

TypeOK ==
    /\ configured \in Configurations
    /\ endpoints \in Seq(Endpoint)
    /\ phase \in {"parsing", "serving", "fatal"}
    /\ target.kind \in {"none", "queue", "exchange", "node"}
    /\ call.endpoint \in Nat

NoTarget == [by |-> 0, kind |-> "none", mgmt |-> NoUrl, amqp |-> NoUrl, vhost |-> None]
NoCall == [kind |-> "none", endpoint |-> 0, ok |-> FALSE, host |-> None,
           login |-> NoLogin, vhost |-> None, ca |-> None, insecure |-> FALSE]

Init ==
    /\ configured \in Configurations
    /\ endpoints = <<>>
    /\ phase = "parsing"
    /\ target = NoTarget
    /\ call = NoCall

-----------------------------------------------------------------------------
(* ParseConfiguration.                                                     *)

Or(own, other) == IF own = None THEN other ELSE own

\* What ends the process: a URL that is missing or cannot be parsed, no amqp object, no
\* vhost in it.
Flawed(ep) ==
    \/ ep.url.scheme \in {"blank", "malformed"}
    \/ ep.amqp.url.scheme \in {"absent", "blank", "malformed"}
    \/ ~ep.amqp.vhostGiven

\* The login of an AMQP connection: from its URL, else its own, else the management's.
\* (A URL that has a password, and an empty one, is left out: it hides the own one.)
AmqpUser(ep) == Or(Or(ep.amqp.url.login.user, ep.amqp.username), ep.username)
AmqpPassword(ep) == Or(Or(ep.amqp.url.login.password, ep.amqp.password), ep.password)

\* The AMQP URL without its login.
Bare(url) == [url EXCEPT !.login = NoLogin]

\* The login moves out of the AMQP URL; what is missing is inherited.
NormalisedAmqp(ep) ==
    [ep.amqp EXCEPT !.url = Bare(@),
                    !.username = AmqpUser(ep),
                    !.password = AmqpPassword(ep),
                    !.caFile = Or(@, GlobalCa),
                    !.insecure = @ \/ GlobalInsecure]

Normalised(ep) ==
    [ep EXCEPT !.caFile = IF ep.url.scheme = "https" THEN Or(@, GlobalCa) ELSE @,
               !.insecure = @ \/ (ep.url.scheme = "https" /\ GlobalInsecure),
               !.amqp = NormalisedAmqp(ep)]

\* The next endpoint of the array.
ParseEndpoint ==
    /\ phase = "parsing" /\ Len(endpoints) < Len(configured)
    /\ LET ep == configured[Len(endpoints) + 1]
       IN  IF Flawed(ep)
           THEN phase' = "fatal" /\ UNCHANGED endpoints
           ELSE endpoints' = Append(endpoints, Normalised(ep)) /\ UNCHANGED phase
    /\ UNCHANGED <<configured, target, call>>

Serve ==
    /\ phase = "parsing" /\ Len(endpoints) = Len(configured)
    /\ phase' = "serving"
    /\ UNCHANGED <<configured, endpoints, target, call>>

Fatal == phase = "fatal" /\ UNCHANGED vars

-----------------------------------------------------------------------------
(* Lookups, each of which returns the first endpoint that matches, or 0.   *)

First(set) == IF set = {} THEN 0 ELSE CHOOSE i \in set : \A j \in set : i <= j

\* GetEndpointByMgmtURL compares whole texts.
ByMgmtURL(url) == First({i \in DOMAIN endpoints : endpoints[i].url = url})

\* GetEndpointByAMQPURL; a blank URL matches nothing.
ByAMQPURL(url) ==
    First({i \in DOMAIN endpoints : url # NoUrl /\ endpoints[i].amqp.url = url})

\* (Mutated form: the first endpoint, whatever its host.)
AnyAMQPURL(url) ==
    LET i == First({j \in DOMAIN endpoints : endpoints[j].amqp.url # NoUrl})
    IN  IF i = 0 THEN NoUrl ELSE endpoints[i].amqp.url

\* resolveAMQPURLForClient compares the hosts of management URLs, not their paths.
ResolveAMQPURL(url) ==
    LET i == First({j \in DOMAIN endpoints : endpoints[j].url.host = url.host})
    IN  IF i = 0 THEN NoUrl ELSE endpoints[i].amqp.url

-----------------------------------------------------------------------------
(* Management clients.                                                     *)

\* (Mutated form: the login in the URL also serves AMQP from then on.)
FilledForAmqp(ep) ==
    [ep EXCEPT !.username = Or(@, ep.url.login.user),
               !.password = Or(@, ep.url.login.password),
               !.amqp.username = Or(@, ep.url.login.user)]

\* CreateMgmtClientFromURL completes the login from the URL, in the endpoint it is given.
Filled(ep) ==
    [ep EXCEPT !.username = Or(@, ep.url.login.user),
               !.password = Or(@, ep.url.login.password)]

\* applyEndpointTLS
TlsOk(ca) == ca = None \/ ca \in Readable

\* The scheme is known, and the transport can be made.
HasClient(ep) ==
    \/ ep.url.scheme = "http"
    \/ ep.url.scheme = "https" /\ TlsOk(ep.caFile)

\* (Mutated form: without the login, like the normalised AMQP URLs.)
ClientURLWithoutLogin(url) == [url EXCEPT !.plain = TRUE, !.login = NoLogin]

\* client.Endpoint is the URL as it is printed after parsing, with its login.
ClientURL(url) == [url EXCEPT !.plain = TRUE]

\* A target of endpoint i, as toQueueTarget, toExchangeTarget and toNodeTarget make it.
Found(i, kind, vhost) ==
    LET url == ClientURL(endpoints[i].url)
    IN  [by |-> i, kind |-> kind, mgmt |-> url,
         amqp |-> IF kind = "node" THEN NoUrl ELSE ResolveAMQPURL(url),
         vhost |-> vhost]

\* FetchTargetPerClient gives the client a copy of endpoint i.  The listings of queues
\* and nodes use that client.
Discover(i, kind, vhost) ==
    /\ phase = "serving" /\ i \in DOMAIN endpoints
    /\ kind \in {"queue", "node"}
    /\ HasClient(endpoints[i])
    /\ target' = Found(i, kind, vhost)
    /\ call' = NoCall
    /\ UNCHANGED <<configured, endpoints, phase>>

\* The listing of exchanges looks the client's URL up, and makes another client of the
\* endpoint that it finds; this one is no copy.
DiscoverExchange(i, vhost) ==
    /\ phase = "serving" /\ i \in DOMAIN endpoints
    /\ HasClient(endpoints[i])
    /\ LET j == ByMgmtURL(ClientURL(endpoints[i].url))
       IN  /\ j # 0 /\ HasClient(endpoints[j])
           /\ endpoints' = [endpoints EXCEPT ![j] = Filled(@)]
    /\ target' = Found(i, "exchange", vhost)
    /\ call' = NoCall
    /\ UNCHANGED <<configured, phase>>

\* What reaches the management API: the handlers of the node check, of the queue backlog
\* check and of the attack on the queue's length all begin so.
Manage ==
    /\ target.kind \in {"queue", "node"}
    /\ LET j == ByMgmtURL(target.mgmt)
       IN  IF j = 0
           THEN call' = [NoCall EXCEPT !.kind = "manage"] /\ UNCHANGED endpoints
           ELSE /\ endpoints' = [endpoints EXCEPT ![j] = Filled(@)]
                /\ call' = LET ep == endpoints'[j] IN
                      [kind |-> "manage", endpoint |-> j, ok |-> HasClient(ep),
                       host |-> ep.url.host, vhost |-> target.vhost,
                       login |-> [user |-> ep.username, password |-> ep.password],
                       ca |-> ep.caFile, insecure |-> ep.insecure]
    /\ UNCHANGED <<configured, phase, target>>

-----------------------------------------------------------------------------
(* AMQP connections.                                                       *)

\* buildAMQPURL puts an escaped vhost into the unescaped path of a URL, which is escaped
\* once more when it is printed.  The broker decodes once, and sees what url.PathEscape
\* has made of the name: without its first slash, and with the special characters that
\* it has as escape sequences.
OnTheWire(vhost) ==
    IF vhost.name = None THEN vhost
    ELSE [vhost EXCEPT !.slash = FALSE, !.special = FALSE,
                       !.escaped = vhost.special]

\* CreateNewAMQPConnection gets so far as to connect; it refuses other schemes, which
\* ParseConfiguration lets through.
Connects(amqp) ==
    \/ amqp.url.scheme = "amqp"
    \/ amqp.url.scheme = "amqps" /\ TlsOk(amqp.caFile)

\* prepareCommon looks the AMQP URL of the target up; its workers connect.
Publish ==
    /\ target.kind \in {"queue", "exchange"}
    /\ LET j == ByAMQPURL(target.amqp)
       IN  call' = IF j = 0 THEN [NoCall EXCEPT !.kind = "publish"]
                   ELSE LET amqp == endpoints[j].amqp IN
                      [kind |-> "publish", endpoint |-> j, ok |-> Connects(amqp),
                       host |-> amqp.url.host, vhost |-> OnTheWire(target.vhost),
                       login |-> [user |-> amqp.username, password |-> amqp.password],
                       ca |-> amqp.caFile, insecure |-> amqp.insecure]
    /\ UNCHANGED <<configured, endpoints, phase, target>>

Next ==
    \/ ParseEndpoint \/ Serve \/ Fatal
    \/ \E i \in DOMAIN endpoints, v \in Vhosts :
          Discover(i, "queue", v) \/ DiscoverExchange(i, v)
    \/ \E i \in DOMAIN endpoints : Discover(i, "node", None)
    \/ Manage \/ Publish

Spec == Init /\ [][Next]_vars

-----------------------------------------------------------------------------
(* Properties.                                                             *)

\* No two endpoints have these values in common.
Distinct(f) == \A i, j \in DOMAIN f : f[i] = f[j] => i = j

Hosts == [i \in DOMAIN configured |-> configured[i].url.host]
AmqpURLs == [i \in DOMAIN configured |-> Bare(configured[i].amqp.url)]
MgmtURLs == [i \in DOMAIN configured |-> ClientURL(configured[i].url)]

\* A publish action on a discovered queue or exchange connects to the AMQP endpoint that
\* belongs to the management endpoint where the target was found, if no two endpoints
\* share the host of their management URL, or an AMQP URL but for its login.
PublishReachesDiscoverer ==
    Distinct(Hosts) /\ Distinct(AmqpURLs) /\ call.kind = "publish" =>
        call.endpoint = target.by

\* A check or an attack reaches the management endpoint where its target was found, if
\* no two endpoints have the same URL and all are written as they are printed: parsing
\* and printing keeps what the lookup compares, the login in the URL included.
ManageReachesDiscoverer ==
    /\ Distinct(MgmtURLs)
    /\ \A i \in DOMAIN configured : configured[i].url.plain
    /\ call.kind = "manage"
    => call.endpoint = target.by

\* The endpoint as it is configured that the last call used.
Source == configured[call.endpoint]

ManageAsConfigured ==
    /\ call.login = [user |-> Or(Source.username, Source.url.login.user),
                     password |-> Or(Source.password, Source.url.login.password)]
    /\ Source.url.scheme = "https" =>
           /\ call.ca = Or(Source.caFile, GlobalCa)
           /\ call.insecure = (Source.insecure \/ GlobalInsecure)

PublishAsConfigured ==
    /\ call.login = [user |-> AmqpUser(Source), password |-> AmqpPassword(Source)]
    /\ Source.amqp.url.scheme = "amqps" =>
           /\ call.ca = Or(Source.amqp.caFile, GlobalCa)
           /\ call.insecure = (Source.amqp.insecure \/ GlobalInsecure)

\* Every call uses the login and the TLS settings that follow from the configuration
\* alone, whichever discoveries and actions have completed logins in the shared
\* configuration before it.
CallsFollowConfiguration ==
    call.endpoint # 0 =>
        /\ call.kind = "manage" => ManageAsConfigured
        /\ call.kind = "publish" => PublishAsConfigured
=============================================================================
