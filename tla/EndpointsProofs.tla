--------------------------- MODULE EndpointsProofs ---------------------------
(***************************************************************************)
(* Lookups of endpoints for every configuration, of any number of          *)
(* endpoints, and every sequence of discoveries and actions.               *)
(***************************************************************************)
EXTENDS Endpoints, WellFoundedInduction, TLAPS

-----------------------------------------------------------------------------
(* Lookups.                                                                *)

\* A set of numbers that is not empty has a least one.
LEMMA Least ==
    ASSUME NEW S \in SUBSET Nat, S # {}
    PROVE  \E m \in S : \A n \in S : m <= n
<1> DEFINE R == {ss \in Nat \X Nat : ss[1] < ss[2]}
<1>1. IsWellFoundedOn(R, Nat)
  BY NatLessThanWellFounded DEF OpToRel
<1>2. PICK m \in S : \A n \in S : ~(<<n, m>> \in R)
  <2> HIDE DEF R
  <2> QED
    BY <1>1, WFMin
<1>3. \A n \in S : ~(<<n, m>> \in R) => m <= n
  OBVIOUS
<1> QED
  BY <1>2, <1>3

\* First returns a member, which is the only one if there is only one, or 0.
LEMMA FirstMember ==
    ASSUME NEW S \in SUBSET Nat
    PROVE  /\ S = {} => First(S) = 0
           /\ S # {} => First(S) \in S
           /\ \A i \in S : S = {i} => First(S) = i
BY Least DEF First

-----------------------------------------------------------------------------
(* What an endpoint is made into.                                          *)

\* Normalisation keeps the URL and the login of the management API, and takes the login
\* out of the AMQP URL.
LEMMA NormalisedFields ==
    ASSUME NEW c \in Endpoint
    PROVE  /\ Normalised(c) \in Endpoint
           /\ Normalised(c).url = c.url
           /\ Normalised(c).username = c.username
           /\ Normalised(c).password = c.password
           /\ Normalised(c).amqp = NormalisedAmqp(c)
           /\ NormalisedAmqp(c).url = Bare(c.amqp.url)
           /\ NormalisedAmqp(c).username = AmqpUser(c)
           /\ NormalisedAmqp(c).password = AmqpPassword(c)
           /\ NormalisedAmqp(c).caFile = Or(c.amqp.caFile, GlobalCa)
           /\ NormalisedAmqp(c).insecure = (c.amqp.insecure \/ GlobalInsecure)
           /\ c.url.scheme = "https" =>
                  /\ Normalised(c).caFile = Or(c.caFile, GlobalCa)
                  /\ Normalised(c).insecure = (c.insecure \/ GlobalInsecure)
<1>1. NoLogin \in Login
  BY NoneAssumption DEF NoLogin, Login
<1>2. AmqpUser(c) \in Names /\ AmqpPassword(c) \in Names
  BY DEF AmqpUser, AmqpPassword, Or, Endpoint, AmqpURL, Login
<1>3. Or(c.amqp.caFile, GlobalCa) \in Files /\ Or(c.caFile, GlobalCa) \in Files
  BY CaAssumption DEF Or, Endpoint
<1> DEFINE ca == IF c.url.scheme = "https" THEN Or(c.caFile, GlobalCa) ELSE c.caFile
            insecure == c.insecure \/ (c.url.scheme = "https" /\ GlobalInsecure)
<1>4. Bare(c.amqp.url) \in AmqpURL
  BY <1>1 DEF Bare, Endpoint, AmqpURL
<1>5. NormalisedAmqp(c) \in [url : AmqpURL, username : Names, password : Names, caFile : Files,
                            insecure : BOOLEAN, vhostGiven : BOOLEAN]
  BY <1>2, <1>3, <1>4, InsecureAssumption DEF NormalisedAmqp, Endpoint
<1>6. /\ NormalisedAmqp(c).url = Bare(c.amqp.url)
      /\ NormalisedAmqp(c).username = AmqpUser(c)
      /\ NormalisedAmqp(c).password = AmqpPassword(c)
      /\ NormalisedAmqp(c).caFile = Or(c.amqp.caFile, GlobalCa)
      /\ NormalisedAmqp(c).insecure = (c.amqp.insecure \/ GlobalInsecure)
  BY InsecureAssumption DEF NormalisedAmqp, Endpoint
<1>7. ca \in Files /\ insecure \in BOOLEAN
  BY <1>3, InsecureAssumption DEF Endpoint
<1>8. /\ Normalised(c) \in Endpoint
      /\ Normalised(c).url = c.url /\ Normalised(c).username = c.username
      /\ Normalised(c).password = c.password /\ Normalised(c).amqp = NormalisedAmqp(c)
      /\ Normalised(c).caFile = ca /\ Normalised(c).insecure = insecure
  <2>1. Normalised(c) = [c EXCEPT !.caFile = ca, !.insecure = insecure,
                                  !.amqp = NormalisedAmqp(c)]
    BY DEF Normalised
  <2> HIDE DEF ca, insecure
  <2> QED
    BY <2>1, <1>5, <1>7 DEF Endpoint
<1> QED
  BY <1>6, <1>8

\* A management client completes the login and changes nothing else.
LEMMA FilledFields ==
    ASSUME NEW c \in Endpoint
    PROVE  /\ Filled(c) \in Endpoint
           /\ Filled(c).url = c.url /\ Filled(c).amqp = c.amqp
           /\ Filled(c).caFile = c.caFile /\ Filled(c).insecure = c.insecure
           /\ Filled(c).username = Or(c.username, c.url.login.user)
           /\ Filled(c).password = Or(c.password, c.url.login.password)
<1>1. Or(c.username, c.url.login.user) \in Names /\ Or(c.password, c.url.login.password) \in Names
  BY DEF Or, Endpoint, ManagementURL, Login
<1> QED
  BY <1>1 DEF Filled, Endpoint

-----------------------------------------------------------------------------
(* The inductive invariant.                                                *)

\* An endpoint is what its configuration makes of it, with its login completed from its
\* URL or not yet.
Follows(e, c) ==
    /\ e.url = c.url /\ e.amqp = NormalisedAmqp(c)
    /\ c.amqp.url.scheme # "blank"
    /\ Or(e.username, e.url.login.user) = Or(c.username, c.url.login.user)
    /\ Or(e.password, e.url.login.password) = Or(c.password, c.url.login.password)
    /\ c.url.scheme = "https" =>
           /\ e.caFile = Or(c.caFile, GlobalCa)
           /\ e.insecure = (c.insecure \/ GlobalInsecure)

Parsed ==
    /\ configured \in Seq(Endpoint) /\ endpoints \in Seq(Endpoint)
    /\ Len(endpoints) <= Len(configured)
    /\ \A i \in DOMAIN endpoints : Follows(endpoints[i], configured[i])

\* A target holds the URLs of the endpoint where it was found.
Aimed ==
    target.kind # "none" =>
        /\ target.by \in DOMAIN endpoints
        /\ target.mgmt = ClientURL(endpoints[target.by].url)
        /\ Distinct(Hosts) /\ target.kind # "node" =>
               target.amqp = endpoints[target.by].amqp.url

AimInv == Parsed /\ Aimed

LEMMA AimInit == Init => AimInv
BY ConfigurationsAssumption DEF Init, AimInv, Parsed, Aimed, NoTarget

\* Where the endpoints and their URLs stay, targets stay aimed.
LEMMA AimKept ==
    ASSUME Aimed, UNCHANGED <<configured, target>>,
           DOMAIN endpoints \subseteq DOMAIN endpoints',
           \A i \in DOMAIN endpoints : /\ endpoints'[i].url = endpoints[i].url
                                      /\ endpoints'[i].amqp = endpoints[i].amqp
    PROVE  Aimed'
BY DEF Aimed, Hosts, Distinct

\* A completed login keeps an endpoint's configuration in force, and its URLs.
LEMMA FilledStep ==
    ASSUME Parsed, UNCHANGED configured, NEW j \in DOMAIN endpoints,
           endpoints' = [endpoints EXCEPT ![j] = Filled(@)]
    PROVE  /\ Parsed'
           /\ DOMAIN endpoints' = DOMAIN endpoints
           /\ \A i \in DOMAIN endpoints : /\ endpoints'[i].url = endpoints[i].url
                                          /\ endpoints'[i].amqp = endpoints[i].amqp
           /\ endpoints'[j] = Filled(endpoints[j])
<1>1. endpoints[j] \in Endpoint /\ endpoints \in Seq(Endpoint)
  BY DEF Parsed
<1>2. PICK e \in Endpoint : e = endpoints[j]
  BY <1>1
<1>3. /\ Filled(e) \in Endpoint
      /\ Filled(e).url = e.url /\ Filled(e).amqp = e.amqp
      /\ Filled(e).caFile = e.caFile /\ Filled(e).insecure = e.insecure
      /\ Filled(e).username = Or(e.username, e.url.login.user)
      /\ Filled(e).password = Or(e.password, e.url.login.password)
  BY FilledFields
<1>4. /\ endpoints' \in Seq(Endpoint) /\ Len(endpoints') = Len(endpoints)
      /\ DOMAIN endpoints' = DOMAIN endpoints
      /\ endpoints'[j] = Filled(e)
      /\ \A i \in DOMAIN endpoints : i # j => endpoints'[i] = endpoints[i]
  BY <1>1, <1>2, <1>3
<1>5. Follows(Filled(e), configured[j])
  <2>1. Follows(e, configured[j])
    BY <1>2 DEF Parsed
  <2> QED
    BY <1>3, <2>1 DEF Follows, Or
<1>6. \A i \in DOMAIN endpoints' : Follows(endpoints'[i], configured[i])
  BY <1>4, <1>5 DEF Parsed
<1> QED
  BY <1>2, <1>3, <1>4, <1>6 DEF Parsed

\* The first endpoint with a URL, if any.
LEMMA FirstEndpoint ==
    ASSUME Parsed, NEW url
    PROVE  /\ ByMgmtURL(url) # 0 => ByMgmtURL(url) \in DOMAIN endpoints
           /\ ByAMQPURL(url) # 0 => ByAMQPURL(url) \in DOMAIN endpoints
<1> DEFINE M == {i \in DOMAIN endpoints : endpoints[i].url = url}
          A == {i \in DOMAIN endpoints : url # NoUrl /\ endpoints[i].amqp.url = url}
<1>1. M \in SUBSET Nat /\ A \in SUBSET Nat
  BY DEF Parsed
<1>2. ByMgmtURL(url) = First(M) /\ ByAMQPURL(url) = First(A)
  BY DEF ByMgmtURL, ByAMQPURL
<1>3. /\ First(M) # 0 => First(M) \in M
      /\ First(A) # 0 => First(A) \in A
  <2> HIDE DEF M, A
  <2> QED
    BY <1>1, FirstMember
<1> QED
  BY <1>2, <1>3

\* The AMQP URL that is resolved for an endpoint is its own if no other has its host.
LEMMA ResolvesOwn ==
    ASSUME Parsed, Distinct(Hosts), NEW i \in DOMAIN endpoints
    PROVE  ResolveAMQPURL(ClientURL(endpoints[i].url)) = endpoints[i].amqp.url
<1> DEFINE url == ClientURL(endpoints[i].url)
          S == {j \in DOMAIN endpoints : endpoints[j].url.host = url.host}
<1>1. i \in Nat \ {0} /\ S \in SUBSET Nat
  BY DEF Parsed
<1>2. url.host = endpoints[i].url.host
  BY DEF ClientURL, Parsed, Endpoint, ManagementURL
<1>3. \A j \in S : j = i
  BY <1>2 DEF Parsed, Follows, Hosts, Distinct
<1>4. S = {i}
  BY <1>2, <1>3
<1>5. First(S) = i
  <2> HIDE DEF S
  <2> QED
    BY <1>1, <1>4, FirstMember
<1> QED
  BY <1>1, <1>5 DEF ResolveAMQPURL

\* A new target holds the URLs of its endpoint.
LEMMA FoundIsAimed ==
    ASSUME Parsed, NEW i \in DOMAIN endpoints, NEW kind, NEW vhost,
           target' = Found(i, kind, vhost), UNCHANGED configured,
           DOMAIN endpoints' = DOMAIN endpoints,
           \A n \in DOMAIN endpoints : /\ endpoints'[n].url = endpoints[n].url
                                      /\ endpoints'[n].amqp = endpoints[n].amqp
    PROVE  Aimed'
<1>1. /\ target'.by = i /\ target'.kind = kind
      /\ target'.mgmt = ClientURL(endpoints[i].url)
      /\ kind # "node" => target'.amqp = ResolveAMQPURL(ClientURL(endpoints[i].url))
  BY DEF Found
<1>2. Distinct(Hosts) => ResolveAMQPURL(ClientURL(endpoints[i].url)) = endpoints[i].amqp.url
  BY ResolvesOwn
<1>3. Hosts' = Hosts
  BY DEF Hosts
<1> QED
  BY <1>1, <1>2, <1>3 DEF Aimed, Distinct

\* Every step keeps the configuration in force and the targets aimed.
LEMMA AimStep == AimInv /\ [Next]_vars => AimInv'
<1> SUFFICES ASSUME Parsed, Aimed, [Next]_vars
             PROVE  Parsed' /\ Aimed'
  BY DEF AimInv
<1>1. CASE ParseEndpoint
  <2>1. CASE UNCHANGED endpoints
    BY <1>1, <2>1 DEF ParseEndpoint, Parsed, Aimed, Hosts, Distinct
  <2>2. CASE ~UNCHANGED endpoints
    <3> DEFINE n == Len(endpoints) + 1
              c == configured[n]
    <3>1. /\ n \in DOMAIN configured /\ ~Flawed(c)
          /\ endpoints' = Append(endpoints, Normalised(c))
          /\ UNCHANGED <<configured, target>>
      BY <1>1, <2>2 DEF ParseEndpoint, Parsed
    <3>2. c \in Endpoint
      BY <3>1 DEF Parsed
    <3>3. /\ Normalised(c) \in Endpoint
          /\ Normalised(c).url = c.url /\ Normalised(c).amqp = NormalisedAmqp(c)
          /\ Normalised(c).username = c.username /\ Normalised(c).password = c.password
          /\ c.url.scheme = "https" =>
                 /\ Normalised(c).caFile = Or(c.caFile, GlobalCa)
                 /\ Normalised(c).insecure = (c.insecure \/ GlobalInsecure)
      BY <3>2, NormalisedFields
    <3>4. Follows(Normalised(c), c)
      BY <3>1, <3>3 DEF Follows, Flawed
    <3>5. /\ endpoints' \in Seq(Endpoint) /\ Len(endpoints') = n
          /\ endpoints'[n] = Normalised(c)
          /\ \A i \in DOMAIN endpoints : endpoints'[i] = endpoints[i]
      BY <3>1, <3>3 DEF Parsed
    <3>6. \A i \in DOMAIN endpoints' : i = n \/ i \in DOMAIN endpoints
      BY <3>5 DEF Parsed
    <3>7. Parsed'
      <4>1. \A i \in DOMAIN endpoints' : Follows(endpoints'[i], configured[i])
        BY <3>4, <3>5, <3>6 DEF Parsed
      <4> QED
        BY <3>1, <3>5, <4>1 DEF Parsed
    <3>8. DOMAIN endpoints \subseteq DOMAIN endpoints'
      BY <3>5 DEF Parsed
    <3>9. Aimed'
      BY <3>1, <3>5, <3>8, AimKept
    <3> QED
      BY <3>7, <3>9
  <2> QED
    BY <2>1, <2>2
<1>2. CASE Serve \/ Fatal \/ Publish \/ UNCHANGED vars
  BY <1>2 DEF Serve, Fatal, Publish, vars, Parsed, Aimed, Hosts, Distinct
<1>3. ASSUME NEW i \in DOMAIN endpoints, NEW kind, NEW v, Discover(i, kind, v)
      PROVE  Parsed' /\ Aimed'
  <2>1. target' = Found(i, kind, v) /\ UNCHANGED <<configured, endpoints>>
    BY <1>3 DEF Discover
  <2> QED
    BY <2>1, FoundIsAimed DEF Parsed
<1>4. ASSUME NEW i \in DOMAIN endpoints, NEW v, DiscoverExchange(i, v)
      PROVE  Parsed' /\ Aimed'
  <2>1. PICK j \in DOMAIN endpoints : endpoints' = [endpoints EXCEPT ![j] = Filled(@)]
    BY <1>4, FirstEndpoint DEF DiscoverExchange
  <2>2. UNCHANGED configured /\ target' = Found(i, "exchange", v)
    BY <1>4 DEF DiscoverExchange
  <2> QED
    BY <2>1, <2>2, FilledStep, FoundIsAimed
<1>5. CASE Manage
  <2>1. UNCHANGED <<configured, target>>
    BY <1>5 DEF Manage
  <2>2. CASE ByMgmtURL(target.mgmt) = 0
    BY <1>5, <2>1, <2>2 DEF Manage, Parsed, Aimed, Hosts, Distinct
  <2>3. CASE ByMgmtURL(target.mgmt) # 0
    <3>1. PICK j \in DOMAIN endpoints : endpoints' = [endpoints EXCEPT ![j] = Filled(@)]
      BY <1>5, <2>3, FirstEndpoint DEF Manage
    <3> QED
      BY <2>1, <3>1, FilledStep, AimKept
  <2> QED
    BY <2>2, <2>3
<1> QED
  BY <1>1, <1>2, <1>3, <1>4, <1>5 DEF Next

LEMMA Aiming == Spec => []AimInv
BY AimInit, AimStep, PTL DEF Spec

-----------------------------------------------------------------------------
(* The properties.                                                         *)

\* The endpoints stay well-formed, and a call names one of them or 0.
THEOREM TypeCorrect == Spec => []TypeOK
<1>1. Init => TypeOK
  BY DEF Init, TypeOK, NoTarget, NoCall
<1>2. AimInv /\ AimInv' /\ TypeOK /\ [Next]_vars => TypeOK'
  <2> SUFFICES ASSUME Parsed, Parsed', TypeOK, [Next]_vars
               PROVE  TypeOK'
    BY DEF AimInv
  <2>1. endpoints' \in Seq(Endpoint)
    BY DEF Parsed
  <2>2. configured' \in Configurations /\ phase' \in {"parsing", "serving", "fatal"}
    BY DEF TypeOK, Next, ParseEndpoint, Serve, Fatal, Discover, DiscoverExchange, Manage,
           Publish, vars
  <2>3. target'.kind \in {"none", "queue", "exchange", "node"}
    <3>1. target.kind \in {"none", "queue", "exchange", "node"}
      BY DEF TypeOK
    <3>2. ASSUME NEW i, NEW v, NEW k \in {"queue", "node"},
                 Discover(i, k, v) \/ DiscoverExchange(i, v)
          PROVE  target'.kind \in {"none", "queue", "exchange", "node"}
      <4>1. target' \in {Found(i, k, v), Found(i, "exchange", v)}
        BY <3>2 DEF Discover, DiscoverExchange
      <4> QED
        BY <4>1 DEF Found
    <3>3. CASE ParseEndpoint \/ Serve \/ Fatal \/ Manage \/ Publish \/ UNCHANGED vars
      <4>1. UNCHANGED target
        BY <3>3 DEF ParseEndpoint, Serve, Fatal, Manage, Publish, vars
      <4> QED
        BY <3>1, <4>1
    <3> QED
      BY <3>2, <3>3 DEF Next
  <2>4. call'.endpoint \in Nat
    <3>1. /\ ByMgmtURL(target.mgmt) \in Nat
          /\ ByAMQPURL(target.amqp) \in Nat
      <4>1. \A j \in DOMAIN endpoints : j \in Nat
        BY DEF Parsed
      <4>2. /\ ByMgmtURL(target.mgmt) # 0 => ByMgmtURL(target.mgmt) \in DOMAIN endpoints
            /\ ByAMQPURL(target.amqp) # 0 => ByAMQPURL(target.amqp) \in DOMAIN endpoints
        BY FirstEndpoint
      <4> QED
        BY <4>1, <4>2
    <3>2. CASE Manage
      <4>1. call'.endpoint \in {0, ByMgmtURL(target.mgmt)}
        BY <3>2 DEF Manage, NoCall
      <4> QED
        BY <3>1, <4>1
    <3>3. CASE Publish
      <4>1. call'.endpoint \in {0, ByAMQPURL(target.amqp)}
        BY <3>3 DEF Publish, NoCall
      <4> QED
        BY <3>1, <4>1
    <3>4. ASSUME NEW i, NEW v, NEW k, Discover(i, k, v) \/ DiscoverExchange(i, v)
          PROVE  call'.endpoint = 0
      <4>1. call' = NoCall
        BY <3>4 DEF Discover, DiscoverExchange
      <4> QED
        BY <4>1 DEF NoCall
    <3>5. CASE ParseEndpoint \/ Serve \/ Fatal \/ UNCHANGED vars
      <4>1. UNCHANGED call
        BY <3>5 DEF ParseEndpoint, Serve, Fatal, vars
      <4> QED
        BY <4>1 DEF TypeOK
    <3> QED
      BY <3>2, <3>3, <3>4, <3>5 DEF Next
  <2> QED
    BY <2>1, <2>2, <2>3, <2>4 DEF TypeOK
<1> QED
  BY <1>1, <1>2, Aiming, PTL DEF Spec

\* For every configuration, of any number of endpoints: a publish action connects to
\* the AMQP endpoint of the management endpoint where its target was found, if the hosts
\* and the AMQP URLs are distinct.
THEOREM PublishReachesCorrect == Spec => []PublishReachesDiscoverer
<1>1. Init => PublishReachesDiscoverer
  BY DEF Init, NoCall, PublishReachesDiscoverer
<1>2. AimInv /\ PublishReachesDiscoverer /\ [Next]_vars => PublishReachesDiscoverer'
  <2> SUFFICES ASSUME Parsed, Aimed, PublishReachesDiscoverer, [Next]_vars,
                      Distinct(Hosts'), Distinct(AmqpURLs'), call'.kind = "publish"
               PROVE  call'.endpoint = target'.by
    BY DEF AimInv, PublishReachesDiscoverer, Distinct
  <2>1. UNCHANGED configured
    BY DEF Next, ParseEndpoint, Serve, Fatal, Discover, DiscoverExchange, Manage, Publish, vars
  <2>2. Distinct(Hosts) /\ Distinct(AmqpURLs)
    BY <2>1 DEF Hosts, AmqpURLs, Distinct
  <2>3. CASE Publish
    <3> DEFINE A == {i \in DOMAIN endpoints : target.amqp # NoUrl
                                            /\ endpoints[i].amqp.url = target.amqp}
    <3>1. target.kind \in {"queue", "exchange"} /\ target' = target
      BY <2>3 DEF Publish
    <3>2. target.by \in DOMAIN endpoints /\ target.amqp = endpoints[target.by].amqp.url
      BY <2>2, <3>1 DEF Aimed
    <3>3. \A i \in DOMAIN endpoints :
             /\ endpoints[i].amqp.url = AmqpURLs[i]
             /\ i \in DOMAIN AmqpURLs /\ configured[i] \in Endpoint
      <4>1. \A i \in DOMAIN endpoints :
               /\ i \in DOMAIN configured /\ configured[i] \in Endpoint
               /\ endpoints[i].amqp = NormalisedAmqp(configured[i])
        BY DEF Parsed, Follows
      <4> QED
        BY <4>1, NormalisedFields DEF AmqpURLs
    <3>4. \A i \in A : i = target.by
      BY <2>2, <3>2, <3>3 DEF Distinct
    <3>5. target.amqp # NoUrl
      <4>1. configured[target.by].amqp.url.scheme # "blank"
        BY <3>2 DEF Parsed, Follows
      <4>2. target.amqp = Bare(configured[target.by].amqp.url)
        BY <3>2, <3>3 DEF AmqpURLs
      <4>3. configured[target.by].amqp.url \in AmqpURL
        BY <3>2, <3>3 DEF Endpoint
      <4> QED
        BY <4>1, <4>2, <4>3 DEF Bare, AmqpURL, NoUrl
    <3>6. A = {target.by} /\ target.by \in Nat \ {0}
      BY <3>2, <3>4, <3>5 DEF Parsed
    <3>7. First(A) = target.by
      <4> HIDE DEF A
      <4> QED
        BY <3>6, FirstMember
    <3> QED
      BY <2>3, <3>1, <3>6, <3>7 DEF Publish, ByAMQPURL
  <2>4. CASE ~Publish
    <3>1. UNCHANGED <<call, target>>
      BY <2>4 DEF Next, ParseEndpoint, Serve, Fatal, Discover, DiscoverExchange, Manage, vars, NoCall
    <3> QED
      BY <2>2, <3>1 DEF PublishReachesDiscoverer
  <2> QED
    BY <2>3, <2>4
<1> QED
  BY <1>1, <1>2, Aiming, PTL DEF Spec

\* For every configuration whose URLs are distinct and written as they are printed, a
\* check or an attack reaches the endpoint where its target was found.
THEOREM ManageReachesCorrect == Spec => []ManageReachesDiscoverer
<1>1. Init => ManageReachesDiscoverer
  BY DEF Init, NoCall, ManageReachesDiscoverer
<1>2. AimInv /\ ManageReachesDiscoverer /\ [Next]_vars => ManageReachesDiscoverer'
  <2> SUFFICES ASSUME Parsed, Aimed, ManageReachesDiscoverer, [Next]_vars,
                      Distinct(MgmtURLs'), call'.kind = "manage",
                      \A i \in DOMAIN configured' : configured'[i].url.plain
               PROVE  call'.endpoint = target'.by
    BY DEF AimInv, ManageReachesDiscoverer, Distinct
  <2>1. UNCHANGED configured
    BY DEF Next, ParseEndpoint, Serve, Fatal, Discover, DiscoverExchange, Manage, Publish, vars
  <2>2. Distinct(MgmtURLs) /\ \A i \in DOMAIN configured : configured[i].url.plain
    BY <2>1 DEF MgmtURLs, Distinct
  <2>3. CASE Manage
    <3> DEFINE M == {i \in DOMAIN endpoints : endpoints[i].url = target.mgmt}
    <3>1. target.kind # "none" /\ target' = target
      BY <2>3 DEF Manage
    <3>2. target.by \in DOMAIN endpoints /\ target.mgmt = ClientURL(endpoints[target.by].url)
      BY <3>1 DEF Aimed
    <3>3. \A i \in DOMAIN endpoints :
             /\ i \in DOMAIN MgmtURLs /\ MgmtURLs[i] = ClientURL(endpoints[i].url)
             /\ ClientURL(endpoints[i].url) = endpoints[i].url
      <4>1. \A i \in DOMAIN endpoints :
               /\ i \in DOMAIN configured /\ configured[i] \in Endpoint
               /\ endpoints[i].url = configured[i].url /\ configured[i].url.plain
        BY <2>2 DEF Parsed, Follows
      <4>2. \A url \in ManagementURL : url.plain => ClientURL(url) = url
        BY DEF ManagementURL, ClientURL
      <4> QED
        BY <4>1, <4>2 DEF MgmtURLs, Endpoint
    <3>4. \A i \in M : i = target.by
      BY <2>2, <3>2, <3>3 DEF Distinct
    <3>5. M = {target.by} /\ target.by \in Nat \ {0}
      BY <3>2, <3>3, <3>4 DEF Parsed
    <3>6. First(M) = target.by
      <4> HIDE DEF M
      <4> QED
        BY <3>5, FirstMember
    <3> QED
      BY <2>3, <3>1, <3>5, <3>6 DEF Manage, ByMgmtURL
  <2>4. CASE ~Manage
    <3>1. UNCHANGED <<call, target>>
      BY <2>4 DEF Next, ParseEndpoint, Serve, Fatal, Discover, DiscoverExchange, Publish, vars, NoCall
    <3> QED
      BY <2>2, <3>1 DEF ManageReachesDiscoverer
  <2> QED
    BY <2>3, <2>4
<1> QED
  BY <1>1, <1>2, Aiming, PTL DEF Spec

\* For every configuration and every order of discoveries and actions, a call uses the
\* login and the TLS settings that follow from the configuration alone.
THEOREM CallsFollowCorrect == Spec => []CallsFollowConfiguration
<1>1. Init => CallsFollowConfiguration
  BY DEF Init, NoCall, CallsFollowConfiguration
<1>2. AimInv /\ CallsFollowConfiguration /\ [Next]_vars => CallsFollowConfiguration'
  <2> SUFFICES ASSUME Parsed, CallsFollowConfiguration, [Next]_vars
               PROVE  CallsFollowConfiguration'
    BY DEF AimInv
  <2>1. UNCHANGED configured
    BY DEF Next, ParseEndpoint, Serve, Fatal, Discover, DiscoverExchange, Manage, Publish, vars
  <2>2. CASE Manage
    <3>1. CASE ByMgmtURL(target.mgmt) = 0
      BY <2>2, <3>1 DEF Manage, NoCall, CallsFollowConfiguration
    <3>2. CASE ByMgmtURL(target.mgmt) # 0
      <4>1. PICK j \in DOMAIN endpoints : j = ByMgmtURL(target.mgmt)
        BY <3>2, FirstEndpoint
      <4>2. /\ endpoints' = [endpoints EXCEPT ![j] = Filled(@)]
            /\ call'.kind = "manage" /\ call'.endpoint = j
            /\ call'.login = [user |-> endpoints'[j].username,
                              password |-> endpoints'[j].password]
            /\ call'.ca = endpoints'[j].caFile /\ call'.insecure = endpoints'[j].insecure
        BY <2>2, <3>2, <4>1 DEF Manage
      <4>3. endpoints'[j] = Filled(endpoints[j])
        BY <2>1, <4>2, FilledStep
      <4>4. PICK e \in Endpoint : e = endpoints[j]
        BY DEF Parsed
      <4>5. PICK c : c = configured[j]
        OBVIOUS
      <4>6. Follows(e, c)
        BY <4>4, <4>5 DEF Parsed
      <4>7. /\ Filled(e).caFile = e.caFile /\ Filled(e).insecure = e.insecure
            /\ Filled(e).username = Or(e.username, e.url.login.user)
            /\ Filled(e).password = Or(e.password, e.url.login.password)
        BY FilledFields
      <4>8. /\ call'.login = [user |-> Or(c.username, c.url.login.user),
                              password |-> Or(c.password, c.url.login.password)]
            /\ c.url.scheme = "https" =>
                   /\ call'.ca = Or(c.caFile, GlobalCa)
                   /\ call'.insecure = (c.insecure \/ GlobalInsecure)
        BY <4>2, <4>3, <4>4, <4>6, <4>7 DEF Follows
      <4> QED
        BY <2>1, <4>2, <4>5, <4>8 DEF CallsFollowConfiguration, ManageAsConfigured, Source
    <3> QED
      BY <3>1, <3>2
  <2>3. CASE Publish
    <3>1. CASE ByAMQPURL(target.amqp) = 0
      BY <2>3, <3>1 DEF Publish, NoCall, CallsFollowConfiguration
    <3>2. CASE ByAMQPURL(target.amqp) # 0
      <4>1. PICK j \in DOMAIN endpoints : j = ByAMQPURL(target.amqp)
        BY <3>2, FirstEndpoint
      <4>2. PICK amqp : amqp = endpoints[j].amqp
        OBVIOUS
      <4>3. /\ call'.kind = "publish" /\ call'.endpoint = j
            /\ call'.login = [user |-> amqp.username, password |-> amqp.password]
            /\ call'.ca = amqp.caFile /\ call'.insecure = amqp.insecure
        BY <2>3, <3>2, <4>1, <4>2 DEF Publish
      <4>4. configured[j] \in Endpoint /\ amqp = NormalisedAmqp(configured[j])
        BY <4>2 DEF Parsed, Follows
      <4>5. PICK c \in Endpoint : c = configured[j]
        BY <4>4
      <4>6. /\ amqp.username = AmqpUser(c) /\ amqp.password = AmqpPassword(c)
            /\ amqp.caFile = Or(c.amqp.caFile, GlobalCa)
            /\ amqp.insecure = (c.amqp.insecure \/ GlobalInsecure)
        BY <4>4, <4>5, NormalisedFields
      <4> QED
        BY <2>1, <4>3, <4>5, <4>6
           DEF CallsFollowConfiguration, PublishAsConfigured, Source
    <3> QED
      BY <3>1, <3>2
  <2>4. CASE ~Manage /\ ~Publish
    <3>1. UNCHANGED call \/ call' = NoCall
      <4>1. ASSUME NEW i, NEW v, NEW k, Discover(i, k, v) \/ DiscoverExchange(i, v)
            PROVE  call' = NoCall
        BY <4>1 DEF Discover, DiscoverExchange
      <4>2. CASE ParseEndpoint \/ Serve \/ Fatal \/ UNCHANGED vars
        BY <4>2 DEF ParseEndpoint, Serve, Fatal, vars
      <4> QED
        BY <2>4, <4>1, <4>2 DEF Next
    <3> QED
      BY <2>1, <3>1
         DEF NoCall, CallsFollowConfiguration, ManageAsConfigured, PublishAsConfigured, Source
  <2> QED
    BY <2>2, <2>3, <2>4
<1> QED
  BY <1>1, <1>2, Aiming, PTL DEF Spec
=============================================================================
