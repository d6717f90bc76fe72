---------------------- MODULE AlterQueueMaxLengthProofs ----------------------
(***************************************************************************)
(* Why the limit of an attack gives way to nothing that its scan has       *)
(* found, for any number of attacks and foreign policies of any priority,  *)
(* whoever starts, stops or edits in between: the priority that an attack  *)
(* has read bounds those of the policies that it has found, and none of    *)
(* them can come back with another one.                                    *)
(***************************************************************************)
EXTENDS AlterQueueMaxLength, TLAPS

\* The policies that an attack has found and its scan takes into account.
Found(a) == known[a] \cap (Readable \cup Attacks)

\* The highest priority that an attack has read bounds what it has found.
ReadBounds ==
    \A a \in Attacks : pc[a] = "listed" =>
        \A p \in Found(a) : PriorityOf(p) <= highest[a]

\* Only an attack that has put its policy is found, or has one: the priorities that an
\* attack has compared its own with do not change any more.
PutBefore ==
    \A b \in Attacks : pc[b] \in {"prepared", "listed"} =>
        b \notin policies /\ \A a \in Attacks : b \notin known[a]

\* The policy of an attack outranks what the attack has found.
Outranks ==
    \A a \in policies \cap Attacks : \A p \in Found(a) : own[a] > PriorityOf(p)

Inv == TypeOK /\ ReadBounds /\ PutBefore /\ Outranks

LEMMA PriorityType ==
    ASSUME TypeOK, NEW p \in Attacks \cup Readable
    PROVE  PriorityOf(p) \in Int
BY PriorityAssumption, ReadableAssumption DEF TypeOK, PriorityOf

\* The result of the scan is a natural number that bounds the policies it reads.
LEMMA HighestBounds ==
    ASSUME TypeOK, NEW h \in Candidates, IsHighest(h)
    PROVE  /\ h \in Nat
           /\ \A p \in policies \cap (Readable \cup Attacks) : PriorityOf(p) <= h
<1>1. \A p \in Seen : p \in Attacks \cup Readable
  BY DEF Seen
<1>2. \A p \in Seen : PriorityOf(p) \in Int
  BY <1>1, PriorityType
<1>3. h \in Int
  BY <1>2 DEF Candidates
<1>4. h >= 0
  BY DEF IsHighest, Candidates
<1>5. \A p \in Seen : h >= PriorityOf(p)
  BY DEF IsHighest, Candidates
<1>6. \A p \in policies \cap (Readable \cup Attacks) : p \in Seen
  BY DEF Seen
<1> QED
  BY <1>2, <1>3, <1>4, <1>5, <1>6

LEMMA InitInv == Init => Inv
BY NamesAssumption DEF Init, Inv, TypeOK, ReadBounds, PutBefore, Outranks

\* Listing the policies: what exists is known from now on.
LEMMA ListStep ==
    ASSUME Inv, NEW a \in Attacks, StartList(a)
    PROVE  Inv'
<1>1. TypeOK /\ ReadBounds /\ PutBefore /\ Outranks
  BY DEF Inv
<1>2. /\ pc \in [Attacks -> {"prepared", "listed", "running", "failed", "stopped"}]
      /\ highest \in [Attacks -> Nat]
      /\ known \in [Attacks -> SUBSET (Attacks \cup Foreign)]
      /\ policies \subseteq Attacks \cup Foreign
  BY <1>1 DEF TypeOK
<1>3. /\ pc[a] = "prepared"
      /\ UNCHANGED <<own, named, policies>>
  BY DEF StartList
<1>4. \A p : PriorityOf(p)' = PriorityOf(p)
  BY <1>3 DEF PriorityOf
<1>5. CASE /\ \E h \in Candidates : IsHighest(h) /\ highest' = [highest EXCEPT ![a] = h]
           /\ known' = [known EXCEPT ![a] = policies]
           /\ pc' = [pc EXCEPT ![a] = "listed"]
  <2>1. PICK h \in Candidates : IsHighest(h) /\ highest' = [highest EXCEPT ![a] = h]
    BY <1>5
  <2>2. /\ h \in Nat
        /\ \A p \in policies \cap (Readable \cup Attacks) : PriorityOf(p) <= h
    BY <1>1, <2>1, HighestBounds
  <2>3. TypeOK'
    BY <1>1, <1>2, <1>3, <1>5, <2>1, <2>2 DEF TypeOK
  <2>4. highest'[a] = h /\ known'[a] = policies /\ pc'[a] = "listed"
    BY <1>2, <1>5, <2>1
  <2>5. \A b \in Attacks \ {a} :
           highest'[b] = highest[b] /\ known'[b] = known[b] /\ pc'[b] = pc[b]
    BY <1>2, <1>5, <2>1
  <2>6. ReadBounds'
    BY <1>1, <1>4, <2>2, <2>4, <2>5 DEF ReadBounds, Found
  <2>7. a \notin policies
    BY <1>1, <1>3 DEF PutBefore
  <2>8. PutBefore'
    <3> SUFFICES ASSUME NEW b \in Attacks, pc'[b] \in {"prepared", "listed"}
                 PROVE  b \notin policies /\ \A c \in Attacks : b \notin known'[c]
      BY <1>3 DEF PutBefore
    <3>1. pc[b] \in {"prepared", "listed"}
      BY <1>3, <2>5
    <3> QED
      BY <1>1, <2>4, <2>5, <3>1 DEF PutBefore
  <2>9. Outranks'
    BY <1>1, <1>3, <1>4, <2>5, <2>7 DEF Outranks, Found
  <2> QED
    BY <2>3, <2>6, <2>8, <2>9 DEF Inv
<1>6. CASE Fail(a) /\ UNCHANGED <<highest, known>>
  <2>1. TypeOK'
    BY <1>1, <1>2, <1>3, <1>6 DEF Fail, TypeOK
  <2>2. \A b \in Attacks : pc'[b] \in {"prepared", "listed"} => pc'[b] = pc[b]
    BY <1>2, <1>6 DEF Fail
  <2>3. ReadBounds' /\ PutBefore' /\ Outranks'
    BY <1>1, <1>3, <1>4, <1>6, <2>2 DEF ReadBounds, PutBefore, Outranks, Found
  <2> QED
    BY <2>1, <2>3 DEF Inv
<1> QED
  BY <1>5, <1>6 DEF StartList

\* Putting the policy: it outranks what the list contained.
LEMMA PutStep ==
    ASSUME Inv, NEW a \in Attacks, StartPut(a)
    PROVE  Inv'
<1>1. TypeOK /\ ReadBounds /\ PutBefore /\ Outranks
  BY DEF Inv
<1>2. /\ pc \in [Attacks -> {"prepared", "listed", "running", "failed", "stopped"}]
      /\ highest \in [Attacks -> Nat]
      /\ own \in [Attacks -> Nat]
      /\ policies \subseteq Attacks \cup Foreign
      /\ named \subseteq Attacks
      /\ known \in [Attacks -> SUBSET (Attacks \cup Foreign)]
  BY <1>1 DEF TypeOK
<1>3. /\ pc[a] = "listed"
      /\ own' = [own EXCEPT ![a] = highest[a] + 1]
      /\ policies' = policies \/ policies' = policies \cup {a}
      /\ named' = named \/ named' = named \cup {a}
      /\ pc' = [pc EXCEPT ![a] = "running"] \/ pc' = [pc EXCEPT ![a] = "failed"]
      /\ UNCHANGED <<highest, known>>
  BY DEF StartPut, Fail
<1>4. own'[a] = highest[a] + 1 /\ highest[a] \in Nat
  BY <1>2, <1>3
<1>5. \A c \in Attacks : a \notin known[c]
  BY <1>1, <1>3 DEF PutBefore
<1>6. \A p : p # a => PriorityOf(p)' = PriorityOf(p)
  BY <1>2, <1>3 DEF PriorityOf
<1>7. TypeOK'
  <2>1. own' \in [Attacks -> Nat]
    BY <1>2, <1>3, <1>4
  <2>2. pc' \in [Attacks -> {"prepared", "listed", "running", "failed", "stopped"}]
    BY <1>2, <1>3
  <2>3. policies' \subseteq Attacks \cup Foreign /\ named' \subseteq Attacks
    BY <1>2, <1>3
  <2> QED
    BY <1>1, <1>3, <2>1, <2>2, <2>3 DEF TypeOK
<1>8. \A b \in Attacks : pc'[b] \in {"prepared", "listed"} => b # a /\ pc'[b] = pc[b]
  BY <1>2, <1>3
<1>9. \A c \in Attacks : \A p \in Found(c) : PriorityOf(p)' = PriorityOf(p)
  BY <1>5, <1>6 DEF Found
<1>10. ReadBounds'
  BY <1>1, <1>3, <1>8, <1>9 DEF ReadBounds, Found
<1>11. PutBefore'
  BY <1>1, <1>3, <1>8 DEF PutBefore
<1>12. Outranks'
  <2> SUFFICES ASSUME NEW c \in policies' \cap Attacks, NEW p \in Found(c)
               PROVE  own'[c] > PriorityOf(p)'
    BY <1>3 DEF Outranks, Found
  <2>1. PriorityOf(p)' = PriorityOf(p) /\ PriorityOf(p) \in Int
    BY <1>1, <1>9, PriorityType DEF Found
  <2>2. CASE c = a
    <3>1. PriorityOf(p) <= highest[a]
      BY <1>1, <1>3, <2>2 DEF ReadBounds
    <3> QED
      BY <1>4, <2>1, <2>2, <3>1
  <2>3. CASE c # a
    <3>1. c \in policies \cap Attacks /\ own'[c] = own[c]
      BY <1>2, <1>3, <2>3
    <3> QED
      BY <1>1, <2>1, <3>1 DEF Outranks
  <2> QED
    BY <2>2, <2>3
<1> QED
  BY <1>7, <1>10, <1>11, <1>12 DEF Inv

\* Stop only takes away the policy of its execution.
LEMMA StopStep ==
    ASSUME Inv, NEW a \in Attacks, StopUnnamed(a) \/ StopDelete(a)
    PROVE  Inv'
<1>1. TypeOK /\ ReadBounds /\ PutBefore /\ Outranks
  BY DEF Inv
<1>2. pc \in [Attacks -> {"prepared", "listed", "running", "failed", "stopped"}]
  BY <1>1 DEF TypeOK
<1>3. /\ policies' \subseteq policies
      /\ UNCHANGED <<highest, own, named, known>>
      /\ pc' = pc \/ pc' = [pc EXCEPT ![a] = "stopped"]
  BY DEF StopUnnamed, StopDelete
<1>4. \A b \in Attacks : pc'[b] \in {"prepared", "listed"} => pc'[b] = pc[b]
  BY <1>2, <1>3
<1>5. \A p : PriorityOf(p)' = PriorityOf(p)
  BY <1>3 DEF PriorityOf
<1>6. TypeOK'
  BY <1>1, <1>3 DEF TypeOK
<1>7. ReadBounds' /\ PutBefore' /\ Outranks'
  BY <1>1, <1>3, <1>4, <1>5 DEF ReadBounds, PutBefore, Outranks, Found
<1> QED
  BY <1>6, <1>7 DEF Inv

\* A foreign policy comes or goes, whatever the attacks are doing.
LEMMA EditStep ==
    ASSUME Inv, NEW p \in Foreign, Edit(p)
    PROVE  Inv'
<1>1. TypeOK /\ ReadBounds /\ PutBefore /\ Outranks
  BY DEF Inv
<1>2. /\ policies' \subseteq policies \cup {p}
      /\ UNCHANGED <<pc, highest, own, named, known>>
  BY DEF Edit
<1>3. policies' \cap Attacks \subseteq policies
  BY <1>2, NamesAssumption
<1>4. \A q : PriorityOf(q)' = PriorityOf(q)
  BY <1>2 DEF PriorityOf
<1>5. TypeOK'
  BY <1>1, <1>2 DEF TypeOK
<1>6. ReadBounds' /\ PutBefore' /\ Outranks'
  BY <1>1, <1>2, <1>3, <1>4 DEF ReadBounds, PutBefore, Outranks, Found
<1> QED
  BY <1>5, <1>6 DEF Inv

LEMMA NextStep ==
    ASSUME Inv, [Next]_vars
    PROVE  Inv'
<1>1. ASSUME NEW a \in Attacks, Attack(a) PROVE Inv'
  BY <1>1, ListStep, PutStep, StopStep DEF Attack
<1>2. CASE UNCHANGED vars
  BY <1>2 DEF vars, Inv, TypeOK, ReadBounds, PutBefore, Outranks, Found, PriorityOf
<1> QED
  BY <1>1, <1>2, EditStep DEF Next

\* While the policy of an attack exists, the broker applies nothing else that the attack
\* has found in its list, and no tie with it: for any number of attacks and foreign
\* policies, however Starts, Stops and edits interleave, whatever patterns Go can read, and
\* whatever calls fail or lose their reply.
THEOREM LimitCorrect == Spec => []LimitInForce
<1>1. Inv /\ [Next]_vars => Inv'
  BY NextStep
<1>2. Inv => LimitInForce
  <2> SUFFICES ASSUME Inv, NEW a \in policies \cap Attacks, NEW p \in InForce \ {a},
                      p \in known[a] \cap (Readable \cup Attacks)
               PROVE  FALSE
    BY DEF LimitInForce
  <2>1. own[a] > PriorityOf(p)
    BY DEF Inv, Outranks, Found
  <2>2. PriorityOf(p) >= own[a]
    BY DEF InForce, PriorityOf
  <2>3. PriorityOf(p) \in Int /\ own[a] \in Int
    BY PriorityType DEF Inv, TypeOK
  <2> QED
    BY <2>1, <2>2, <2>3
<1> QED
  BY <1>1, <1>2, InitInv, PTL DEF Spec

-----------------------------------------------------------------------------
(* What a successful Stop leaves; this needs no condition at all.          *)

\* Only an execution whose Start has succeeded has a policy name.
NamedStarted == \A a \in named : pc[a] \in {"running", "stopped"}

PlacesOK == pc \in [Attacks -> {"prepared", "listed", "running", "failed", "stopped"}]

NamedTyped == named \subseteq Attacks

RemovalInv == PlacesOK /\ NamedTyped /\ NamedStarted /\ StopOfStartedRemovesPolicy

LEMMA RemovalStep == RemovalInv /\ [Next]_vars => RemovalInv'
<1> SUFFICES ASSUME PlacesOK, NamedTyped, NamedStarted, StopOfStartedRemovesPolicy, [Next]_vars
             PROVE  PlacesOK' /\ NamedTyped' /\ NamedStarted' /\ StopOfStartedRemovesPolicy'
  BY DEF RemovalInv
<1>1. ASSUME NEW a \in Attacks, StartList(a) \/ StartPut(a)
      PROVE  PlacesOK' /\ NamedTyped' /\ NamedStarted' /\ StopOfStartedRemovesPolicy'
  <2>1. /\ pc[a] \in {"prepared", "listed"} /\ a \notin named
        /\ policies' = policies \/ policies' = policies \cup {a}
        /\ \/ /\ named' = named
              /\ pc' = [pc EXCEPT ![a] = "listed"] \/ pc' = [pc EXCEPT ![a] = "failed"]
           \/ named' = named \cup {a} /\ pc' = [pc EXCEPT ![a] = "running"]
    BY <1>1 DEF StartList, StartPut, Fail, NamedStarted
  <2>2. pc'[a] # "stopped" /\ \A b \in Attacks : b # a => pc'[b] = pc[b]
    BY <2>1 DEF PlacesOK
  <2>3. PlacesOK'
    BY <2>1 DEF PlacesOK
  <2>4. NamedStarted'
    <3>1. \A b \in named : b # a /\ b \in Attacks /\ pc'[b] = pc[b]
      BY <2>1, <2>2 DEF NamedStarted, NamedTyped
    <3>2. named' = named \/ (named' = named \cup {a} /\ pc'[a] = "running")
      BY <2>1 DEF PlacesOK
    <3> QED
      BY <3>1, <3>2 DEF NamedStarted
  <2>5. StopOfStartedRemovesPolicy'
    BY <2>1, <2>2 DEF StopOfStartedRemovesPolicy
  <2> QED
    BY <2>1, <2>3, <2>4, <2>5 DEF NamedTyped
<1>2. ASSUME NEW a \in Attacks, StopUnnamed(a)
      PROVE  PlacesOK' /\ NamedTyped' /\ NamedStarted' /\ StopOfStartedRemovesPolicy'
  BY <1>2 DEF StopUnnamed, PlacesOK, NamedTyped, NamedStarted, StopOfStartedRemovesPolicy
<1>3. ASSUME NEW a \in Attacks, StopDelete(a)
      PROVE  PlacesOK' /\ NamedTyped' /\ NamedStarted' /\ StopOfStartedRemovesPolicy'
  <2>1. /\ a \in named /\ UNCHANGED named
        /\ policies' \subseteq policies
        /\ pc' = pc \/ (pc' = [pc EXCEPT ![a] = "stopped"] /\ a \notin policies')
    BY <1>3 DEF StopDelete
  <2>2. \A b \in Attacks : pc'[b] = pc[b]
                           \/ (b = a /\ pc'[b] = "stopped" /\ b \notin policies')
    BY <2>1 DEF PlacesOK
  <2>3. PlacesOK'
    BY <2>1 DEF PlacesOK
  <2>4. NamedStarted' /\ NamedTyped'
    BY <2>1, <2>2 DEF NamedStarted, NamedTyped
  <2>5. StopOfStartedRemovesPolicy'
    BY <2>1, <2>2 DEF StopOfStartedRemovesPolicy
  <2> QED
    BY <2>3, <2>4, <2>5
<1>4. ASSUME NEW p \in Foreign, Edit(p)
      PROVE  PlacesOK' /\ NamedTyped' /\ NamedStarted' /\ StopOfStartedRemovesPolicy'
  BY <1>4, NamesAssumption DEF Edit, PlacesOK, NamedTyped, NamedStarted, StopOfStartedRemovesPolicy
<1>5. CASE UNCHANGED vars
  BY <1>5 DEF vars, PlacesOK, NamedTyped, NamedStarted, StopOfStartedRemovesPolicy
<1> QED
  BY <1>1, <1>2, <1>3, <1>4, <1>5 DEF Next, Attack

\* A Stop that succeeds for an execution whose Start has succeeded leaves no policy of
\* it behind: for any number of attacks, also when Starts overlap, whatever calls fail
\* or lose their reply.
THEOREM RemovalCorrect == Spec => []StopOfStartedRemovesPolicy
<1>1. Init => RemovalInv
  BY DEF Init, RemovalInv, PlacesOK, NamedTyped, NamedStarted, StopOfStartedRemovesPolicy
<1>2. RemovalInv => StopOfStartedRemovesPolicy
  BY DEF RemovalInv
<1> QED
  BY <1>1, <1>2, RemovalStep, PTL DEF Spec
=============================================================================
