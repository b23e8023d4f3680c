----------------------------- MODULE RigProofs ------------------------------
(***************************************************************************)
(* Proofs about RigInstances, for every set of instances, every budget and *)
(* any number of faults: what the control locks protect, that no second    *)
(* supervisor is launched, that a stopped instance is dead, that a stop by *)
(* hand nobody had decided against stands, and that without a fault no     *)
(* instance is abandoned.                                                  *)
(***************************************************************************)
EXTENDS RigInstances, FiniteSetTheorems, SequenceTheorems, TLAPS

(***************************************************************************)
(* The shape of a plan: calls that start or stop something stand before    *)
(* all others, as one call or as (the rest of) one restart, and a stop by  *)
(* hand stands alone.                                                      *)
(***************************************************************************)
Acting == {"hold", "start", "revive", "missing"}
Moving == Acting \cup {"check", "stop"}
Passive(s) == \A n \in 1..Len(s) : s[n].do \notin Moving

Shape(s) ==
  /\ \A n \in 1..Len(s) :
       /\ s[n].do \in {"check", "missing", "stop"} => n = 1
       /\ s[n].do = "hold" => n = 1 \/ (n = 2 /\ s[1].do = "check")
       /\ s[n].do \in {"start", "revive"} =>
            n = 1 \/ (n = 2 /\ s[1].do = "hold") \/ (n = 3 /\ s[1].do = "check")
  /\ s # <<>> =>
       /\ s[1].do = "stop" => Len(s) = 1
       /\ s[1].do = "check" => Len(s) >= 3 /\ s[2].do = "hold"

Plan(s) == s \in Seq(Calls) /\ Shape(s)

\* Acts(c, i) of a sequence of calls.
ActsIn(s, i) ==
  /\ On("check", i) \notin Range(s)
  /\ {On("hold", i), On("start", i), On("revive", i), On("missing", i)} \cap Range(s) # {}

(***************************************************************************)
(* The inductive invariant.                                                *)
(***************************************************************************)
PlansHaveShape == plan \in [Programs -> Seq(Calls)] /\ \A c \in Programs : Shape(plan[c])

\* A program has a lock exactly while it is within a call, and then one lock only.
LocksAreHeld ==
  \A c \in Programs, i \in Instances : control[i] = c =>
    /\ stage[c] # "ready"
    /\ \A j \in Instances : control[j] = c => j = i

\* While it is within a call, that call is the head of its plan, and is about the instance
\* whose lock it has.
CallsUnderWay ==
  \A c \in Programs :
    /\ \A i \in Instances : control[i] = c => Head(plan[c]).i = i
    /\ stage[c] \in {"killing", "ending"} => plan[c] # <<>> /\ Head(plan[c]).do \in {"stop", "hold"}
    /\ stage[c] = "spawning" => plan[c] # <<>> /\ Head(plan[c]).do \in {"start", "revive"}

\* A supervisor that runs a miner is known to the record; one that is not known has
\* just been launched, or finds a STOP file.
MinersAreKnown ==
  \A i \in Instances :
    /\ sup[i] \in {"mining", "exited", "cooldown"} => i \in registered
    /\ sup[i] = "loop" /\ i \notin registered => i \in stopFile

StopsAreWritten ==
  \A c \in Programs, i \in Instances :
    /\ Holds(c, "killing", i) => i \in stopFile
    /\ Holds(c, "ending", i) => i \in stopFile /\ sup[i] \in {"none", "launched", "loop"}

QuietIsLeftAlone ==
  \A i \in Instances : byHand[i] = "quiet" =>
    rec[i].desired = "stopped" /\ \A c \in Programs : ~ ActsIn(plan[c], i)

RInv ==
  /\ RigTypeOK
  /\ PlansHaveShape
  /\ LocksAreHeld
  /\ CallsUnderWay
  /\ NeverTwoSupervisors
  /\ MinersAreKnown
  /\ StopsAreWritten
  /\ StoppedIsDead
  /\ QuietIsLeftAlone
-----------------------------------------------------------------------------
(***************************************************************************)
(* Sequences of calls.                                                     *)
(***************************************************************************)
LEMMA CallIsTyped ==
  ASSUME NEW d \in {"stop", "hold", "start", "revive", "check", "look", "missing", "bad",
                    "hotCheck", "coolCheck", "bootCheck"},
         NEW i \in Instances
  PROVE  On(d, i) \in Calls /\ On(d, i).do = d /\ On(d, i).i = i
BY DEF On, Calls

LEMMA JustIsTyped ==
  ASSUME NEW d \in {"guard", "save", "clear", "scan"}
  PROVE  Just(d) \in Calls /\ Just(d).do = d
BY DEF Just, Calls

LEMMA ActsAt ==
  ASSUME NEW s \in Seq(Calls), NEW i, ActsIn(s, i)
  PROVE  \E n \in 1..Len(s) : s[n].do \in Acting /\ s[n].i = i
<1>1. PICK d \in Acting : On(d, i) \in Range(s)
  BY DEF ActsIn, Acting
<1>2. PICK n \in 1..Len(s) : s[n] = On(d, i)
  BY <1>1 DEF Range
<1>3. QED
  BY <1>1, <1>2 DEF On

LEMMA PassivePlan ==
  ASSUME NEW s \in Seq(Calls), Passive(s)
  PROVE  Plan(s) /\ \A i : ~ ActsIn(s, i)
<1>1. Shape(s)
  BY DEF Passive, Shape, Moving, Acting
<1>2. ASSUME NEW i PROVE ~ ActsIn(s, i)
  BY ActsAt DEF Passive, Moving
<1>3. QED
  BY <1>1, <1>2 DEF Plan

LEMMA NoPlan == Plan(<<>>) /\ Passive(<<>>) /\ \A i : ~ ActsIn(<<>>, i)
<1>1. <<>> \in Seq(Calls) /\ Passive(<<>>)
  BY DEF Passive
<1>2. QED
  BY <1>1, PassivePlan

\* Behind a call that is not part of a restart, nothing acts.
LEMMA RestIsPassive ==
  ASSUME NEW s, Plan(s), s # <<>>, Head(s).do \notin {"check", "hold"}
  PROVE  Tail(s) \in Seq(Calls) /\ Passive(Tail(s))
BY DEF Plan, Passive, Shape, Moving, Acting

LEMMA TailIsPlan ==
  ASSUME NEW s, Plan(s), s # <<>>
  PROVE  Plan(Tail(s))
BY DEF Plan, Shape

LEMMA TailActsLess ==
  ASSUME NEW s \in Seq(Calls), s # <<>>, NEW i, Head(s) # On("check", i), ActsIn(Tail(s), i)
  PROVE  ActsIn(s, i)
<1>1. ASSUME NEW x \in Range(Tail(s)) PROVE x \in Range(s)
  <2>1. PICK n \in 1..Len(Tail(s)) : x = Tail(s)[n]
    BY <1>1 DEF Range
  <2>2. QED
    BY <2>1 DEF Range
<1>2. ASSUME On("check", i) \in Range(s) PROVE On("check", i) \in Range(Tail(s))
  <2>1. PICK n \in 1..Len(s) : s[n] = On("check", i)
    BY <1>2 DEF Range
  <2>2. n # 1
    BY <2>1
  <2>3. n - 1 \in 1..Len(Tail(s)) /\ Tail(s)[n - 1] = On("check", i)
    BY <2>1, <2>2
  <2>4. Tail(s) \in Seq(Calls) /\ DOMAIN Tail(s) = 1..Len(Tail(s))
    OBVIOUS
  <2>5. QED
    BY <2>3, <2>4, Zenon DEF Range
<1>3. QED
  BY <1>1, <1>2 DEF ActsIn

\* One call before a passive rest.
LEMMA OneFirst ==
  ASSUME NEW r \in Seq(Calls), Passive(r),
         NEW d \in {"hold", "start", "revive", "missing", "bad", "look"}, NEW j \in Instances
  PROVE  /\ Plan(<<On(d, j)>> \o r)
         /\ \A i : ActsIn(<<On(d, j)>> \o r, i) => i = j
         /\ d = "bad" => \A i : ~ ActsIn(<<On(d, j)>> \o r, i)
<1> DEFINE s == <<On(d, j)>> \o r
<1>1. /\ s \in Seq(Calls)
      /\ Len(s) = Len(r) + 1
      /\ s[1].do = d /\ s[1] = On(d, j)
      /\ \A n \in 2..Len(s) : s[n] = r[n - 1]
  BY CallIsTyped
<1>2. Shape(s)
  BY <1>1 DEF Shape, Passive, Moving, Acting
<1>3. ASSUME NEW i, NEW e \in Acting, On(e, i) \in Range(s) PROVE i = j /\ e = d
  <2>1. PICK n \in 1..Len(s) : s[n] = On(e, i)
    BY <1>1, <1>3 DEF Range
  <2>2. CASE n = 1
    BY <1>1, <2>1, <2>2 DEF On
  <2>3. CASE n # 1
    BY <1>1, <2>1, <2>3 DEF On, Passive, Moving
  <2>4. QED
    BY <2>2, <2>3
<1> HIDE DEF s
<1>4. QED
  BY <1>1, <1>2, <1>3 DEF ActsIn, Acting, Plan, s

LEMMA RestartFirst ==
  ASSUME NEW r \in Seq(Calls), Passive(r), NEW j \in Instances
  PROVE  Plan(WatchdogRestart(j) \o r) /\ \A i : ~ ActsIn(WatchdogRestart(j) \o r, i)
<1> DEFINE s == WatchdogRestart(j) \o r
<1>1. /\ s \in Seq(Calls)
      /\ Len(s) = Len(r) + 3
      /\ s[1] = On("check", j) /\ s[2] = On("hold", j) /\ s[3] = On("revive", j)
      /\ \A n \in 4..Len(s) : s[n] = r[n - 3]
  BY CallIsTyped DEF WatchdogRestart
<1>2. s[1].do = "check" /\ s[2].do = "hold" /\ s[3].do = "revive"
  BY <1>1 DEF On
<1>3. Shape(s)
  BY <1>1, <1>2 DEF Shape, Passive, Moving, Acting
<1>4. On("check", j) \in Range(s)
  BY <1>1, 1 \in DOMAIN s DEF Range
<1>5. ASSUME NEW i, NEW e \in Acting, On(e, i) \in Range(s) PROVE i = j
  <2>1. PICK n \in 1..Len(s) : s[n] = On(e, i)
    BY <1>1, <1>5 DEF Range
  <2>2. n \in {1, 2, 3} \/ n \in 4..Len(s)
    BY <1>1
  <2>3. CASE n \in {1, 2, 3}
    BY <1>1, <2>1, <2>3 DEF On
  <2>4. CASE n \in 4..Len(s)
    BY <1>1, <2>1, <2>4 DEF On, Passive, Moving
  <2>5. QED
    BY <2>2, <2>3, <2>4
<1> HIDE DEF s
<1>6. QED
  BY <1>1, <1>3, <1>4, <1>5 DEF ActsIn, Acting, Plan, s

\* What stands behind the three calls of a restart.
LEMMA CutIs ==
  ASSUME NEW s \in Seq(Calls), Len(s) >= 3
  PROVE  LET r == SubSeq(s, 4, Len(s)) IN
         r \in Seq(Calls) /\ Len(r) = Len(s) - 3 /\ \A n \in 1..Len(r) : r[n] = s[n + 3]
<1> DEFINE r == SubSeq(s, 4, Len(s))
<1>1. Len(s) \in Nat /\ Len(s) >= 3 /\ \A n \in 4..Len(s) : s[n] \in Calls
  OBVIOUS
<1>2. /\ r \in Seq(Calls)
      /\ 4 <= Len(s) => Len(r) = Len(s) - 4 + 1
      /\ ~ (4 <= Len(s)) => Len(r) = 0
      /\ \A n \in 1..Len(s) - 4 + 1 : r[n] = s[4 + n - 1]
  BY <1>1, SubSeqProperties
<1> HIDE DEF r
<1>3. Len(r) = Len(s) - 3
  <2>1. CASE Len(s) = 3
    <3>1. ~ (4 <= Len(s)) /\ Len(s) - 3 = 0
      BY <2>1
    <3>2. Len(r) = 0
      BY <1>2, <3>1, Zenon
    <3>3. QED
      BY <3>1, <3>2, Zenon
  <2>2. CASE Len(s) # 3
    <3>1. 4 <= Len(s)
      <4>1. \A k \in Nat : k >= 3 /\ k # 3 => 4 <= k
        OBVIOUS
      <4>2. QED
        BY <1>1, <2>2, <4>1, Zenon
    <3>2. Len(r) = Len(s) - 4 + 1
      BY <1>2, <3>1
    <3>3. QED
      BY <1>1, <3>2
  <2>3. QED
    BY <2>1, <2>2
<1>4. ASSUME NEW n \in 1..Len(r) PROVE r[n] = s[n + 3]
  <2>1. n \in 1..Len(s) - 4 + 1 /\ 4 + n - 1 = n + 3
    BY <1>1, <1>3
  <2>2. r[n] = s[4 + n - 1]
    BY <1>2, <2>1
  <2>3. QED
    BY <2>1, <2>2
<1>5. QED
  BY <1>2, <1>3, <1>4 DEF r

\* A restart given up: what stands behind it is passive.
LEMMA RestartCut ==
  ASSUME NEW s, Plan(s), s # <<>>, Head(s).do = "check"
  PROVE  LET r == SubSeq(s, 4, Len(s)) IN Plan(r) /\ \A i : ~ ActsIn(r, i)
<1> DEFINE r == SubSeq(s, 4, Len(s))
<1>1. s \in Seq(Calls) /\ Len(s) \in Nat /\ Len(s) >= 3
  BY DEF Plan, Shape
<1>2. r \in Seq(Calls) /\ Len(r) = Len(s) - 3 /\ \A n \in 1..Len(r) : r[n] = s[n + 3]
  BY <1>1, CutIs
<1>3. \A n \in 4..Len(s) : s[n].do \notin Moving
  BY <1>1 DEF Plan, Shape, Moving, Acting
<1>4. Passive(r)
  BY <1>1, <1>2, <1>3 DEF Passive
<1>5. QED
  BY <1>2, <1>4, PassivePlan

LEMMA ForEachIsPassive ==
  ASSUME NEW is \in SUBSET Instances, NEW d \in {"look", "hotCheck", "coolCheck", "bootCheck"}
  PROVE  ForEach(d, is) \in Seq(Calls) /\ Passive(ForEach(d, is))
<1> DEFINE l == SetToSeq(is)
<1>1. IsFiniteSet(is)
  BY RigAssumption, FS_Subset
<1>2. Cardinality(is) \in Nat /\ ExistsBijection(1..Cardinality(is), is)
  BY <1>1, FS_CardinalityType
<1>3. \E f \in [1..Cardinality(is) -> is] : IsInjective(f)
  BY <1>2 DEF ExistsBijection, Bijection, Injection, IsInjective
<1>4. l \in [1..Cardinality(is) -> is]
  BY <1>3 DEF SetToSeq
<1>5. l \in Seq(is) /\ Len(l) = Cardinality(is)
  BY <1>2, <1>4
<1>6. ForEach(d, is) = [n \in 1..Len(l) |-> On(d, l[n])]
  BY DEF ForEach
<1>7. \A n \in 1..Len(l) : l[n] \in Instances
  BY <1>4, <1>5
<1> HIDE DEF l
<1>8. \A n \in 1..Len(l) : On(d, l[n]) \in Calls /\ On(d, l[n]).do = d
  BY <1>7, CallIsTyped
<1>9. ForEach(d, is) \in Seq(Calls) /\ Len(ForEach(d, is)) = Len(l)
  BY <1>2, <1>5, <1>6, <1>8
<1>10. QED
  BY <1>6, <1>8, <1>9 DEF Passive, Moving, Acting

\* A passive list, and one more passive call, before a passive rest.
LEMMA ListFirst ==
  ASSUME NEW q \in Seq(Calls), Passive(q), NEW r \in Seq(Calls), Passive(r)
  PROVE  q \o r \in Seq(Calls) /\ Passive(q \o r)
BY DEF Passive

LEMMA JustFirst ==
  ASSUME NEW d \in {"guard", "save", "clear", "scan"}
  PROVE  <<Just(d)>> \in Seq(Calls) /\ Passive(<<Just(d)>>)
BY JustIsTyped DEF Passive, Moving, Acting

\* A call that acts stands at the head: the plan acts.
LEMMA HeadActs ==
  ASSUME NEW s, Plan(s), s # <<>>, NEW i, Head(s).do \in Acting, Head(s).i = i
  PROVE  ActsIn(s, i)
<1>1. s \in Seq(Calls) /\ s[1] \in Calls /\ s[1] = Head(s) /\ 1 \in DOMAIN s
  BY DEF Plan
<1>2. s[1] = On(s[1].do, i)
  BY <1>1 DEF Calls, On, Acting
<1>3. On(s[1].do, i) \in Range(s)
  BY <1>1, <1>2 DEF Range
<1>4. ASSUME On("check", i) \in Range(s) PROVE FALSE
  <2>1. PICK n \in 1..Len(s) : s[n] = On("check", i)
    BY <1>1, <1>4 DEF Range
  <2>2. n = 1
    BY <2>1 DEF On, Plan, Shape
  <2>3. QED
    BY <1>1, <2>1, <2>2 DEF On, Acting
<1>5. QED
  BY <1>1, <1>3, <1>4 DEF ActsIn, Acting
-----------------------------------------------------------------------------
(***************************************************************************)
(* How a step changes the plans: they keep their shape, and none becomes   *)
(* one that acts on an instance unless the record says to run it, or it    *)
(* was started by hand.                                                    *)
(***************************************************************************)
PlansGrow ==
  \A c \in Programs, i \in Instances :
    ActsIn(plan'[c], i) =>
      ActsIn(plan[c], i) \/ rec[i].desired = "running" \/ byHand'[i] = "none"

LEMMA OnePlan ==
  ASSUME PlansHaveShape, NEW c \in Programs, NEW s, Plan(s),
         plan' = [plan EXCEPT ![c] = s],
         \A i \in Instances : ActsIn(s, i) =>
           ActsIn(plan[c], i) \/ rec[i].desired = "running" \/ byHand'[i] = "none"
  PROVE  PlansHaveShape' /\ PlansGrow
<1>1. plan' \in [Programs -> Seq(Calls)] /\ plan'[c] = s
      /\ \A d \in Programs \ {c} : plan'[d] = plan[d]
  BY DEF PlansHaveShape, Plan
<1>2. PlansHaveShape'
  BY <1>1 DEF PlansHaveShape, Plan
<1>3. PlansGrow
  BY <1>1 DEF PlansGrow
<1>4. QED
  BY <1>2, <1>3

LEMMA SamePlans ==
  ASSUME PlansHaveShape, plan' = plan
  PROVE  PlansHaveShape' /\ PlansGrow
BY DEF PlansHaveShape, PlansGrow

LEMMA DoneCall ==
  ASSUME PlansHaveShape, NEW c \in Programs, plan[c] # <<>>, Head(plan[c]).do # "check",
         Done(c)
  PROVE  PlansHaveShape' /\ PlansGrow
<1>1. Plan(plan[c]) /\ plan[c] \in Seq(Calls)
  BY DEF PlansHaveShape, Plan
<1>2. Plan(Tail(plan[c]))
  BY <1>1, TailIsPlan
<1>3. \A i \in Instances : ActsIn(Tail(plan[c]), i) => ActsIn(plan[c], i)
  <2>1. \A i \in Instances : Head(plan[c]) # On("check", i)
    BY DEF On
  <2>2. QED
    BY <1>1, <2>1, TailActsLess
<1>4. QED
  BY <1>2, <1>3, OnePlan DEF Done

LEMMA PlanDropped ==
  ASSUME PlansHaveShape, NEW c \in Programs, plan' = [plan EXCEPT ![c] = <<>>]
  PROVE  PlansHaveShape' /\ PlansGrow
BY NoPlan, OnePlan

LEMMA RaisedCall ==
  ASSUME PlansHaveShape, NEW c \in Programs, plan[c] # <<>>, Head(plan[c]).do # "check",
         Raises(c)
  PROVE  PlansHaveShape' /\ PlansGrow
<1>1. CASE c = "watchdog"
  BY <1>1, DoneCall DEF Raises, Done
<1>2. CASE c # "watchdog"
  BY <1>2, PlanDropped DEF Raises
<1>3. QED
  BY <1>1, <1>2

\* One call is put before the rest of a plan whose head was passive, or "missing".
LEMMA OneCallFirst ==
  ASSUME PlansHaveShape, NEW c \in Programs, plan[c] # <<>>,
         Head(plan[c]).do \notin {"check", "hold"},
         NEW d \in {"hold", "start", "revive", "missing", "bad", "look"}, NEW j \in Instances,
         d = "bad" \/ rec[j].desired = "running" \/ ActsIn(plan[c], j),
         DoFirst(c, <<On(d, j)>>)
  PROVE  PlansHaveShape' /\ PlansGrow
<1> DEFINE r == Tail(plan[c])
<1>1. Plan(plan[c])
  BY DEF PlansHaveShape, Plan
<1>2. r \in Seq(Calls) /\ Passive(r)
  BY <1>1, RestIsPassive
<1>3. plan' = [plan EXCEPT ![c] = <<On(d, j)>> \o r]
  BY DEF DoFirst
<1> HIDE DEF r
<1>4. /\ Plan(<<On(d, j)>> \o r)
      /\ \A i : ActsIn(<<On(d, j)>> \o r, i) => i = j
      /\ d = "bad" => \A i : ~ ActsIn(<<On(d, j)>> \o r, i)
  BY <1>2, OneFirst
<1>5. QED
  BY <1>3, <1>4, OnePlan

LEMMA RestartIsFirst ==
  ASSUME PlansHaveShape, NEW c \in Programs, plan[c] # <<>>,
         Head(plan[c]).do \notin {"check", "hold"},
         NEW j \in Instances, DoFirst(c, WatchdogRestart(j))
  PROVE  PlansHaveShape' /\ PlansGrow
<1> DEFINE r == Tail(plan[c])
<1>1. Plan(plan[c])
  BY DEF PlansHaveShape, Plan
<1>2. r \in Seq(Calls) /\ Passive(r)
  BY <1>1, RestIsPassive
<1>3. plan' = [plan EXCEPT ![c] = WatchdogRestart(j) \o r]
  BY DEF DoFirst
<1> HIDE DEF r
<1>4. QED
  BY <1>2, <1>3, RestartFirst, OnePlan

LEMMA ListIsFirst ==
  ASSUME PlansHaveShape, NEW c \in Programs, plan[c] # <<>>,
         Head(plan[c]).do \notin {"check", "hold"},
         NEW q \in Seq(Calls), Passive(q), DoFirst(c, q)
  PROVE  PlansHaveShape' /\ PlansGrow
<1> DEFINE r == Tail(plan[c])
<1>1. Plan(plan[c])
  BY DEF PlansHaveShape, Plan
<1>2. r \in Seq(Calls) /\ Passive(r)
  BY <1>1, RestIsPassive
<1>3. plan' = [plan EXCEPT ![c] = q \o r]
  BY DEF DoFirst
<1> HIDE DEF r
<1>4. Plan(q \o r) /\ \A i : ~ ActsIn(q \o r, i)
  BY <1>2, ListFirst, PassivePlan
<1>5. QED
  BY <1>3, <1>4, OnePlan

LEMMA CallsMovePlans ==
  ASSUME PlansHaveShape, CallsUnderWay, NEW c \in Programs, Calling(c)
  PROVE  PlansHaveShape' /\ PlansGrow
<1> PICK i \in Instances :
      \/ StopBegins(c, i) \/ StopKills(c, i) \/ StopEnds(c, i)
      \/ StartFinds(c, i) \/ StartRefuses(c, i) \/ StartPrepares(c, i) \/ StartLaunches(c, i)
      \/ RestartChecks(c, i)
  BY DEF Calling
<1>1. CASE StopBegins(c, i) \/ StopKills(c, i) \/ StartPrepares(c, i)
  BY <1>1, SamePlans DEF StopBegins, StopKills, StartPrepares, programs
<1>2. CASE StopEnds(c, i)
  BY <1>2, DoneCall DEF StopEnds, Holds, CallsUnderWay
<1>3. CASE StartFinds(c, i)
  BY <1>3, DoneCall DEF StartFinds, Takes, AtOn, At
<1>4. CASE StartRefuses(c, i)
  BY <1>4, RaisedCall DEF StartRefuses, Takes, AtOn, At
<1>5. CASE StartLaunches(c, i)
  BY <1>5, DoneCall, RaisedCall DEF StartLaunches, Holds, CallsUnderWay
<1>6. CASE RestartChecks(c, i)
  <2>1. Plan(plan[c]) /\ plan[c] # <<>> /\ Head(plan[c]).do = "check" /\ Head(plan[c]).i = i
    BY <1>6 DEF RestartChecks, AtOn, At, PlansHaveShape, Plan
  <2>2. CASE rec[i].desired = "running"
    <3>1. plan' = [plan EXCEPT ![c] = Tail(plan[c])]
      BY <1>6, <2>2 DEF RestartChecks
    <3>2. Plan(Tail(plan[c]))
      BY <2>1, TailIsPlan
    <3>3. \A j \in Instances : ActsIn(Tail(plan[c]), j) => j = i \/ ActsIn(plan[c], j)
      <4>1. \A j \in Instances \ {i} : Head(plan[c]) # On("check", j)
        BY <2>1 DEF On
      <4>2. QED
        BY <2>1, <4>1, TailActsLess DEF Plan
    <3>4. QED
      BY <2>2, <3>1, <3>2, <3>3, OnePlan
  <2>3. CASE rec[i].desired # "running"
    <3>1. plan' = [plan EXCEPT ![c] = SubSeq(plan[c], 4, Len(plan[c]))]
      BY <1>6, <2>3 DEF RestartChecks
    <3>2. QED
      BY <2>1, <3>1, RestartCut, OnePlan
  <2>4. QED
    BY <2>2, <2>3
<1>7. QED
  BY <1>1, <1>2, <1>3, <1>4, <1>5, <1>6

LEMMA WatchdogMovesPlans ==
  ASSUME RigTypeOK, PlansHaveShape, CallsUnderWay, Watchdog
  PROVE  PlansHaveShape' /\ PlansGrow
<1> DEFINE w == "watchdog"
<1>0. w \in Programs
  BY DEF Programs
<1>1. CASE Calling(w)
  BY <1>0, <1>1, CallsMovePlans
<1>2. CASE WatchdogTicks
  <2> DEFINE q == ForEach("look", Instances) \o <<Just("guard")>>
  <2>1. q \in Seq(Calls) /\ Passive(q)
    BY ForEachIsPassive, JustFirst, ListFirst
  <2>2. plan' = [plan EXCEPT ![w] = q]
    BY <1>2 DEF WatchdogTicks
  <2> HIDE DEF q
  <2>3. QED
    BY <1>0, <2>1, <2>2, PassivePlan, OnePlan
<1>3. ASSUME NEW i \in Instances, WatchdogMisses(i) PROVE PlansHaveShape' /\ PlansGrow
  <2>1. /\ plan[w] # <<>> /\ Head(plan[w]).do = "look" /\ rec[i].desired = "running"
        /\ DoFirst(w, <<On("missing", i)>>)
    BY <1>3 DEF WatchdogMisses, AtOn, At, Watched
  <2>2. QED
    BY <1>0, <2>1, OneCallFirst
<1>4. ASSUME NEW i \in Instances, WatchdogRevives(i) PROVE PlansHaveShape' /\ PlansGrow
  <2>1. /\ plan[w] # <<>> /\ Head(plan[w]).do = "missing" /\ Head(plan[w]).i = i
        /\ Done(w) \/ DoFirst(w, <<On("revive", i)>>)
    BY <1>4 DEF WatchdogRevives, AtOn, At
  <2>2. ActsIn(plan[w], i)
    BY <1>0, <2>1, HeadActs DEF PlansHaveShape, Plan, Acting
  <2>3. QED
    BY <1>0, <2>1, <2>2, DoneCall, OneCallFirst
<1>5. ASSUME NEW i \in Instances, WatchdogDisapproves(i) PROVE PlansHaveShape' /\ PlansGrow
  <2>1. /\ plan[w] # <<>> /\ Head(plan[w]).do = "look"
        /\ DoFirst(w, WatchdogRestart(i)) \/ DoFirst(w, <<On("bad", i)>>)
    BY <1>5 DEF WatchdogDisapproves, AtOn, At
  <2>2. QED
    BY <1>0, <2>1, RestartIsFirst, OneCallFirst
<1>6. ASSUME NEW i \in Instances, WatchdogRestarts(i) PROVE PlansHaveShape' /\ PlansGrow
  <2>1. /\ plan[w] # <<>> /\ Head(plan[w]).do = "bad"
        /\ DoFirst(w, WatchdogRestart(i)) \/ Done(w)
    BY <1>6 DEF WatchdogRestarts, AtOn, At
  <2>2. QED
    BY <1>0, <2>1, RestartIsFirst, DoneCall
<1>7. ASSUME NEW i \in Instances, WatchdogIsContent(i) PROVE PlansHaveShape' /\ PlansGrow
  BY <1>0, <1>7, DoneCall DEF WatchdogIsContent, AtOn, At
<1>8. ASSUME NEW i \in Instances, HotChecks(i) PROVE PlansHaveShape' /\ PlansGrow
  <2>1. /\ plan[w] # <<>> /\ Head(plan[w]).do = "hotCheck"
        /\ (rec[i].desired = "running" /\ DoFirst(w, <<On("hold", i)>>)) \/ Done(w)
    BY <1>8 DEF HotChecks, AtOn, At
  <2>2. QED
    BY <1>0, <2>1, OneCallFirst, DoneCall
<1>9. ASSUME NEW i \in Instances, CoolChecks(i) PROVE PlansHaveShape' /\ PlansGrow
  <2>1. /\ plan[w] # <<>> /\ Head(plan[w]).do = "coolCheck"
        /\ (rec[i].desired = "running" /\ DoFirst(w, <<On("revive", i)>>)) \/ Done(w)
    BY <1>9 DEF CoolChecks, AtOn, At
  <2>2. QED
    BY <1>0, <2>1, OneCallFirst, DoneCall
<1>10. CASE GuardFindsHot
  <2> DEFINE q == ForEach("hotCheck", Instances) \o <<Just("save")>>
  <2>1. q \in Seq(Calls) /\ Passive(q)
    BY ForEachIsPassive, JustFirst, ListFirst
  <2>2. plan[w] # <<>> /\ Head(plan[w]).do = "guard" /\ DoFirst(w, q)
    BY <1>10 DEF GuardFindsHot, At
  <2> HIDE DEF q
  <2>3. QED
    BY <1>0, <2>1, <2>2, ListIsFirst
<1>11. CASE GuardFindsCool
  <2> DEFINE q == ForEach("coolCheck", paused) \o <<Just("clear")>>
  <2>1. q \in Seq(Calls) /\ Passive(q)
    BY ForEachIsPassive, JustFirst, ListFirst DEF RigTypeOK
  <2>2. plan[w] # <<>> /\ Head(plan[w]).do = "guard" /\ (DoFirst(w, q) \/ Done(w))
    BY <1>11 DEF GuardFindsCool, At
  <2> HIDE DEF q
  <2>3. QED
    BY <1>0, <2>1, <2>2, ListIsFirst, DoneCall
<1>12. CASE GuardWaits \/ SavesPaused \/ ClearsPaused
  BY <1>0, <1>12, DoneCall DEF GuardWaits, SavesPaused, ClearsPaused, At
<1>13. QED
  BY <1>1, <1>2, <1>3, <1>4, <1>5, <1>6, <1>7, <1>8, <1>9, <1>10, <1>11, <1>12 DEF Watchdog

LEMMA BootMovesPlans ==
  ASSUME PlansHaveShape, CallsUnderWay, Boot
  PROVE  PlansHaveShape' /\ PlansGrow
<1> DEFINE b == "boot"
<1>0. b \in Programs
  BY DEF Programs
<1>1. CASE Calling(b)
  BY <1>0, <1>1, CallsMovePlans
<1>2. CASE BootScans
  <2> DEFINE q == ForEach("bootCheck", Instances \ paused)
  <2>1. q \in Seq(Calls) /\ Passive(q)
    BY ForEachIsPassive
  <2>2. plan[b] # <<>> /\ Head(plan[b]).do = "scan" /\ (DoFirst(b, q) \/ Done(b))
    BY <1>2 DEF BootScans, At
  <2> HIDE DEF q
  <2>3. QED
    BY <1>0, <2>1, <2>2, ListIsFirst, DoneCall
<1>3. ASSUME NEW i \in Instances, BootChecks(i) PROVE PlansHaveShape' /\ PlansGrow
  <2>1. /\ plan[b] # <<>> /\ Head(plan[b]).do = "bootCheck"
        /\ (rec[i].desired = "running" /\ DoFirst(b, <<On("revive", i)>>)) \/ Done(b)
    BY <1>3 DEF BootChecks, AtOn, At
  <2>2. QED
    BY <1>0, <2>1, OneCallFirst, DoneCall
<1>4. QED
  BY <1>1, <1>2, <1>3 DEF Boot

LEMMA StepsMovePlans ==
  ASSUME RInv, RigNext
  PROVE  PlansHaveShape' /\ PlansGrow
<1> USE DEF RInv
<1>1. CASE Calling("runner")
  BY <1>1, CallsMovePlans DEF Programs
<1>2. CASE Watchdog \/ Boot
  BY <1>2, WatchdogMovesPlans, BootMovesPlans
<1>3. ASSUME NEW op \in Operations, NEW i \in Instances, RunnerBegins(op, i)
      PROVE  PlansHaveShape' /\ PlansGrow
  <2> DEFINE q == CASE op = "start" -> <<On("start", i)>>
                    [] op = "stop" -> <<On("stop", i)>>
                    [] op = "restart" -> <<On("hold", i), On("start", i)>>
  <2>1. plan["runner"] = <<>> /\ plan' = [plan EXCEPT !["runner"] = q] /\ "runner" \in Programs
    BY <1>3 DEF RunnerBegins, Programs
  <2>2. op \in {"start", "stop", "restart"}
    BY RigAssumption
  <2>3. Plan(q)
    BY <2>2, CallIsTyped DEF Plan, Shape
  <2>4. ASSUME NEW j \in Instances, ActsIn(q, j) PROVE byHand'[j] = "none"
    <3>1. \E n \in 1..Len(q) : q[n].do \in Acting /\ q[n].i = j
      BY <2>3, <2>4, ActsAt DEF Plan
    <3>2. op # "stop" /\ i = j
      BY <2>2, <3>1 DEF On, Acting
    <3>3. byHand' = [byHand EXCEPT ![i] = "none"]
      BY <1>3, <3>2 DEF RunnerBegins
    <3>4. QED
      BY <3>2, <3>3 DEF RigTypeOK
  <2> HIDE DEF q
  <2>5. QED
    BY <2>1, <2>3, <2>4, OnePlan
<1>4. ASSUME NEW i \in Instances,
             \/ Supervisor(i) \/ MinerExits(i)
             \/ WarmUpEnds(i) \/ RecoveryAges(i) \/ SupervisorDies(i)
      PROVE  PlansHaveShape' /\ PlansGrow
  <2>1. plan' = plan
    BY <1>4 DEF Supervisor, Registers, LoopChecks, AfterExit, CooldownEnds, MinerExits, WarmUpEnds,
         RecoveryAges, SupervisorDies, programs
  <2>2. QED
    BY <2>1, SamePlans
<1>5. ASSUME NEW c \in Programs, ProgramDies(c) PROVE PlansHaveShape' /\ PlansGrow
  BY <1>5, PlanDropped DEF ProgramDies
<1>6. CASE Reboots
  <2>1. \A c \in Programs : plan'[c] = <<>> \/ plan'[c] = <<Just("scan")>>
    BY <1>6 DEF Reboots
  <2>2. plan' \in [Programs -> Seq(Calls)]
    BY <1>6, JustIsTyped DEF Reboots
  <2>3. Plan(<<>>) /\ \A i : ~ ActsIn(<<>>, i)
    BY NoPlan
  <2>4. Plan(<<Just("scan")>>) /\ \A i : ~ ActsIn(<<Just("scan")>>, i)
    BY JustFirst, PassivePlan
  <2>5. QED
    BY <2>1, <2>2, <2>3, <2>4 DEF PlansHaveShape, PlansGrow, Plan
<1>7. QED
  BY <1>1, <1>2, <1>3, <1>4, <1>5, <1>6 DEF RigNext
-----------------------------------------------------------------------------
(***************************************************************************)
(* Types.                                                                  *)
(***************************************************************************)
LEMMA CallsKeepTypes ==
  ASSUME RigTypeOK, NEW c \in Programs, Calling(c), \A d \in Programs : plan'[d] \in Seq(Calls)
  PROVE  RigTypeOK'
<1> USE DEF RigTypeOK
<1>1. PICK i \in Instances :
      \/ StopBegins(c, i) \/ StopKills(c, i) \/ StopEnds(c, i)
      \/ StartFinds(c, i) \/ StartRefuses(c, i) \/ StartPrepares(c, i) \/ StartLaunches(c, i)
      \/ RestartChecks(c, i)
  BY DEF Calling
<1>2. CASE StopBegins(c, i)
  BY <1>2 DEF StopBegins, Phases, Takes, At, AtOn
<1>3. CASE StopKills(c, i)
  BY <1>3, RigAssumption DEF StopKills, Lost, Fault, records, history, SupStages
<1>4. CASE StopEnds(c, i)
  BY <1>4 DEF StopEnds, Phases
<1>5. CASE StartFinds(c, i)
  BY <1>5 DEF StartFinds
<1>6. CASE StartRefuses(c, i) \/ RestartChecks(c, i)
  BY <1>6 DEF StartRefuses, RestartChecks, records, history
<1>7. CASE StartPrepares(c, i)
  <2>1. restarts' \in [Instances -> 0..MaxRestarts]
    <3>1. restarts' = restarts \/ restarts' = [restarts EXCEPT ![i] = 0]
      BY <1>7 DEF StartPrepares
    <3>2. restarts \in [Instances -> 0..MaxRestarts] /\ 0 \in 0..MaxRestarts
      BY RigAssumption
    <3> HIDE DEF RigTypeOK
    <3>3. QED
      BY <3>1, <3>2
  <2>2. QED
    BY <1>7, <2>1 DEF StartPrepares, Phases
<1>8. CASE StartLaunches(c, i)
  <2>1. faults' \in 0..MaxFaults /\ sup' \in [Instances -> SupStages]
    <3>1. \/ sup' = [sup EXCEPT ![i] = "launched"] /\ faults' = faults
          \/ sup' = sup /\ faults < MaxFaults /\ faults' = faults + 1
      BY <1>8 DEF StartLaunches, Fault
    <3>2. faults \in 0..MaxFaults /\ sup \in [Instances -> SupStages]
      OBVIOUS
    <3> HIDE DEF RigTypeOK
    <3>3. faults' \in 0..MaxFaults
      BY <3>1, <3>2, RigAssumption
    <3>4. sup' \in [Instances -> SupStages]
      BY <3>1, <3>2 DEF SupStages
    <3>5. QED
      BY <3>3, <3>4
  <2>2. stage' \in [Programs -> {"ready", "killing", "ending", "spawning"}]
        /\ control' \in [Instances -> Programs \cup {"free"}]
    BY <1>8 DEF StartLaunches
  <2>3. QED
    BY <1>8, <2>1, <2>2 DEF StartLaunches, records, history
<1>9. QED
  BY <1>1, <1>2, <1>3, <1>4, <1>5, <1>6, <1>7, <1>8

LEMMA StepsKeepTypes ==
  ASSUME RigTypeOK, RigNext, \A d \in Programs : plan'[d] \in Seq(Calls)
  PROVE  RigTypeOK'
<1> USE DEF RigTypeOK
<1>1. ASSUME NEW c \in Programs, Calling(c) PROVE RigTypeOK'
  BY <1>1, CallsKeepTypes
<1>2. CASE WatchdogTicks \/ GuardFindsHot \/ GuardFindsCool \/ GuardWaits
  BY <1>2 DEF WatchdogTicks, GuardFindsHot, GuardFindsCool, GuardWaits, records, history
<1>3. CASE SavesPaused \/ ClearsPaused
  BY <1>3 DEF SavesPaused, ClearsPaused, records, history
<1>4. ASSUME NEW i \in Instances,
             WatchdogMisses(i) \/ WatchdogDisapproves(i) \/ WatchdogIsContent(i)
      PROVE  RigTypeOK'
  BY <1>4 DEF WatchdogMisses, WatchdogDisapproves, WatchdogIsContent, records, history
<1>5. ASSUME NEW i \in Instances, WatchdogRevives(i) \/ WatchdogRestarts(i)
      PROVE  RigTypeOK'
  <2>1. restarts' \in [Instances -> 0..MaxRestarts]
    BY <1>5, RigAssumption DEF WatchdogRevives, WatchdogRestarts, Budget, NoBudget
  <2>2. rec' = rec \/ rec' = [rec EXCEPT ![i].phase = "faulted"]
    BY <1>5 DEF WatchdogRevives, WatchdogRestarts, SetPhase
  <2>3. rec' \in [Instances -> [desired : {"running", "stopped"}, maint : BOOLEAN, phase : Phases]]
    BY <2>2 DEF Phases
  <2>4. QED
    BY <1>5, <2>1, <2>3 DEF WatchdogRevives, WatchdogRestarts, history
<1>6. ASSUME NEW i \in Instances, HotChecks(i) \/ CoolChecks(i) \/ BootChecks(i)
      PROVE  RigTypeOK'
  BY <1>6 DEF HotChecks, CoolChecks, BootChecks, records, history
<1>7. CASE BootScans
  BY <1>7 DEF BootScans, records, history
<1>8. ASSUME NEW op \in Operations, NEW i \in Instances, RunnerBegins(op, i)
      PROVE  RigTypeOK'
  BY <1>8 DEF RunnerBegins, records
<1>9. ASSUME NEW i \in Instances, Supervisor(i) PROVE RigTypeOK'
  <2>1. CASE Registers(i)
    BY <1>9, <2>1 DEF Registers, records, programs, history, SupStages
  <2>2. CASE LoopChecks(i)
    <3>1. CASE StopWanted(i) \/ rec[i].maint
      BY <2>2, <3>1 DEF LoopChecks, Lost, programs, history, SupStages
    <3>2. CASE ~ (StopWanted(i) \/ rec[i].maint)
      <4>1. sup' = [sup EXCEPT ![i] = "mining"] /\ rec' = [rec EXCEPT ![i].phase = "running"]
        BY <2>2, <3>2 DEF LoopChecks
      <4>2. sup' \in [Instances -> SupStages]
        BY <4>1 DEF SupStages
      <4>3. rec' \in [Instances -> [desired : {"running", "stopped"}, maint : BOOLEAN, phase : Phases]]
        BY <4>1 DEF Phases
      <4>4. QED
        BY <2>2, <3>2, <4>2, <4>3 DEF LoopChecks, programs, history
    <3>3. QED
      BY <3>1, <3>2
  <2>3. CASE AfterExit(i)
    <3>1. restarts' \in [Instances -> 0..MaxRestarts]
      BY <2>3, RigAssumption DEF AfterExit, Budget, NoBudget
    <3>2. rec' = rec \/ \E p \in Phases : rec' = [rec EXCEPT ![i].phase = p]
      BY <2>3 DEF AfterExit, SetPhase, Phases
    <3>3. rec' \in [Instances -> [desired : {"running", "stopped"}, maint : BOOLEAN, phase : Phases]]
      <4>1. rec \in [Instances -> [desired : {"running", "stopped"}, maint : BOOLEAN, phase : Phases]]
        OBVIOUS
      <4> HIDE DEF RigTypeOK
      <4>2. QED
        BY <3>2, <4>1
    <3>4. sup' \in [Instances -> SupStages] /\ registered' \in SUBSET Instances
      <4>1. \/ Lost({i})
            \/ sup' = [sup EXCEPT ![i] = "cooldown"] /\ registered' = registered
        BY <2>3 DEF AfterExit
      <4>2. sup \in [Instances -> SupStages] /\ registered \in SUBSET Instances
        OBVIOUS
      <4> HIDE DEF RigTypeOK
      <4>3. QED
        BY <4>1, <4>2 DEF Lost, SupStages
    <3>5. QED
      BY <2>3, <3>1, <3>3, <3>4 DEF AfterExit, programs, history
  <2>4. CASE CooldownEnds(i)
    BY <1>9, <2>4 DEF CooldownEnds, Lost, records, programs, history, SupStages
  <2>5. QED
    BY <1>9, <2>1, <2>2, <2>3, <2>4 DEF Supervisor
<1>10. ASSUME NEW i \in Instances, MinerExits(i) \/ WarmUpEnds(i) PROVE RigTypeOK'
  BY <1>10 DEF MinerExits, WarmUpEnds, records, programs, history, SupStages
<1>11. ASSUME NEW i \in Instances, RecoveryAges(i) PROVE RigTypeOK'
  BY <1>11, RigAssumption DEF RecoveryAges, programs, history
<1>12. ASSUME NEW i \in Instances, SupervisorDies(i) PROVE RigTypeOK'
  BY <1>12, RigAssumption DEF SupervisorDies, Fault, Lost, records, programs, history, SupStages
<1>13. ASSUME NEW c \in Programs, ProgramDies(c) PROVE RigTypeOK'
  BY <1>13, RigAssumption DEF ProgramDies, Fault, records, history
<1>14. CASE Reboots
  BY <1>14, RigAssumption DEF Reboots, Fault, Lost, records, SupStages
<1>15. QED
  BY <1>1, <1>2, <1>3, <1>4, <1>5, <1>6, <1>7, <1>8, <1>9, <1>10, <1>11, <1>12, <1>13, <1>14
  DEF RigNext, Watchdog, Boot, Programs
-----------------------------------------------------------------------------
(***************************************************************************)
(* Most steps only decide: they touch no lock, no supervisor, no STOP file *)
(* and no call under way.                                                  *)
(***************************************************************************)
Decision ==
  /\ UNCHANGED <<control, stage, sup, registered, stopFile>>
  /\ \A c \in Programs : stage[c] # "ready" => plan'[c] = plan[c]
  /\ \A i \in Instances :
       /\ rec'[i].desired = rec[i].desired /\ rec'[i].maint = rec[i].maint
       /\ rec'[i].phase \in {rec[i].phase, "faulted"}
       /\ byHand'[i] \in {byHand[i], "none"}

Touching(i) == Supervisor(i) \/ MinerExits(i) \/ SupervisorDies(i)

LEMMA StepKinds ==
  ASSUME RInv, RigNext
  PROVE  \/ \E c \in Programs : Calling(c)
         \/ Decision
         \/ \E i \in Instances : Touching(i)
         \/ \E c \in Programs : ProgramDies(c)
         \/ Reboots
<1> USE DEF RInv, PlansHaveShape
<1>1. \A c \in Programs : plan[c] = <<>> => stage[c] = "ready"
  BY DEF CallsUnderWay, RigTypeOK
<1>2. CASE WatchdogTicks \/ GuardFindsHot \/ GuardFindsCool \/ GuardWaits \/ SavesPaused
           \/ ClearsPaused \/ BootScans
  <2>1. \A c \in Programs : stage[c] # "ready" => plan'[c] = plan[c]
    BY <1>1, <1>2 DEF WatchdogTicks, GuardFindsHot, GuardFindsCool, GuardWaits, SavesPaused,
         ClearsPaused, BootScans, DoFirst, Done, At, Programs
  <2>2. UNCHANGED <<control, stage, sup, registered, stopFile, rec, byHand>>
    BY <1>2 DEF WatchdogTicks, GuardFindsHot, GuardFindsCool, GuardWaits, SavesPaused,
         ClearsPaused, BootScans, records, history
  <2>3. QED
    BY <2>1, <2>2 DEF Decision
<1>3. ASSUME NEW i \in Instances,
             \/ WatchdogMisses(i) \/ WatchdogDisapproves(i) \/ WatchdogIsContent(i)
             \/ HotChecks(i) \/ CoolChecks(i) \/ BootChecks(i)
      PROVE  Decision
  <2>1. \A c \in Programs : stage[c] # "ready" => plan'[c] = plan[c]
    BY <1>3 DEF WatchdogMisses, WatchdogDisapproves, WatchdogIsContent, HotChecks, CoolChecks,
         BootChecks, DoFirst, Done, At, AtOn, Programs
  <2>2. UNCHANGED <<control, stage, sup, registered, stopFile, rec, byHand>>
    BY <1>3 DEF WatchdogMisses, WatchdogDisapproves, WatchdogIsContent, HotChecks, CoolChecks,
         BootChecks, records, history
  <2>3. QED
    BY <2>1, <2>2 DEF Decision
<1>4. ASSUME NEW i \in Instances, WatchdogRevives(i) \/ WatchdogRestarts(i)
      PROVE  Decision
  <2>1. \A c \in Programs : stage[c] # "ready" => plan'[c] = plan[c]
    BY <1>4 DEF WatchdogRevives, WatchdogRestarts, DoFirst, Done, At, AtOn, Programs
  <2>2. rec' = rec \/ rec' = [rec EXCEPT ![i].phase = "faulted"]
    BY <1>4 DEF WatchdogRevives, WatchdogRestarts, SetPhase
  <2>3. \A j \in Instances :
          /\ rec'[j].desired = rec[j].desired /\ rec'[j].maint = rec[j].maint
          /\ rec'[j].phase \in {rec[j].phase, "faulted"}
    <3>1. rec \in [Instances -> [desired : {"running", "stopped"}, maint : BOOLEAN, phase : Phases]]
      BY DEF RigTypeOK
    <3> HIDE DEF RInv, PlansHaveShape
    <3>2. QED
      BY <2>2, <3>1
  <2>4. UNCHANGED <<control, stage, sup, registered, stopFile, byHand>>
    BY <1>4 DEF WatchdogRevives, WatchdogRestarts, history
  <2>5. QED
    BY <2>1, <2>3, <2>4 DEF Decision
<1>5. ASSUME NEW op \in Operations, NEW i \in Instances, RunnerBegins(op, i)
      PROVE  Decision
  <2>1. \A c \in Programs : stage[c] # "ready" => plan'[c] = plan[c]
    BY <1>1, <1>5 DEF RunnerBegins, Programs
  <2>2. \A j \in Instances : byHand'[j] \in {byHand[j], "none"}
    BY <1>5 DEF RunnerBegins, RigTypeOK
  <2>3. UNCHANGED <<control, stage, sup, registered, stopFile, rec>>
    BY <1>5 DEF RunnerBegins, records
  <2>4. QED
    BY <2>1, <2>2, <2>3 DEF Decision
<1>6. ASSUME NEW i \in Instances, WarmUpEnds(i) \/ RecoveryAges(i) PROVE Decision
  BY <1>6 DEF WarmUpEnds, RecoveryAges, programs, history, Decision
<1>7. QED
  BY <1>2, <1>3, <1>4, <1>5, <1>6 DEF RigNext, Watchdog, Boot, Touching, Programs
-----------------------------------------------------------------------------
(***************************************************************************)
(* The locks.                                                              *)
(***************************************************************************)
LEMMA LocksKept ==
  ASSUME RInv, RigNext
  PROVE  LocksAreHeld' /\ CallsUnderWay'
<1> USE DEF RInv, PlansHaveShape
<1>1. ASSUME NEW c \in Programs, Calling(c) PROVE LocksAreHeld' /\ CallsUnderWay'
  <2>1. PICK i \in Instances :
      \/ StopBegins(c, i) \/ StopKills(c, i) \/ StopEnds(c, i)
      \/ StartFinds(c, i) \/ StartRefuses(c, i) \/ StartPrepares(c, i) \/ StartLaunches(c, i)
      \/ RestartChecks(c, i)
    BY <1>1 DEF Calling
  <2>2. CASE StopBegins(c, i)
    BY <2>2 DEF StopBegins, Takes, AtOn, At, LocksAreHeld, CallsUnderWay, RigTypeOK, Programs
  <2>3. CASE StopKills(c, i)
    BY <2>3 DEF StopKills, Holds, LocksAreHeld, CallsUnderWay, RigTypeOK
  <2>4. CASE StopEnds(c, i) \/ StartLaunches(c, i)
    <3>1. /\ control' = [control EXCEPT ![i] = "free"] /\ control[i] = c
          /\ stage' = [stage EXCEPT ![c] = "ready"]
          /\ \A d \in Programs \ {c} : plan'[d] = plan[d]
      BY <2>4 DEF StopEnds, StartLaunches, Holds, Done, Raises
    <3>2. QED
      BY <3>1 DEF LocksAreHeld, CallsUnderWay, RigTypeOK, Programs
  <2>5. CASE StartPrepares(c, i)
    BY <2>5 DEF StartPrepares, Takes, AtOn, At, LocksAreHeld, CallsUnderWay, RigTypeOK, Programs
  <2>6. CASE StartFinds(c, i) \/ StartRefuses(c, i) \/ RestartChecks(c, i)
    <3>1. /\ control' = control /\ stage' = stage /\ stage[c] = "ready"
          /\ \A d \in Programs \ {c} : plan'[d] = plan[d]
      BY <2>6 DEF StartFinds, StartRefuses, RestartChecks, Takes, AtOn, At, Done, Raises
    <3>2. QED
      BY <3>1 DEF LocksAreHeld, CallsUnderWay
  <2>7. QED
    BY <2>1, <2>2, <2>3, <2>4, <2>5, <2>6
<1>2. CASE Decision
  BY <1>2 DEF Decision, LocksAreHeld, CallsUnderWay
<1>3. ASSUME NEW i \in Instances, Touching(i) PROVE LocksAreHeld' /\ CallsUnderWay'
  <2>1. UNCHANGED <<control, stage, plan>>
    BY <1>3 DEF Touching, Supervisor, Registers, LoopChecks, AfterExit, CooldownEnds, MinerExits,
         SupervisorDies, programs
  <2>2. QED
    BY <2>1 DEF LocksAreHeld, CallsUnderWay
<1>4. ASSUME NEW c \in Programs, ProgramDies(c) PROVE LocksAreHeld' /\ CallsUnderWay'
  BY <1>4 DEF ProgramDies, LocksAreHeld, CallsUnderWay, RigTypeOK, Programs
<1>5. CASE Reboots
  BY <1>5 DEF Reboots, LocksAreHeld, CallsUnderWay, Programs
<1>6. QED
  BY <1>1, <1>2, <1>3, <1>4, <1>5, StepKinds
-----------------------------------------------------------------------------
(***************************************************************************)
(* The supervisors.                                                        *)
(***************************************************************************)
SupInv == NeverTwoSupervisors /\ MinersAreKnown /\ StopsAreWritten /\ StoppedIsDead

SupTypes ==
  /\ rec \in [Instances -> [desired : {"running", "stopped"}, maint : BOOLEAN, phase : Phases]]
  /\ stopFile \in SUBSET Instances
  /\ sup \in [Instances -> SupStages]
  /\ registered \in SUBSET Instances
  /\ control \in [Instances -> Programs \cup {"free"}]
  /\ stage \in [Programs -> {"ready", "killing", "ending", "spawning"}]

LEMMA CallsKeepSupervisors ==
  ASSUME SupTypes, LocksAreHeld, SupInv, NEW c \in Programs, Calling(c)
  PROVE  SupInv'
<1> USE DEF SupInv, SupTypes
<1>1. PICK i \in Instances :
      \/ StopBegins(c, i) \/ StopKills(c, i) \/ StopEnds(c, i)
      \/ StartFinds(c, i) \/ StartRefuses(c, i) \/ StartPrepares(c, i) \/ StartLaunches(c, i)
      \/ RestartChecks(c, i)
  BY DEF Calling
<1>2. CASE StopBegins(c, i)
  BY <1>2 DEF StopBegins, Takes, AtOn, At, Holds, LocksAreHeld, NeverTwoSupervisors, MinersAreKnown,
     StopsAreWritten, StoppedIsDead, Programs
<1>3. CASE StopKills(c, i)
  <2>1. /\ stage[c] = "killing" /\ control[i] = c
        /\ stage' = [stage EXCEPT ![c] = "ending"]
        /\ UNCHANGED <<control, stopFile, rec>>
    BY <1>3 DEF StopKills, Holds, records
  <2>2. \/ sup' = [j \in Instances |-> IF j = i THEN "none" ELSE sup[j]]
           /\ registered' = registered \ {i}
        \/ sup[i] # "none" /\ i \notin registered /\ UNCHANGED <<sup, registered>>
    BY <1>3 DEF StopKills, Lost, Owned
  <2>3. sup'[i] \in {"none", "launched", "loop"}
    BY <2>2 DEF MinersAreKnown, SupStages
  <2>4. \A j \in Instances \ {i} : sup'[j] = sup[j] /\ (j \in registered' <=> j \in registered)
    BY <2>2
  <2>5. NeverTwoSupervisors'
    BY <2>1, <2>2, <2>4 DEF NeverTwoSupervisors, Holds, LocksAreHeld, Programs
  <2>6. MinersAreKnown'
    BY <2>1, <2>2, <2>4 DEF MinersAreKnown
  <2>7. StopsAreWritten'
    BY <2>1, <2>3, <2>4 DEF StopsAreWritten, Holds, LocksAreHeld
  <2>8. StoppedIsDead'
    BY <2>1, <2>3, <2>4 DEF StoppedIsDead
  <2>9. QED
    BY <2>5, <2>6, <2>7, <2>8
<1>4. CASE StopEnds(c, i)
  BY <1>4 DEF StopEnds, Holds, LocksAreHeld, NeverTwoSupervisors, MinersAreKnown,
     StopsAreWritten, StoppedIsDead, Programs
<1>5. CASE StartFinds(c, i) \/ StartRefuses(c, i) \/ RestartChecks(c, i)
  <2>1. UNCHANGED <<control, stage, sup, registered, stopFile>>
    BY <1>5 DEF StartFinds, StartRefuses, RestartChecks, records
  <2>2. \A j \in Instances : rec'[j].phase = rec[j].phase
    BY <1>5 DEF StartFinds, StartRefuses, RestartChecks, records
  <2>3. QED
    BY <2>1, <2>2 DEF Holds, NeverTwoSupervisors, MinersAreKnown, StopsAreWritten, StoppedIsDead
<1>6. CASE StartPrepares(c, i)
  BY <1>6 DEF StartPrepares, Takes, AtOn, At, Holds, LocksAreHeld, NeverTwoSupervisors,
     MinersAreKnown, StopsAreWritten, StoppedIsDead, Programs
<1>7. CASE StartLaunches(c, i)
  <2>1. /\ stage[c] = "spawning" /\ control[i] = c
        /\ stage' = [stage EXCEPT ![c] = "ready"] /\ control' = [control EXCEPT ![i] = "free"]
        /\ UNCHANGED <<registered, stopFile, rec>>
    BY <1>7 DEF StartLaunches, Holds, records
  <2>2. \/ sup' = [sup EXCEPT ![i] = "launched"]
        \/ sup' = sup
    BY <1>7 DEF StartLaunches
  <2>3. NeverTwoSupervisors'
    BY <2>1, <2>2 DEF NeverTwoSupervisors, Holds, LocksAreHeld, Programs
  <2>4. MinersAreKnown'
    BY <2>1, <2>2 DEF MinersAreKnown
  <2>5. StopsAreWritten'
    BY <2>1, <2>2 DEF StopsAreWritten, Holds, LocksAreHeld, Programs
  <2>6. StoppedIsDead'
    BY <2>1, <2>2 DEF StoppedIsDead
  <2>7. QED
    BY <2>3, <2>4, <2>5, <2>6
<1>8. QED
  BY <1>1, <1>2, <1>3, <1>4, <1>5, <1>6, <1>7

LEMMA SupervisorsKeepSupervisors ==
  ASSUME SupTypes, SupInv, NEW i \in Instances, Touching(i)
  PROVE  SupInv'
<1> USE DEF SupInv, SupTypes
<1>1. UNCHANGED <<control, stage, stopFile>>
  BY DEF Touching, Supervisor, Registers, LoopChecks, AfterExit, CooldownEnds, MinerExits,
     SupervisorDies, programs, records
<1>2. CASE Registers(i)
  BY <1>1, <1>2 DEF Registers, Holds, NeverTwoSupervisors, MinersAreKnown, StopsAreWritten,
     StoppedIsDead, records
<1>3. CASE LoopChecks(i)
  <2>1. CASE StopWanted(i) \/ rec[i].maint
    <3>1. /\ sup' = [j \in Instances |-> IF j = i THEN "none" ELSE sup[j]]
          /\ registered' = registered \ {i} /\ rec' = rec
      BY <1>3, <2>1 DEF LoopChecks, Lost
    <3>2. QED
      BY <1>1, <3>1 DEF Holds, NeverTwoSupervisors, MinersAreKnown, StopsAreWritten, StoppedIsDead
  <2>2. CASE ~ (StopWanted(i) \/ rec[i].maint)
    <3>1. /\ sup[i] = "loop" /\ sup' = [sup EXCEPT ![i] = "mining"] /\ registered' = registered
          /\ rec' = [rec EXCEPT ![i].phase = "running"] /\ i \notin stopFile
      BY <1>3, <2>2 DEF LoopChecks, StopWanted
    <3>2. \A j \in Instances : j # i => rec'[j].phase = rec[j].phase
      BY <3>1
    <3>3. rec'[i].phase = "running"
      BY <3>1
    <3>4. QED
      BY <1>1, <3>1, <3>2, <3>3 DEF Holds, NeverTwoSupervisors, MinersAreKnown, StopsAreWritten,
         StoppedIsDead
  <2>3. QED
    BY <2>1, <2>2
<1>4. CASE MinerExits(i)
  BY <1>1, <1>4 DEF MinerExits, Holds, NeverTwoSupervisors, MinersAreKnown, StopsAreWritten,
     StoppedIsDead, records
<1>5. CASE AfterExit(i)
  BY <1>1, <1>5 DEF AfterExit, StopWanted, Lost, SetPhase, Holds, NeverTwoSupervisors, MinersAreKnown,
     StopsAreWritten, StoppedIsDead
<1>6. CASE CooldownEnds(i)
  <2>1. /\ sup[i] = "cooldown" /\ rec' = rec
        /\ \/ sup' = [j \in Instances |-> IF j = i THEN "none" ELSE sup[j]]
              /\ registered' = registered \ {i}
           \/ sup' = [sup EXCEPT ![i] = "loop"] /\ registered' = registered
    BY <1>6 DEF CooldownEnds, Lost, records
  <2>2. QED
    BY <1>1, <2>1 DEF Holds, NeverTwoSupervisors, MinersAreKnown, StopsAreWritten, StoppedIsDead
<1>7. CASE SupervisorDies(i)
  BY <1>1, <1>7 DEF SupervisorDies, Lost, Holds, NeverTwoSupervisors, MinersAreKnown, StopsAreWritten,
     StoppedIsDead, records
<1>8. QED
  BY <1>2, <1>3, <1>4, <1>5, <1>6, <1>7 DEF Touching, Supervisor

LEMMA SupervisorsKept ==
  ASSUME RInv, RigNext
  PROVE  SupInv'
<1>1. SupTypes /\ SupInv /\ LocksAreHeld
  BY DEF RInv, RigTypeOK, SupTypes, SupInv
<1>2. ASSUME NEW c \in Programs, Calling(c) PROVE SupInv'
  BY <1>1, <1>2, CallsKeepSupervisors
<1>3. CASE Decision
  BY <1>1, <1>3 DEF Decision, SupInv, SupTypes, Holds, NeverTwoSupervisors, MinersAreKnown,
     StopsAreWritten, StoppedIsDead
<1>4. ASSUME NEW i \in Instances, Touching(i) PROVE SupInv'
  BY <1>1, <1>4, SupervisorsKeepSupervisors
<1>5. ASSUME NEW c \in Programs, ProgramDies(c) PROVE SupInv'
  <2>1. /\ stage' = [stage EXCEPT ![c] = "ready"]
        /\ control' = [i \in Instances |-> IF control[i] = c THEN "free" ELSE control[i]]
        /\ UNCHANGED <<sup, registered, stopFile, rec>>
    BY <1>5 DEF ProgramDies, records
  <2>2. \A d \in Programs, i \in Instances : control'[i] = d => control[i] = d /\ stage'[d] = stage[d]
    BY <1>1, <2>1 DEF SupTypes, Programs
  <2>3. QED
    BY <1>1, <2>1, <2>2 DEF SupInv, Holds, NeverTwoSupervisors, MinersAreKnown, StopsAreWritten,
       StoppedIsDead
<1>6. CASE Reboots
  BY <1>1, <1>6 DEF Reboots, Lost, SupInv, SupTypes, Holds, NeverTwoSupervisors, MinersAreKnown,
     StopsAreWritten, StoppedIsDead, records
<1>7. QED
  BY <1>2, <1>3, <1>4, <1>5, <1>6, StepKinds
-----------------------------------------------------------------------------
(***************************************************************************)
(* The intent.  Only a call that stands at the head of a plan can set it   *)
(* to "running", so a plan that does not act on an instance cannot.        *)
(***************************************************************************)
LEMMA IntentIsKept ==
  ASSUME RInv, NEW i \in Instances, byHand[i] = "quiet", byHand'[i] = "quiet",
         RigNext, \A c \in Programs : ~ StopBegins(c, i)
  PROVE  rec'[i].desired = "stopped"
<1> USE DEF RInv
<1>1. rec[i].desired = "stopped" /\ \A c \in Programs : ~ ActsIn(plan[c], i)
  BY DEF QuietIsLeftAlone
<1>2. rec \in [Instances -> [desired : {"running", "stopped"}, maint : BOOLEAN, phase : Phases]]
  BY DEF RigTypeOK
<1>3. ASSUME NEW c \in Programs, Calling(c) PROVE rec'[i].desired = rec[i].desired
  <2>1. PICK j \in Instances :
      \/ StopBegins(c, j) \/ StopKills(c, j) \/ StopEnds(c, j)
      \/ StartFinds(c, j) \/ StartRefuses(c, j) \/ StartPrepares(c, j) \/ StartLaunches(c, j)
      \/ RestartChecks(c, j)
    BY <1>3 DEF Calling
  <2>2. CASE StartFinds(c, j) \/ StartPrepares(c, j)
    <3>1. plan[c] # <<>> /\ Head(plan[c]).do \in Acting /\ Head(plan[c]).i = j
      BY <2>2 DEF StartFinds, StartPrepares, Takes, AtOn, At, Acting
    <3>2. ActsIn(plan[c], j)
      BY <3>1, HeadActs DEF PlansHaveShape, Plan
    <3>3. j # i
      BY <1>1, <3>2
    <3>4. \E r : rec' = [rec EXCEPT ![j] = r]
      BY <1>2, <2>2 DEF StartFinds, StartPrepares
    <3> HIDE DEF RInv
    <3>5. QED
      BY <1>2, <3>3, <3>4
  <2>3. CASE StopBegins(c, j)
    <3>1. j # i
      BY <2>3
    <3>2. \E r : rec' = [rec EXCEPT ![j] = r]
      BY <2>3 DEF StopBegins
    <3> HIDE DEF RInv
    <3>3. QED
      BY <1>2, <3>1, <3>2
  <2>4. CASE StopEnds(c, j)
    <3>1. rec' = [rec EXCEPT ![j].phase = "stopped"]
      BY <2>4 DEF StopEnds
    <3> HIDE DEF RInv
    <3>2. QED
      BY <1>2, <3>1
  <2>5. CASE StopKills(c, j) \/ StartRefuses(c, j) \/ StartLaunches(c, j) \/ RestartChecks(c, j)
    BY <2>5 DEF StopKills, StartRefuses, StartLaunches, RestartChecks, records
  <2>6. QED
    BY <2>1, <2>2, <2>3, <2>4, <2>5
<1>4. CASE Decision
  BY <1>1, <1>4 DEF Decision
<1>5. ASSUME NEW j \in Instances, Touching(j) PROVE rec'[i].desired = rec[i].desired
  <2>1. rec' = rec \/ \E p : rec' = [rec EXCEPT ![j].phase = p]
    BY <1>5 DEF Touching, Supervisor, Registers, LoopChecks, AfterExit, CooldownEnds, MinerExits,
       SupervisorDies, SetPhase, records
  <2> HIDE DEF RInv
  <2>2. QED
    BY <1>2, <2>1
<1>6. CASE Reboots \/ \E c \in Programs : ProgramDies(c)
  BY <1>1, <1>6 DEF Reboots, ProgramDies, records
<1>7. QED
  BY <1>1, <1>3, <1>4, <1>5, <1>6, StepKinds

LEMMA QuietKept ==
  ASSUME RInv, RigNext, PlansGrow
  PROVE  QuietIsLeftAlone'
<1> SUFFICES ASSUME NEW i \in Instances, byHand'[i] = "quiet"
             PROVE  rec'[i].desired = "stopped" /\ \A c \in Programs : ~ ActsIn(plan'[c], i)
  BY DEF QuietIsLeftAlone
<1> USE DEF RInv
<1>1. ASSUME NEW c \in Programs, StopBegins(c, i)
      PROVE  rec'[i].desired = "stopped" /\ \A d \in Programs : ~ ActsIn(plan'[d], i)
  <2>0. plan' = plan /\ plan[c] # <<>> /\ Head(plan[c]).i = i /\ Head(plan[c]).do \in {"stop", "hold"}
    BY <1>1 DEF StopBegins, Takes, AtOn, At
  <2>1. CASE Head(plan[c]).do = "stop"
    <3>1. rec'[i].desired = "stopped"
      BY <1>1, <2>1 DEF StopBegins, RigTypeOK
    <3>2. \A d \in Programs \ {c} : ~ Acts(d, i)
      BY <1>1, <2>1 DEF StopBegins, RigTypeOK
    <3>3. ~ ActsIn(plan[c], i)
      <4>1. plan[c] \in Seq(Calls) /\ Len(plan[c]) = 1 /\ plan[c][1].do = "stop"
        BY <2>0, <2>1 DEF PlansHaveShape, Shape
      <4>2. QED
        BY <4>1, ActsAt DEF Acting
    <3>4. QED
      BY <2>0, <3>1, <3>2, <3>3 DEF Acts, ActsIn
  <2>2. CASE Head(plan[c]).do = "hold"
    <3>1. ActsIn(plan[c], i)
      BY <2>0, <2>2, HeadActs DEF PlansHaveShape, Plan, Acting
    <3>2. byHand' = byHand
      BY <1>1, <2>2 DEF StopBegins
    <3>3. QED
      BY <3>1, <3>2 DEF QuietIsLeftAlone
  <2>3. QED
    BY <2>0, <2>1, <2>2
<1>2. ASSUME \A c \in Programs : ~ StopBegins(c, i)
      PROVE  rec'[i].desired = "stopped" /\ \A c \in Programs : ~ ActsIn(plan'[c], i)
  <2>1. byHand[i] = "quiet"
    <3>1. ASSUME NEW c \in Programs, Calling(c) PROVE byHand'[i] = byHand[i]
      <4>1. PICK j \in Instances :
          \/ StopBegins(c, j) \/ StopKills(c, j) \/ StopEnds(c, j)
          \/ StartFinds(c, j) \/ StartRefuses(c, j) \/ StartPrepares(c, j) \/ StartLaunches(c, j)
          \/ RestartChecks(c, j)
        BY <3>1 DEF Calling
      <4>2. CASE StopBegins(c, j)
        <5>1. i # j /\ (byHand' = byHand \/ \E h : byHand' = [byHand EXCEPT ![j] = h])
          BY <1>2, <4>2 DEF StopBegins
        <5>2. QED
          BY <5>1 DEF RigTypeOK
      <4>3. CASE ~ StopBegins(c, j)
        BY <4>1, <4>3 DEF StopKills, StopEnds, StartFinds, StartRefuses, StartPrepares,
           StartLaunches, RestartChecks, history
      <4>4. QED
        BY <4>2, <4>3
    <3>2. CASE Decision
      BY <3>2 DEF Decision
    <3>3. ASSUME NEW j \in Instances, Touching(j) PROVE byHand' = byHand
      BY <3>3 DEF Touching, Supervisor, Registers, LoopChecks, AfterExit, CooldownEnds, MinerExits,
         SupervisorDies, history
    <3>4. CASE Reboots \/ \E c \in Programs : ProgramDies(c)
      BY <3>4 DEF Reboots, ProgramDies, history
    <3>5. QED
      BY <3>1, <3>2, <3>3, <3>4, StepKinds
  <2>2. rec'[i].desired = "stopped"
    BY <1>2, <2>1, IntentIsKept
  <2>3. \A c \in Programs : ~ ActsIn(plan'[c], i)
    BY <2>1 DEF PlansGrow, QuietIsLeftAlone
  <2>4. QED
    BY <2>2, <2>3
<1>3. QED
  BY <1>1, <1>2
-----------------------------------------------------------------------------
LEMMA RInvInitially == RigInit => RInv
<1> SUFFICES ASSUME RigInit PROVE RInv
  OBVIOUS
<1>1. RigTypeOK
  BY RigAssumption DEF RigInit, RigTypeOK, Phases, SupStages
<1>2. PlansHaveShape
  BY NoPlan DEF RigInit, PlansHaveShape, Plan
<1>3. QED
  BY <1>1, <1>2 DEF RigInit, RInv, LocksAreHeld, CallsUnderWay, NeverTwoSupervisors, MinersAreKnown,
     StopsAreWritten, StoppedIsDead, QuietIsLeftAlone, Holds, Programs

LEMMA RInvInductive == RInv /\ [RigNext]_rigVars => RInv'
<1> SUFFICES ASSUME RInv, [RigNext]_rigVars PROVE RInv'
  OBVIOUS
<1>1. CASE RigNext
  <2>1. PlansHaveShape' /\ PlansGrow
    BY <1>1, StepsMovePlans
  <2>2. RigTypeOK'
    BY <1>1, <2>1, StepsKeepTypes DEF RInv, PlansHaveShape
  <2>3. LocksAreHeld' /\ CallsUnderWay' /\ SupInv'
    BY <1>1, LocksKept, SupervisorsKept
  <2>4. QuietIsLeftAlone'
    BY <1>1, <2>1, QuietKept
  <2>5. QED
    BY <2>1, <2>2, <2>3, <2>4 DEF RInv, SupInv
<1>2. CASE UNCHANGED rigVars
  BY <1>2 DEF rigVars, records, programs, history, RInv, RigTypeOK, PlansHaveShape, LocksAreHeld,
     CallsUnderWay, NeverTwoSupervisors, MinersAreKnown, StopsAreWritten, StoppedIsDead,
     QuietIsLeftAlone, Holds
<1>3. QED
  BY <1>1, <1>2

LEMMA RInvAlways == RigSpec => []RInv
BY RInvInitially, RInvInductive, PTL DEF RigSpec

(***************************************************************************)
(* Type correctness; among it that the recovery budget, counted by the     *)
(* supervisor and by the watchdog, is never exceeded.                      *)
(***************************************************************************)
THEOREM RigTypesHold == RigSpec => []RigTypeOK
<1>1. RInv => RigTypeOK
  BY DEF RInv
<1>2. QED
  BY <1>1, RInvAlways, PTL

(***************************************************************************)
(* No second supervisor is ever launched beside a living one, whichever of *)
(* the three programs starts, restarts, dies or is rebooted.               *)
(***************************************************************************)
THEOREM OneSupervisor == RigSpec => []NeverTwoSupervisors
<1>1. RInv => NeverTwoSupervisors
  BY DEF RInv
<1>2. QED
  BY <1>1, RInvAlways, PTL

(***************************************************************************)
(* An instance recorded as stopped runs no miner, and will not before it   *)
(* is started again.                                                       *)
(***************************************************************************)
THEOREM StoppedInstancesAreDead == RigSpec => []StoppedIsDead
<1>1. RInv => StoppedIsDead
  BY DEF RInv
<1>2. QED
  BY <1>1, RInvAlways, PTL

(***************************************************************************)
(* A stop by hand stands when no program had decided to start or pause the *)
(* instance before the stop was written.                                   *)
(***************************************************************************)
THEOREM QuietStopsStand == RigSpec => []QuietStopStands
<1>1. RInv => QuietStopStands
  BY DEF RInv, QuietIsLeftAlone, QuietStopStands
<1>2. QED
  BY <1>1, RInvAlways, PTL
-----------------------------------------------------------------------------
(***************************************************************************)
(* As long as nothing is killed and screen does as told, no instance is    *)
(* abandoned.  What waits (it should run, but is in maintenance) is on the *)
(* thermal guard's list, or picked for it, or is cared for: the runner is  *)
(* going to start it, or the watchdog is with its next calls.              *)
(***************************************************************************)
RunnerWill(i) ==
  plan["runner"] \in {<<On("start", i)>>, <<On("hold", i), On("start", i)>>}

WatchdogWill(i) ==
  LET s == plan["watchdog"] IN
  s # <<>> /\ \/ s[1] = On("revive", i)
              \/ Len(s) > 1 /\ s[1] = On("hold", i) /\ s[2] = On("revive", i)

Waits(i) == rec[i].desired = "running" /\ rec[i].maint
Cared(i) == Waits(i) => RunnerWill(i) \/ WatchdogWill(i)

\* Nothing was killed: no recovery at boot, and the runner has one operation.
FewPlans ==
  /\ plan["boot"] = <<>>
  /\ plan["runner"] # <<>> =>
       \E i \in Instances : plan["runner"] \in
         {<<On("start", i)>>, <<On("stop", i)>>, <<On("hold", i), On("start", i)>>}

\* What is in maintenance has no supervisor, as soon as its lock is free.
HeldIsDown ==
  /\ \A i \in Instances : rec[i].maint =>
       i \in stopFile /\ (control[i] = "free" => sup[i] = "none")
  /\ \A c \in Programs, i \in Instances :
       /\ Holds(c, "ending", i) => sup[i] = "none"
       /\ Holds(c, "spawning", i) => ~ rec[i].maint

\* What waits is recorded as stopped, if nobody is to start it by hand.
WaitsStopped ==
  \A i \in Instances :
    Waits(i) /\ rec[i].phase # "stopped" => RunnerWill(i) \/ control[i] = "watchdog"

\* A decision of the watchdog to replace or restart was made while the instance did not wait.
DecidedAwake ==
  plan["watchdog"] # <<>> /\ plan["watchdog"][1].do \in {"missing", "bad", "check"} =>
    (Waits(plan["watchdog"][1].i) => RunnerWill(plan["watchdog"][1].i))

\* How the watchdog's plan goes on, and what stands at its end.
LastIs(s, d) == s # <<>> /\ s[Len(s)].do = d

WellOrdered(s, p) ==
  /\ \A n \in 1..Len(s) :
       /\ s[n].do \in {"guard", "save", "clear"} => n = Len(s)
       /\ s[n].do = "bad" => n = 1
       /\ s[n].do = "hotCheck" => s[Len(s)].do = "save"
  /\ s # <<>> /\ s[1].do = "check" =>
       Len(s) > 2 /\ s[2] = On("hold", s[1].i) /\ s[3] = On("revive", s[1].i)
  /\ s # <<>> /\ s[1].do = "hold" =>
       s[1].i \in p \/ (Len(s) > 1 /\ s[2] = On("revive", s[1].i))
  /\ p # {} => LastIs(s, "save")

WatchdogPlan == WellOrdered(plan["watchdog"], picked)

\* Before the list is cleared, every instance on it is looked at, or cared for.
LookedAt(s, i) == \E n \in 1..Len(s) : s[n] = On("coolCheck", i)
ListIsWorkedOff ==
  LastIs(plan["watchdog"], "clear") =>
    \A i \in paused : LookedAt(plan["watchdog"], i) \/ Cared(i)

NoneForgotten == \A i \in Instances : i \in paused \cup picked \/ Cared(i)

Calm ==
  /\ FewPlans /\ HeldIsDown /\ WaitsStopped /\ DecidedAwake /\ WatchdogPlan
  /\ ListIsWorkedOff /\ NoneForgotten

CalmUnlessFaults == faults = 0 => Calm
-----------------------------------------------------------------------------
LEMMA CalmInitially == RigInit => Calm
BY DEF RigInit, Calm, FewPlans, HeldIsDown, WaitsStopped, DecidedAwake, WatchdogPlan, WellOrdered,
   ListIsWorkedOff, NoneForgotten, Cared, Waits, LastIs, Holds, Programs

\* Faults are only ever counted up.
LEMMA FaultsGrow ==
  ASSUME RInv, RigNext, faults' = 0
  PROVE  faults = 0
<1>1. faults \in Nat
  BY RigAssumption DEF RInv, RigTypeOK
<1>2. faults' = faults \/ Fault
  <2>1. ASSUME NEW c \in Programs, Calling(c) PROVE faults' = faults \/ Fault
    BY <2>1 DEF Calling, StopBegins, StopKills, StopEnds, StartFinds, StartRefuses,
       StartPrepares, StartLaunches, RestartChecks
  <2>2. ASSUME Watchdog \/ Boot, ~ Calling("watchdog"), ~ Calling("boot") PROVE faults' = faults
    BY <2>2 DEF Watchdog, WatchdogTicks, WatchdogMisses, WatchdogRevives, WatchdogDisapproves,
       WatchdogRestarts, WatchdogIsContent, HotChecks, CoolChecks, GuardFindsHot, GuardFindsCool,
       GuardWaits, SavesPaused, ClearsPaused, Boot, BootScans, BootChecks
  <2>3. ASSUME NEW op \in Operations, NEW i \in Instances, RunnerBegins(op, i) PROVE faults' = faults
    BY <2>3 DEF RunnerBegins
  <2>4. ASSUME NEW i \in Instances,
               Supervisor(i) \/ MinerExits(i) \/ WarmUpEnds(i) \/ RecoveryAges(i)
        PROVE  faults' = faults
    BY <2>4 DEF Supervisor, Registers, LoopChecks, AfterExit, CooldownEnds, MinerExits, WarmUpEnds,
       RecoveryAges
  <2>5. ASSUME \/ \E i \in Instances : SupervisorDies(i)
               \/ \E c \in Programs : ProgramDies(c)
               \/ Reboots
        PROVE  Fault
    BY <2>5 DEF SupervisorDies, ProgramDies, Reboots
  <2>6. QED
    BY <2>1, <2>2, <2>3, <2>4, <2>5 DEF RigNext, Programs
<1>3. QED
  BY <1>1, <1>2 DEF Fault

\* A step after which there was no fault, by its kind.
LEMMA CalmSteps ==
  ASSUME RInv, FewPlans, RigNext, faults' = 0
  PROVE  /\ faults = 0 /\ ~ Fault
         /\ \/ Calling("runner") \/ Watchdog
            \/ \E op \in Operations, i \in Instances : RunnerBegins(op, i)
            \/ \E i \in Instances :
                 Supervisor(i) \/ MinerExits(i) \/ WarmUpEnds(i) \/ RecoveryAges(i)
<1>1. faults \in Nat /\ ~ Fault
  BY RigAssumption DEF RInv, RigTypeOK, Fault
<1>2. stage["boot"] = "ready" /\ plan["boot"] = <<>> /\ "boot" \in Programs
  BY DEF RInv, RigTypeOK, CallsUnderWay, FewPlans, Programs
<1>3. ~ Calling("boot")
  BY <1>2 DEF Calling, StopBegins, StopKills, StopEnds, StartFinds, StartRefuses, StartPrepares,
     StartLaunches, RestartChecks, Takes, AtOn, At, Holds
<1>4. ~ Boot
  BY <1>2, <1>3 DEF Boot, BootScans, BootChecks, AtOn, At
<1>5. ~ Reboots /\ (\A c \in Programs : ~ ProgramDies(c)) /\ \A i \in Instances : ~ SupervisorDies(i)
  BY <1>1 DEF Reboots, ProgramDies, SupervisorDies
<1>6. \/ Calling("runner") \/ Watchdog
      \/ \E op \in Operations, i \in Instances : RunnerBegins(op, i)
      \/ \E i \in Instances :
           Supervisor(i) \/ MinerExits(i) \/ WarmUpEnds(i) \/ RecoveryAges(i)
  BY <1>4, <1>5 DEF RigNext
<1>7. faults = 0
  BY FaultsGrow
<1>8. QED
  BY <1>1, <1>6, <1>7
-----------------------------------------------------------------------------
(***************************************************************************)
(* What is in maintenance stays down.                                      *)
(***************************************************************************)
LEMMA CallsKeepDown ==
  ASSUME SupTypes, LocksAreHeld, HeldIsDown, ~ Fault, NEW c \in Programs, Calling(c)
  PROVE  HeldIsDown'
<1> USE DEF SupTypes
<1>1. PICK i \in Instances :
      \/ StopBegins(c, i) \/ StopKills(c, i) \/ StopEnds(c, i)
      \/ StartFinds(c, i) \/ StartRefuses(c, i) \/ StartPrepares(c, i) \/ StartLaunches(c, i)
      \/ RestartChecks(c, i)
  BY DEF Calling
<1>2. CASE StopBegins(c, i)
  <2>1. /\ control[i] = "free" /\ control' = [control EXCEPT ![i] = c]
        /\ stage[c] = "ready" /\ stage' = [stage EXCEPT ![c] = "killing"]
        /\ stopFile' = stopFile \cup {i} /\ sup' = sup
        /\ \A j \in Instances \ {i} : rec'[j].maint = rec[j].maint
    BY <1>2 DEF StopBegins, Takes, AtOn, At
  <2>2. QED
    BY <2>1 DEF HeldIsDown, Holds, LocksAreHeld, Programs
<1>3. CASE StopKills(c, i)
  <2>1. /\ stage[c] = "killing" /\ control[i] = c
        /\ stage' = [stage EXCEPT ![c] = "ending"]
        /\ sup' = [j \in Instances |-> IF j = i THEN "none" ELSE sup[j]]
        /\ UNCHANGED <<control, stopFile, rec>>
    BY <1>3 DEF StopKills, Holds, Lost, records
  <2>2. QED
    BY <2>1 DEF HeldIsDown, Holds, LocksAreHeld, Programs
<1>4. CASE StopEnds(c, i)
  <2>1. /\ stage[c] = "ending" /\ control[i] = c
        /\ stage' = [stage EXCEPT ![c] = "ready"]
        /\ control' = [control EXCEPT ![i] = "free"]
        /\ UNCHANGED <<sup, stopFile>>
        /\ \A j \in Instances : rec'[j].maint = rec[j].maint
    BY <1>4 DEF StopEnds, Holds
  <2>2. QED
    BY <2>1 DEF HeldIsDown, Holds, LocksAreHeld, Programs
<1>5. CASE StartFinds(c, i)
  <2>1. /\ UNCHANGED <<control, stage, sup, stopFile>>
        /\ ~ rec'[i].maint
        /\ \A j \in Instances \ {i} : rec'[j].maint = rec[j].maint
    BY <1>5 DEF StartFinds
  <2>2. QED
    BY <2>1 DEF HeldIsDown, Holds
<1>6. CASE StartRefuses(c, i) \/ RestartChecks(c, i)
  BY <1>6 DEF StartRefuses, RestartChecks, records, HeldIsDown, Holds
<1>7. CASE StartPrepares(c, i)
  <2>1. /\ control[i] = "free" /\ control' = [control EXCEPT ![i] = c]
        /\ stage[c] = "ready" /\ stage' = [stage EXCEPT ![c] = "spawning"]
        /\ stopFile' = stopFile \ {i} /\ sup' = sup
        /\ ~ rec'[i].maint
        /\ \A j \in Instances \ {i} : rec'[j].maint = rec[j].maint
    BY <1>7 DEF StartPrepares, Takes, AtOn, At
  <2>2. QED
    BY <2>1 DEF HeldIsDown, Holds, LocksAreHeld, Programs
<1>8. CASE StartLaunches(c, i)
  <2>1. /\ stage[c] = "spawning" /\ control[i] = c
        /\ stage' = [stage EXCEPT ![c] = "ready"]
        /\ control' = [control EXCEPT ![i] = "free"]
        /\ sup' = [sup EXCEPT ![i] = "launched"]
        /\ UNCHANGED <<stopFile, rec>>
    BY <1>8 DEF StartLaunches, Holds, records
  <2>2. QED
    BY <2>1 DEF HeldIsDown, Holds, LocksAreHeld, Programs
<1>9. QED
  BY <1>1, <1>2, <1>3, <1>4, <1>5, <1>6, <1>7, <1>8

LEMMA SupervisorsKeepDown ==
  ASSUME SupTypes, HeldIsDown, NEW i \in Instances, Supervisor(i) \/ MinerExits(i)
  PROVE  HeldIsDown'
<1> USE DEF SupTypes
<1>1. UNCHANGED <<control, stage, stopFile>> /\ sup[i] # "none"
  BY DEF Supervisor, Registers, LoopChecks, AfterExit, CooldownEnds, MinerExits, programs, records
<1>2. \A j \in Instances : rec'[j].maint = rec[j].maint
  <2>1. rec' = rec \/ \E p : rec' = [rec EXCEPT ![i].phase = p]
    BY DEF Supervisor, Registers, LoopChecks, AfterExit, CooldownEnds, MinerExits, SetPhase, records
  <2>2. QED
    BY <2>1
<1>3. \A j \in Instances \ {i} : sup'[j] = sup[j]
  <2>1. Lost({i}) \/ \E p : sup' = [sup EXCEPT ![i] = p]
    BY DEF Supervisor, Registers, LoopChecks, AfterExit, CooldownEnds, MinerExits
  <2>2. QED
    BY <2>1 DEF Lost
<1>4. QED
  BY <1>1, <1>2, <1>3 DEF HeldIsDown, Holds

LEMMA DownKept ==
  ASSUME RInv, FewPlans, HeldIsDown, RigNext, faults' = 0
  PROVE  HeldIsDown'
<1>1. SupTypes /\ LocksAreHeld /\ ~ Fault
  BY CalmSteps DEF RInv, RigTypeOK, SupTypes
<1>2. ASSUME NEW c \in Programs, Calling(c) PROVE HeldIsDown'
  BY <1>1, <1>2, CallsKeepDown
<1>3. CASE Decision
  BY <1>1, <1>3 DEF Decision, HeldIsDown, Holds
<1>4. ASSUME NEW i \in Instances, Touching(i) PROVE HeldIsDown'
  <2>1. ~ SupervisorDies(i)
    BY <1>1 DEF SupervisorDies
  <2>2. QED
    BY <1>1, <1>4, <2>1, SupervisorsKeepDown DEF Touching
<1>5. ~ Reboots /\ \A c \in Programs : ~ ProgramDies(c)
  BY <1>1 DEF Reboots, ProgramDies
<1>6. QED
  BY <1>2, <1>3, <1>4, <1>5, StepKinds
-----------------------------------------------------------------------------
(***************************************************************************)
(* The runner gives up nothing that still waits.                           *)
(***************************************************************************)
RunnerKeeps == \A i \in Instances : RunnerWill(i) /\ Waits(i)' => RunnerWill(i)'

OneOperation(s) ==
  \E i \in Instances : s \in {<<On("start", i)>>, <<On("stop", i)>>, <<On("hold", i), On("start", i)>>}

LEMMA RunnerPops ==
  ASSUME NEW s, OneOperation(s), Head(s).do \in {"stop", "hold"}
  PROVE  /\ Tail(s) = <<>> \/ OneOperation(Tail(s))
         /\ \A i : s \in {<<On("start", i)>>, <<On("hold", i), On("start", i)>>}
                     => Tail(s) = <<On("start", i)>>
<1>1. \A i : On("start", i).do = "start" /\ On("stop", i).do = "stop" /\ On("hold", i).do = "hold"
             /\ On("start", i).i = i /\ On("hold", i).i = i
  BY DEF On
<1>2. PICK j \in Instances : s \in {<<On("start", j)>>, <<On("stop", j)>>, <<On("hold", j), On("start", j)>>}
  BY DEF OneOperation
<1>3. s = <<On("stop", j)>> \/ s = <<On("hold", j), On("start", j)>>
  BY <1>1, <1>2
<1>4. CASE s = <<On("stop", j)>>
  BY <1>1, <1>4
<1>5. CASE s = <<On("hold", j), On("start", j)>>
  BY <1>1, <1>5 DEF OneOperation
<1>6. QED
  BY <1>3, <1>4, <1>5

LEMMA RunnerStarts ==
  ASSUME NEW s, OneOperation(s), Head(s).do \in {"start", "revive"}
  PROVE  /\ Tail(s) = <<>>
         /\ \A i : s \in {<<On("start", i)>>, <<On("hold", i), On("start", i)>>} => Head(s).i = i
<1>1. \A i : On("start", i).do = "start" /\ On("stop", i).do = "stop" /\ On("hold", i).do = "hold"
             /\ On("start", i).i = i /\ On("hold", i).i = i
  BY DEF On
<1>2. PICK j \in Instances : s = <<On("start", j)>>
  BY <1>1 DEF OneOperation
<1>3. QED
  BY <1>1, <1>2

LEMMA RunnerCalls ==
  ASSUME RInv, FewPlans, HeldIsDown, ~ Fault, Calling("runner")
  PROVE  FewPlans' /\ RunnerKeeps
<1> DEFINE r == "runner"
<1>0. r \in Programs /\ plan \in [Programs -> Seq(Calls)] /\ "boot" \in Programs
      /\ rec \in [Instances -> [desired : {"running", "stopped"}, maint : BOOLEAN, phase : Phases]]
  BY DEF Programs, RInv, PlansHaveShape, RigTypeOK
<1>1. PICK i \in Instances :
      \/ StopBegins(r, i) \/ StopKills(r, i) \/ StopEnds(r, i)
      \/ StartFinds(r, i) \/ StartRefuses(r, i) \/ StartPrepares(r, i) \/ StartLaunches(r, i)
      \/ RestartChecks(r, i)
  BY DEF Calling
<1>2. plan[r] # <<>> => OneOperation(plan[r])
  BY DEF FewPlans, OneOperation
<1>3. CASE StopBegins(r, i) \/ StopKills(r, i) \/ StartPrepares(r, i)
  <2>1. plan' = plan
    BY <1>3 DEF StopBegins, StopKills, StartPrepares, programs
  <2>2. QED
    BY <2>1 DEF FewPlans, RunnerKeeps, RunnerWill
<1>4. CASE StopEnds(r, i)
  <2>1. plan[r] # <<>> /\ Head(plan[r]).do \in {"stop", "hold"}
        /\ plan' = [plan EXCEPT ![r] = Tail(plan[r])]
    BY <1>0, <1>4 DEF StopEnds, Holds, Done, RInv, CallsUnderWay
  <2>2. plan'[r] = Tail(plan[r]) /\ plan'["boot"] = plan["boot"]
    BY <1>0, <2>1
  <2>3. QED
    BY <1>2, <2>1, <2>2, RunnerPops DEF FewPlans, OneOperation, RunnerKeeps, RunnerWill
<1>5. CASE StartFinds(r, i) \/ StartRefuses(r, i) \/ StartLaunches(r, i)
  <2>1. plan[r] # <<>> /\ Head(plan[r]).do \in {"start", "revive"} /\ Head(plan[r]).i = i
    BY <1>0, <1>5 DEF StartFinds, StartRefuses, StartLaunches, Takes, AtOn, At, Holds, RInv, CallsUnderWay
  <2>2. Tail(plan[r]) = <<>>
    BY <1>2, <2>1, RunnerStarts
  <2>3. plan' = [plan EXCEPT ![r] = <<>>]
    BY <1>5, <2>2 DEF StartFinds, StartRefuses, StartLaunches, Done, Raises
  <2>4. plan'[r] = <<>> /\ plan'["boot"] = plan["boot"]
    BY <1>0, <2>3
  <2>5. ~ Waits(i)'
    <3>1. CASE StartFinds(r, i)
      BY <1>0, <3>1 DEF StartFinds, Waits
    <3>2. CASE StartRefuses(r, i)
      BY <3>2 DEF StartRefuses, Takes, HeldIsDown, Waits, records
    <3>3. CASE StartLaunches(r, i)
      BY <1>0, <3>3 DEF StartLaunches, HeldIsDown, Waits, records
    <3>4. QED
      BY <1>5, <3>1, <3>2, <3>3
  <2>6. \A j \in Instances : RunnerWill(j) => j = i
    BY <1>2, <2>1, RunnerStarts DEF RunnerWill
  <2>7. QED
    BY <2>4, <2>5, <2>6 DEF FewPlans, RunnerKeeps
<1>6. ~ RestartChecks(r, i)
  <2>1. ASSUME OneOperation(plan[r]) PROVE Head(plan[r]).do # "check"
    BY <2>1 DEF OneOperation, On
  <2>2. QED
    BY <1>2, <2>1 DEF RestartChecks, AtOn, At
<1>7. QED
  BY <1>1, <1>3, <1>4, <1>5, <1>6

LEMMA RunnerKept ==
  ASSUME RInv, FewPlans, HeldIsDown, RigNext, faults' = 0
  PROVE  FewPlans' /\ RunnerKeeps
<1>0. plan \in [Programs -> Seq(Calls)]
  BY DEF RInv, PlansHaveShape
<1>1. CASE Calling("runner")
  BY <1>1, RunnerCalls, CalmSteps
<1>2. CASE Watchdog
  <2>1. plan'["runner"] = plan["runner"] /\ plan'["boot"] = plan["boot"]
    BY <1>0, <1>2 DEF Watchdog, WatchdogTicks, WatchdogMisses, WatchdogRevives, WatchdogDisapproves,
       WatchdogRestarts, WatchdogIsContent, HotChecks, CoolChecks, GuardFindsHot, GuardFindsCool,
       GuardWaits, SavesPaused, ClearsPaused, Calling, StopBegins, StopKills, StopEnds, StartFinds,
       StartRefuses, StartPrepares, StartLaunches, RestartChecks, Done, DoFirst, Raises, Programs, programs
  <2>2. QED
    BY <2>1 DEF FewPlans, RunnerKeeps, RunnerWill
<1>3. ASSUME NEW op \in Operations, NEW i \in Instances, RunnerBegins(op, i)
      PROVE  FewPlans' /\ RunnerKeeps
  <2>1. plan["runner"] = <<>> /\ plan'["boot"] = plan["boot"]
        /\ plan'["runner"] = CASE op = "start" -> <<On("start", i)>>
                               [] op = "stop" -> <<On("stop", i)>>
                               [] op = "restart" -> <<On("hold", i), On("start", i)>>
    BY <1>0, <1>3 DEF RunnerBegins, Programs
  <2>2. op \in {"start", "stop", "restart"}
    BY RigAssumption
  <2>3. \A j : ~ RunnerWill(j)
    BY <2>1 DEF RunnerWill
  <2>4. QED
    BY <2>1, <2>2, <2>3 DEF FewPlans, RunnerKeeps
<1>4. ASSUME NEW i \in Instances,
             Supervisor(i) \/ MinerExits(i) \/ WarmUpEnds(i) \/ RecoveryAges(i)
      PROVE  FewPlans' /\ RunnerKeeps
  <2>1. plan' = plan
    BY <1>4 DEF Supervisor, Registers, LoopChecks, AfterExit, CooldownEnds, MinerExits, WarmUpEnds,
         RecoveryAges, programs
  <2>2. QED
    BY <2>1 DEF FewPlans, RunnerKeeps, RunnerWill
<1>5. QED
  BY <1>1, <1>2, <1>3, <1>4, CalmSteps
-----------------------------------------------------------------------------
(***************************************************************************)
(* How an instance comes to wait, and what becomes of its phase then.      *)
(***************************************************************************)
HoldBegins(c, i) == StopBegins(c, i) /\ Head(plan[c]).do = "hold"

Remains(i) ==
  Waits(i) /\ (rec'[i].phase \in {rec[i].phase, "stopped"} \/ RunnerWill(i))

RecordMoves ==
  \A i \in Instances : \/ ~ Waits(i)'
                       \/ \E c \in Programs : HoldBegins(c, i)
                       \/ Remains(i)

LEMMA CallsMoveRecords ==
  ASSUME RInv, HeldIsDown, ~ Fault, NEW c \in Programs, Calling(c)
  PROVE  RecordMoves
<1>0. rec \in [Instances -> [desired : {"running", "stopped"}, maint : BOOLEAN, phase : Phases]]
  BY DEF RInv, RigTypeOK
<1>1. PICK i \in Instances :
      \/ StopBegins(c, i) \/ StopKills(c, i) \/ StopEnds(c, i)
      \/ StartFinds(c, i) \/ StartRefuses(c, i) \/ StartPrepares(c, i) \/ StartLaunches(c, i)
      \/ RestartChecks(c, i)
  BY DEF Calling
<1>2. CASE StopBegins(c, i)
  <2>1. \A j \in Instances \ {i} : rec'[j] = rec[j]
    BY <1>0, <1>2 DEF StopBegins
  <2>2. ~ HoldBegins(c, i) => ~ Waits(i)'
    BY <1>0, <1>2 DEF StopBegins, Takes, AtOn, At, HoldBegins, Waits
  <2>3. QED
    BY <2>1, <2>2 DEF RecordMoves, Remains, Waits
<1>3. CASE StopEnds(c, i)
  <2>1. rec'[i].desired = rec[i].desired /\ rec'[i].maint = rec[i].maint /\ rec'[i].phase = "stopped"
        /\ \A j \in Instances \ {i} : rec'[j] = rec[j]
    BY <1>0, <1>3 DEF StopEnds
  <2>2. QED
    BY <2>1 DEF RecordMoves, Remains, Waits
<1>4. CASE StartFinds(c, i) \/ StartPrepares(c, i)
  <2>1. ~ rec'[i].maint /\ \A j \in Instances \ {i} : rec'[j] = rec[j]
    BY <1>0, <1>4 DEF StartFinds, StartPrepares
  <2>2. QED
    BY <2>1 DEF RecordMoves, Remains, Waits
<1>5. CASE StopKills(c, i) \/ StartRefuses(c, i) \/ StartLaunches(c, i) \/ RestartChecks(c, i)
  BY <1>5 DEF StopKills, StartRefuses, StartLaunches, RestartChecks, records, RecordMoves, Remains, Waits
<1>6. QED
  BY <1>1, <1>2, <1>3, <1>4, <1>5

LEMMA RecordsMove ==
  ASSUME RInv, FewPlans, HeldIsDown, DecidedAwake, RigNext, faults' = 0
  PROVE  RecordMoves
<1>0. rec \in [Instances -> [desired : {"running", "stopped"}, maint : BOOLEAN, phase : Phases]]
      /\ plan \in [Programs -> Seq(Calls)] /\ "watchdog" \in Programs
      /\ sup \in [Instances -> SupStages]
  BY DEF RInv, RigTypeOK, PlansHaveShape, Programs
<1>1. ASSUME NEW c \in Programs, Calling(c) PROVE RecordMoves
  BY <1>1, CallsMoveRecords, CalmSteps
<1>2. ASSUME NEW i \in Instances, WatchdogRevives(i) \/ WatchdogRestarts(i) PROVE RecordMoves
  <2>1. Waits(i) => RunnerWill(i)
    BY <1>0, <1>2 DEF WatchdogRevives, WatchdogRestarts, AtOn, At, DecidedAwake
  <2>2. \A j \in Instances \ {i} : rec'[j] = rec[j]
    BY <1>0, <1>2 DEF WatchdogRevives, WatchdogRestarts, SetPhase
  <2>3. rec'[i].desired = rec[i].desired /\ rec'[i].maint = rec[i].maint
    BY <1>0, <1>2 DEF WatchdogRevives, WatchdogRestarts, SetPhase
  <2>4. QED
    BY <2>1, <2>2, <2>3 DEF RecordMoves, Remains, Waits
<1>3. ASSUME rec' = rec PROVE RecordMoves
  BY <1>3 DEF RecordMoves, Remains, Waits
<1>4. CASE Watchdog
  <2>1. \/ Calling("watchdog") \/ rec' = rec
        \/ \E i \in Instances : WatchdogRevives(i) \/ WatchdogRestarts(i)
    BY <1>4 DEF Watchdog, WatchdogTicks, WatchdogMisses, WatchdogDisapproves,
       WatchdogIsContent, HotChecks, CoolChecks, GuardFindsHot, GuardFindsCool,
       GuardWaits, SavesPaused, ClearsPaused, records
  <2>2. QED
    BY <1>0, <1>1, <1>2, <1>3, <2>1
<1>5. ASSUME NEW op \in Operations, NEW i \in Instances, RunnerBegins(op, i) PROVE RecordMoves
  BY <1>3, <1>5 DEF RunnerBegins, records
<1>6. ASSUME NEW i \in Instances,
             Supervisor(i) \/ MinerExits(i) \/ WarmUpEnds(i) \/ RecoveryAges(i)
      PROVE  RecordMoves
  <2>1. rec' = rec \/ LoopChecks(i) \/ AfterExit(i)
    BY <1>6 DEF Supervisor, Registers, CooldownEnds, MinerExits, WarmUpEnds, RecoveryAges, records
  <2>2. CASE rec' # rec
    <3>1. i \notin stopFile
      BY <2>1, <2>2 DEF LoopChecks, AfterExit, StopWanted
    <3>2. ~ rec[i].maint
      BY <3>1 DEF HeldIsDown
    <3>3. \E p : rec' = [rec EXCEPT ![i].phase = p]
      BY <2>1, <2>2 DEF LoopChecks, AfterExit, SetPhase
    <3>4. ~ rec'[i].maint /\ \A j \in Instances \ {i} : rec'[j] = rec[j]
      BY <1>0, <3>2, <3>3
    <3>5. QED
      BY <3>4 DEF RecordMoves, Remains, Waits
  <2>3. QED
    BY <1>3, <2>2
<1>7. QED
  BY <1>1, <1>4, <1>5, <1>6, CalmSteps DEF Programs

\* A lock the watchdog has it keeps, or what it had it for is done.
LEMMA LocksLast ==
  ASSUME RInv, HeldIsDown, FewPlans, RigNext, faults' = 0, NEW i \in Instances, control[i] = "watchdog"
  PROVE  control'[i] = "watchdog" \/ rec'[i].phase = "stopped" \/ ~ Waits(i)'
<1>0. rec \in [Instances -> [desired : {"running", "stopped"}, maint : BOOLEAN, phase : Phases]]
      /\ control \in [Instances -> Programs \cup {"free"}]
  BY DEF RInv, RigTypeOK
<1>1. ASSUME NEW c \in Programs, Calling(c)
      PROVE  control'[i] = "watchdog" \/ rec'[i].phase = "stopped" \/ ~ Waits(i)'
  <2>1. PICK j \in Instances :
      \/ StopBegins(c, j) \/ StopKills(c, j) \/ StopEnds(c, j)
      \/ StartFinds(c, j) \/ StartRefuses(c, j) \/ StartPrepares(c, j) \/ StartLaunches(c, j)
      \/ RestartChecks(c, j)
    BY <1>1 DEF Calling
  <2>2. CASE StopBegins(c, j) \/ StartPrepares(c, j)
    BY <1>0, <2>2 DEF StopBegins, StartPrepares, Takes
  <2>3. CASE StopEnds(c, j)
    BY <1>0, <2>3 DEF StopEnds
  <2>4. CASE StartLaunches(c, j)
    BY <1>0, <2>4 DEF StartLaunches, HeldIsDown, Waits, records
  <2>5. CASE StopKills(c, j) \/ StartFinds(c, j) \/ StartRefuses(c, j) \/ RestartChecks(c, j)
    BY <2>5 DEF StopKills, StartFinds, StartRefuses, RestartChecks
  <2>6. QED
    BY <2>1, <2>2, <2>3, <2>4, <2>5
<1>2. CASE Decision \/ \E j \in Instances : Touching(j)
  BY <1>2 DEF Decision, Touching, Supervisor, Registers, LoopChecks, AfterExit, CooldownEnds,
     MinerExits, SupervisorDies, programs
<1>3. ~ Reboots /\ \A c \in Programs : ~ ProgramDies(c)
  BY CalmSteps DEF Reboots, ProgramDies
<1>4. QED
  BY <1>1, <1>2, <1>3, StepKinds

\* What begins to wait is taken care of.
LEMMA HoldsAreCared ==
  ASSUME RInv, FewPlans, WatchdogPlan, NEW c \in Programs, NEW i \in Instances, HoldBegins(c, i)
  PROVE  /\ UNCHANGED <<plan, picked, paused>>
         /\ \/ c = "runner" /\ RunnerWill(i)'
            \/ /\ c = "watchdog" /\ control'[i] = "watchdog" /\ (i \in picked \/ WatchdogWill(i)')
               /\ plan["watchdog"][1].do = "hold"
<1>1. /\ UNCHANGED <<plan, picked, paused>> /\ control'[i] = c
      /\ plan[c] # <<>> /\ Head(plan[c]).do = "hold" /\ Head(plan[c]).i = i
      /\ plan[c] \in Seq(Calls)
  BY DEF HoldBegins, StopBegins, Takes, AtOn, At, RInv, PlansHaveShape, RigTypeOK
<1>2. c # "boot"
  BY <1>1 DEF FewPlans
<1>3. CASE c = "runner"
  <2>1. PICK j \in Instances :
      plan[c] \in {<<On("start", j)>>, <<On("stop", j)>>, <<On("hold", j), On("start", j)>>}
    BY <1>1, <1>3 DEF FewPlans
  <2>2. On("start", j).do = "start" /\ On("stop", j).do = "stop" /\ On("hold", j).i = j
    BY DEF On
  <2>3. plan[c] = <<On("hold", j), On("start", j)>> /\ j = i
    BY <1>1, <2>1, <2>2
  <2>4. QED
    BY <1>1, <1>3, <2>3 DEF RunnerWill
<1>4. CASE c = "watchdog"
  <2>1. plan[c][1] = Head(plan[c]) /\ plan[c][1] \in Calls
    BY <1>1
  <2>2. plan[c][1] = On("hold", i)
    BY <1>1, <2>1 DEF Calls, On
  <2>3. i \in picked \/ (Len(plan[c]) > 1 /\ plan[c][2] = On("revive", i))
    BY <1>1, <1>4, <2>1 DEF WatchdogPlan, WellOrdered
  <2>4. QED
    BY <1>1, <1>4, <2>1, <2>2, <2>3 DEF WatchdogWill
<1>5. QED
  BY <1>2, <1>3, <1>4 DEF Programs

LEMMA WaitersStop ==
  ASSUME RInv, Calm, RigNext, faults' = 0
  PROVE  WaitsStopped'
<1> SUFFICES ASSUME NEW i \in Instances, Waits(i)', rec'[i].phase # "stopped"
             PROVE  RunnerWill(i)' \/ control'[i] = "watchdog"
  BY DEF WaitsStopped
<1>1. RunnerKeeps /\ RecordMoves
  BY RunnerKept, RecordsMove DEF Calm
<1>2. CASE \E c \in Programs : HoldBegins(c, i)
  BY <1>2, HoldsAreCared DEF Calm
<1>3. CASE Remains(i)
  <2>1. RunnerWill(i) \/ control[i] = "watchdog"
    BY <1>3 DEF Remains, Calm, WaitsStopped
  <2>2. QED
    BY <1>1, <2>1, LocksLast DEF RunnerKeeps, Calm
<1>4. QED
  BY <1>1, <1>2, <1>3 DEF RecordMoves
-----------------------------------------------------------------------------
(***************************************************************************)
(* The watchdog's plan.  What becomes of its end, and of the instances it  *)
(* has to look at, when a call is done, given up or replaced.              *)
(***************************************************************************)
Ordered(s, p) == s \in Seq(Calls) /\ Shape(s) /\ WellOrdered(s, p)

Shorter(t, s) ==
  /\ LastIs(t, "clear") => LastIs(s, "clear")
  /\ \A i : LookedAt(s, i) /\ s[1] # On("coolCheck", i) => LookedAt(t, i)

\* The first call is dropped.
LEMMA Popped ==
  ASSUME NEW s, NEW p, Ordered(s, p), s # <<>>
  PROVE  /\ s[1].do # "save" => WellOrdered(Tail(s), p)
         /\ s[1].do \in {"guard", "save", "clear"} => WellOrdered(Tail(s), {}) /\ Tail(s) = <<>>
         /\ Shorter(Tail(s), s)
         /\ Tail(s) # <<>> => Tail(s)[1].do \notin {"check", "missing", "bad"}
<1> DEFINE t == Tail(s)
<1>1. /\ s \in Seq(Calls) /\ Len(s) \in Nat /\ Len(s) >= 1
      /\ t \in Seq(Calls) /\ Len(t) = Len(s) - 1
      /\ \A n \in 1..Len(t) : t[n] = s[n + 1]
  BY DEF Ordered
<1> HIDE DEF t
<1>2. \A n \in 2..Len(s) : s[n] = t[n - 1] /\ n - 1 \in 1..Len(t)
  BY <1>1
<1>3. t # <<>> => Len(t) >= 1 /\ t[1] = s[2] /\ t[Len(t)] = s[Len(s)]
  BY <1>1
<1>4. /\ \A n \in 1..Len(s) : s[n].do \in {"guard", "save", "clear"} => n = Len(s)
      /\ \A n \in 1..Len(s) : s[n].do \in {"check", "missing", "stop", "bad"} => n = 1
      /\ \A n \in 1..Len(s) : s[n].do = "hold" => n = 1 \/ (n = 2 /\ s[1].do = "check")
      /\ s[1].do = "check" => Len(s) > 2 /\ s[2] = On("hold", s[1].i) /\ s[3] = On("revive", s[1].i)
      /\ p # {} => s[Len(s)].do = "save"
      /\ \A n \in 1..Len(s) : s[n].do = "hotCheck" => s[Len(s)].do = "save"
  BY DEF Ordered, Shape, WellOrdered, LastIs
<1>5. /\ \A n \in 1..Len(t) : t[n].do \in {"guard", "save", "clear"} => n = Len(t)
      /\ \A n \in 1..Len(t) : t[n].do \notin {"check", "missing", "stop", "bad"}
  BY <1>1, <1>4
<1>6. ASSUME t # <<>>, t[1].do = "hold"
      PROVE  Len(t) > 1 /\ t[2] = On("revive", t[1].i)
  <2>1. 2 \in 1..Len(s) /\ s[2].do = "hold"
    BY <1>1, <1>3, <1>6
  <2>2. s[1].do = "check"
    BY <1>4, <2>1
  <2>3. QED
    BY <1>1, <1>3, <1>4, <2>2 DEF On
<1>7. ASSUME s[1].do # "save", p # {} PROVE LastIs(t, "save")
  BY <1>1, <1>3, <1>4, <1>7 DEF LastIs
<1>8. s[1].do # "save" => WellOrdered(t, p)
  <2>1. ASSUME NEW n \in 1..Len(t), t[n].do = "hotCheck" PROVE t[Len(t)].do = "save"
    <3>1. n + 1 \in 1..Len(s) /\ s[n + 1].do = "hotCheck" /\ t # <<>>
      BY <1>1, <2>1
    <3>2. QED
      BY <1>3, <1>4, <3>1
  <2>2. QED
    BY <1>1, <1>5, <1>6, <1>7, <2>1 DEF WellOrdered
<1>9. s[1].do \in {"guard", "save", "clear"} => t = <<>>
  BY <1>1, <1>4
<1>10. WellOrdered(<<>>, {})
  BY DEF WellOrdered
<1>11. LastIs(t, "clear") => LastIs(s, "clear")
  BY <1>1, <1>3 DEF LastIs
<1>12. ASSUME NEW i, LookedAt(s, i), s[1] # On("coolCheck", i) PROVE LookedAt(t, i)
  <2>1. PICK n \in 1..Len(s) : s[n] = On("coolCheck", i)
    BY <1>12 DEF LookedAt
  <2>2. n \in 2..Len(s)
    BY <1>1, <1>12, <2>1
  <2>3. QED
    BY <1>2, <2>1, <2>2 DEF LookedAt
<1>13. t # <<>> => t[1].do \notin {"check", "missing", "bad"}
  BY <1>1, <1>5
<1>14. QED
  BY <1>8, <1>9, <1>10, <1>11, <1>12, <1>13 DEF Shorter, t

\* A restart is given up.
LEMMA CutOff ==
  ASSUME NEW s, NEW p, Ordered(s, p), s # <<>>, s[1].do = "check"
  PROVE  LET t == SubSeq(s, 4, Len(s)) IN
         /\ WellOrdered(t, p)
         /\ Shorter(t, s)
         /\ t # <<>> => t[1].do \notin {"check", "missing", "bad"}
<1> DEFINE t == SubSeq(s, 4, Len(s))
<1>1. s \in Seq(Calls) /\ Len(s) \in Nat /\ Len(s) >= 3
  BY DEF Ordered, Shape
<1>2. t \in Seq(Calls) /\ Len(t) = Len(s) - 3 /\ \A n \in 1..Len(t) : t[n] = s[n + 3]
  BY <1>1, CutIs
<1> HIDE DEF t
<1>3. \A n \in 4..Len(s) : s[n] = t[n - 3] /\ n - 3 \in 1..Len(t)
  BY <1>1, <1>2
<1>4. t # <<>> => Len(t) >= 1 /\ t[Len(t)] = s[Len(s)]
  BY <1>1, <1>2
<1>5. /\ \A n \in 1..Len(s) : s[n].do \in {"guard", "save", "clear"} => n = Len(s)
      /\ \A n \in 4..Len(s) : s[n].do \notin {"check", "missing", "stop", "bad", "hold"}
      /\ s[1].do = "check" /\ s[2] = On("hold", s[1].i) /\ s[3] = On("revive", s[1].i)
      /\ p # {} => s[Len(s)].do = "save"
      /\ \A n \in 1..Len(s) : s[n].do = "hotCheck" => s[Len(s)].do = "save"
  BY <1>1 DEF Ordered, Shape, WellOrdered, LastIs
<1>6. s[2].do = "hold" /\ s[3].do = "revive"
  BY <1>5 DEF On
<1>7. /\ \A n \in 1..Len(t) : t[n].do \in {"guard", "save", "clear"} => n = Len(t)
      /\ \A n \in 1..Len(t) : t[n].do \notin {"check", "missing", "stop", "bad", "hold"}
  <2>1. \A n \in 1..Len(t) : n + 3 \in 4..Len(s) /\ n + 3 \in 1..Len(s) /\ t[n] = s[n + 3]
    BY <1>1, <1>2
  <2>2. Len(t) = Len(s) - 3
    BY <1>2
  <2>3. ASSUME NEW n \in 1..Len(t), t[n].do \in {"guard", "save", "clear"} PROVE n = Len(t)
    <3>1. n + 3 \in 1..Len(s) /\ s[n + 3].do \in {"guard", "save", "clear"}
      BY <2>1, <2>3
    <3>2. n + 3 = Len(s)
      BY <1>5, <3>1
    <3>3. QED
      BY <1>1, <2>2, <3>2
  <2>4. QED
    BY <1>5, <2>1, <2>3
<1>8. ASSUME p # {} PROVE LastIs(t, "save")
  <2>1. Len(s) # 3
    BY <1>5, <1>6, <1>8
  <2>2. QED
    BY <1>1, <1>2, <1>4, <1>5, <1>8, <2>1 DEF LastIs
<1>9. WellOrdered(t, p)
  <2>1. ASSUME NEW n \in 1..Len(t), t[n].do = "hotCheck" PROVE t[Len(t)].do = "save"
    <3>1. n + 3 \in 1..Len(s) /\ s[n + 3].do = "hotCheck" /\ t # <<>>
      BY <1>1, <1>2, <2>1
    <3>2. QED
      BY <1>4, <1>5, <3>1
  <2>2. QED
    BY <1>1, <1>2, <1>4, <1>7, <1>8, <2>1 DEF WellOrdered
<1>10. LastIs(t, "clear") => LastIs(s, "clear")
  BY <1>1, <1>4 DEF LastIs
<1>11. ASSUME NEW i, LookedAt(s, i) PROVE LookedAt(t, i)
  <2>1. PICK n \in 1..Len(s) : s[n] = On("coolCheck", i)
    BY <1>11 DEF LookedAt
  <2>2. s[n].do = "coolCheck"
    BY <2>1 DEF On
  <2>3. n \in 4..Len(s)
    BY <1>1, <1>5, <1>6, <2>2
  <2>4. QED
    BY <1>3, <2>1, <2>3 DEF LookedAt
<1>12. QED
  BY <1>2, <1>4, <1>7, <1>9, <1>10, <1>11 DEF Shorter, t

\* One call, or a restart, takes the place of the first.
LEMMA Replaced ==
  ASSUME NEW s, NEW p, Ordered(s, p), s # <<>>,
         s[1].do \in {"look", "missing", "bad", "hotCheck", "coolCheck"},
         NEW i \in Instances, NEW d \in {"missing", "bad", "revive", "hold"},
         d = "hold" => s[1].do = "hotCheck"
  PROVE  LET t == <<On(d, i)>> \o Tail(s) IN
         /\ WellOrdered(t, IF d = "hold" THEN p \cup {i} ELSE p) /\ Shorter(t, s)
         /\ t[1] = On(d, i)
<1> DEFINE t == <<On(d, i)>> \o Tail(s)
<1>1. /\ s \in Seq(Calls) /\ Len(s) \in Nat /\ Len(s) >= 1
      /\ Tail(s) \in Seq(Calls) /\ Len(Tail(s)) = Len(s) - 1
      /\ \A n \in 1..Len(Tail(s)) : Tail(s)[n] = s[n + 1]
  BY DEF Ordered
<1>2. PICK r \in Seq(Calls) : r = Tail(s)
  BY <1>1
<1>3. /\ t \in Seq(Calls) /\ Len(t) = Len(s)
      /\ t[1] = On(d, i)
      /\ \A n \in 2..Len(t) : t[n] = s[n]
  BY <1>1, <1>2, CallIsTyped
<1> HIDE DEF t
<1>4. Len(t) >= 1 /\ t # <<>> /\ t[1] = On(d, i) /\ t[1].do = d /\ t[1].i = i
  BY <1>1, <1>3, CallIsTyped
<1>5. s[1].do \notin {"guard", "save", "clear", "check", "hold"}
  OBVIOUS
<1>6. /\ \A n \in 1..Len(s) : s[n].do \in {"guard", "save", "clear"} => n = Len(s)
      /\ \A n \in 1..Len(s) : s[n].do = "bad" => n = 1
      /\ \A n \in 1..Len(s) : s[n].do = "hotCheck" => s[Len(s)].do = "save"
      /\ p # {} => s[Len(s)].do = "save"
  BY DEF Ordered, WellOrdered, LastIs
<1>7. \A e \in {"guard", "save", "clear"} : s[Len(s)].do = e <=> t[Len(t)].do = e
  BY <1>1, <1>3, <1>4, <1>5
<1> DEFINE q == IF d = "hold" THEN p \cup {i} ELSE p
<1>8. WellOrdered(t, q)
  <2>1. ASSUME NEW n \in 1..Len(t), t[n].do \in {"guard", "save", "clear"} PROVE n = Len(t)
    <3>1. n \in 2..Len(t)
      BY <1>1, <1>3, <1>4, <2>1
    <3>2. n \in 1..Len(s) /\ s[n].do \in {"guard", "save", "clear"}
      BY <1>1, <1>3, <2>1, <3>1
    <3>3. QED
      BY <1>3, <1>6, <3>2
  <2>2. ASSUME NEW n \in 1..Len(t), t[n].do = "bad" PROVE n = 1
    <3>1. CASE n \in 2..Len(t)
      BY <1>1, <1>3, <1>6, <2>2, <3>1
    <3>2. QED
      BY <1>1, <1>3, <3>1
  <2>3. ASSUME NEW n \in 1..Len(t), t[n].do = "hotCheck" PROVE t[Len(t)].do = "save"
    <3>0. n # 1
      BY <1>4, <2>3
    <3>1. n \in 2..Len(t)
      BY <3>0
    <3>2. n \in 1..Len(s) /\ s[n].do = "hotCheck"
      BY <1>1, <1>3, <2>3, <3>1
    <3>3. QED
      BY <1>6, <1>7, <3>2
  <2>4. q # {} => s[Len(s)].do = "save"
    <3>1. 1 \in 1..Len(s)
      BY <1>1
    <3>2. CASE d = "hold"
      BY <1>6, <3>1, <3>2
    <3>3. CASE d # "hold"
      BY <1>6, <3>3
    <3>4. QED
      BY <3>2, <3>3
  <2>5. t[1].do = "hold" => t[1].i \in q
    BY <1>4
  <2> HIDE DEF q
  <2>6. q # {} => LastIs(t, "save")
    BY <1>4, <1>7, <2>4 DEF LastIs
  <2>7. QED
    BY <1>4, <2>1, <2>2, <2>3, <2>5, <2>6 DEF WellOrdered
<1>9. Shorter(t, s)
  <2>1. ASSUME NEW j, LookedAt(s, j), s[1] # On("coolCheck", j) PROVE LookedAt(t, j)
    BY <1>1, <1>3, <2>1 DEF LookedAt
  <2>2. QED
    BY <1>4, <1>7, <2>1 DEF Shorter, LastIs
<1>10. QED
  BY <1>4, <1>8, <1>9 DEF t, q

LEMMA RestartAhead ==
  ASSUME NEW s, NEW p, Ordered(s, p), s # <<>>, s[1].do \in {"look", "bad"}, NEW i \in Instances
  PROVE  LET t == WatchdogRestart(i) \o Tail(s) IN
         WellOrdered(t, p) /\ Shorter(t, s) /\ t[1] = On("check", i)
<1> DEFINE t == WatchdogRestart(i) \o Tail(s)
<1>1. /\ s \in Seq(Calls) /\ Len(s) \in Nat /\ Len(s) >= 1
      /\ Tail(s) \in Seq(Calls) /\ Len(Tail(s)) = Len(s) - 1
      /\ \A n \in 1..Len(Tail(s)) : Tail(s)[n] = s[n + 1]
  BY DEF Ordered
<1>2. PICK r \in Seq(Calls) : r = Tail(s)
  BY <1>1
<1>3. /\ t \in Seq(Calls) /\ Len(t) = Len(s) + 2
      /\ t[1] = On("check", i) /\ t[2] = On("hold", i) /\ t[3] = On("revive", i)
      /\ \A n \in 4..Len(t) : t[n] = s[n - 2]
  BY <1>1, <1>2, CallIsTyped DEF WatchdogRestart
<1> HIDE DEF t
<1>4. /\ t # <<>> /\ t[1].do = "check" /\ t[1].i = i /\ t[2].do = "hold" /\ t[3].do = "revive"
      /\ \A n \in 4..Len(t) : n - 2 \in 2..Len(s) /\ n - 2 \in 1..Len(s) /\ t[n] = s[n - 2]
      /\ \A n \in 1..Len(t) : n = 1 \/ n = 2 \/ n = 3 \/ n \in 4..Len(t)
  BY <1>1, <1>3 DEF On
<1>5. s[1].do \notin {"guard", "save", "clear", "hotCheck"}
  OBVIOUS
<1>6. /\ \A n \in 1..Len(s) : s[n].do \in {"guard", "save", "clear"} => n = Len(s)
      /\ \A n \in 1..Len(s) : s[n].do = "bad" => n = 1
      /\ \A n \in 1..Len(s) : s[n].do = "hotCheck" => s[Len(s)].do = "save"
      /\ p # {} => s[Len(s)].do = "save"
  BY DEF Ordered, WellOrdered, LastIs
<1>7. \A e \in {"guard", "save", "clear"} : s[Len(s)].do = e <=> t[Len(t)].do = e
  <2>1. CASE Len(s) = 1
    BY <1>1, <1>3, <1>4, <1>5, <2>1
  <2>2. CASE Len(s) # 1
    BY <1>1, <1>3, <2>2
  <2>3. QED
    BY <2>1, <2>2
<1>8. WellOrdered(t, p)
  <2>1. ASSUME NEW n \in 1..Len(t), t[n].do \in {"guard", "save", "clear"} PROVE n = Len(t)
    <3>1. n \in 4..Len(t) /\ n - 2 \in 1..Len(s) /\ s[n - 2].do \in {"guard", "save", "clear"}
      BY <1>4, <2>1
    <3>2. n - 2 = Len(s)
      BY <1>6, <3>1
    <3>3. QED
      BY <1>1, <1>3, <3>1, <3>2
  <2>2. ASSUME NEW n \in 1..Len(t) PROVE t[n].do # "bad"
    <3>1. CASE n \in 4..Len(t)
      BY <1>4, <1>6, <3>1
    <3>2. QED
      BY <1>4, <3>1
  <2>3. ASSUME NEW n \in 1..Len(t), t[n].do = "hotCheck" PROVE t[Len(t)].do = "save"
    <3>1. n \in 4..Len(t) /\ n - 2 \in 1..Len(s) /\ s[n - 2].do = "hotCheck"
      BY <1>4, <2>3
    <3>2. QED
      BY <1>6, <1>7, <3>1
  <2>4. p # {} => LastIs(t, "save")
    BY <1>4, <1>6, <1>7 DEF LastIs
  <2>5. Len(t) > 2
    BY <1>1, <1>3
  <2>6. QED
    BY <1>3, <1>4, <2>1, <2>2, <2>3, <2>4, <2>5 DEF WellOrdered
<1>9. Shorter(t, s)
  <2>1. ASSUME NEW j, LookedAt(s, j), s[1] # On("coolCheck", j) PROVE LookedAt(t, j)
    <3>1. PICK n \in 1..Len(s) : s[n] = On("coolCheck", j)
      BY <2>1 DEF LookedAt
    <3>2. n + 2 \in 1..Len(t) /\ t[n + 2] = s[n]
      BY <1>1, <1>3, <2>1, <3>1
    <3>3. QED
      BY <3>1, <3>2 DEF LookedAt
  <2>2. LastIs(t, "clear") => LastIs(s, "clear")
    BY <1>7 DEF LastIs
  <2>3. QED
    BY <2>1, <2>2 DEF Shorter
<1>10. QED
  BY <1>3, <1>8, <1>9 DEF t

\* A list of looks with one more call behind it.
LEMMA ListAhead ==
  ASSUME NEW is \in SUBSET Instances, NEW d \in {"look", "hotCheck", "coolCheck"},
         NEW e \in {"guard", "save", "clear"}, d = "hotCheck" => e = "save"
  PROVE  LET t == ForEach(d, is) \o <<Just(e)>> IN
         /\ WellOrdered(t, {})
         /\ t[1].do \in {d, e} /\ LastIs(t, e)
         /\ \A i \in is : d = "coolCheck" => LookedAt(t, i)
<1> DEFINE l == SetToSeq(is)
           q == ForEach(d, is)
           t == q \o <<Just(e)>>
<1>1. IsFiniteSet(is)
  BY RigAssumption, FS_Subset
<1>2. Cardinality(is) \in Nat /\ ExistsBijection(1..Cardinality(is), is)
  BY <1>1, FS_CardinalityType
<1>3. \E f \in [1..Cardinality(is) -> is] : IsInjective(f)
  BY <1>2 DEF ExistsBijection, Bijection, Injection, IsInjective
<1>4. l \in [1..Cardinality(is) -> is] /\ IsInjective(l)
  BY <1>3 DEF SetToSeq
<1>5. l \in Seq(is) /\ Len(l) = Cardinality(is)
  BY <1>2, <1>4
<1>6. q = [n \in 1..Len(l) |-> On(d, l[n])]
  BY DEF ForEach
<1> HIDE DEF l
<1>7. \A i \in is : \E n \in 1..Len(l) : l[n] = i
  <2> DEFINE N == 1..Cardinality(is)
             R == {l[n] : n \in N}
  <2>1. IsFiniteSet(N) /\ Cardinality(N) = Cardinality(is)
    BY <1>2, FS_Interval
  <2>2. l \in Surjection(N, R) /\ l \in Injection(N, R)
    BY <1>4 DEF Surjection, Injection, IsInjective
  <2>3. R \in SUBSET is
    BY <1>4
  <2> HIDE DEF N, R
  <2>4. IsFiniteSet(R) /\ Cardinality(R) = Cardinality(is)
    BY <2>1, <2>2, FS_Surjection
  <2>5. R = is
    BY <1>1, <2>3, <2>4, FS_Subset
  <2>6. QED
    BY <1>5, <2>5 DEF N, R
<1>8. q \in Seq(Calls) /\ Len(q) = Len(l) /\ \A n \in 1..Len(q) : q[n] = On(d, l[n])
  BY <1>5, <1>6, ForEachIsPassive
<1> HIDE DEF q
<1>9. Just(e) \in Calls /\ Just(e).do = e
  BY JustIsTyped
<1>10. /\ t \in Seq(Calls) /\ Len(t) = Len(q) + 1 /\ Len(q) \in Nat
       /\ t[Len(t)] = Just(e)
       /\ \A n \in 1..Len(q) : t[n] = On(d, l[n])
  <2>1. PICK T : T = Calls
    OBVIOUS
  <2>2. PICK c \in T : c = Just(e)
    BY <1>9, <2>1
  <2>3. q \in Seq(T) /\ Len(q) \in Nat /\ t = q \o <<c>>
    BY <1>8, <2>1, <2>2
  <2> HIDE DEF t
  <2>4. t \in Seq(T) /\ Len(t) = Len(q) + 1 /\ t[Len(t)] = c /\ \A n \in 1..Len(q) : t[n] = q[n]
    BY <2>3
  <2>5. QED
    BY <1>8, <2>1, <2>2, <2>3, <2>4
<1> HIDE DEF t
<1>11. \A n \in 1..Len(q) : t[n].do = d
  <2>1. \A x : On(d, x).do = d
    BY DEF On
  <2>2. QED
    BY <1>10, <2>1, Zenon
<1>12. \A n \in 1..Len(t) : n \in 1..Len(q) \/ n = Len(t)
  BY <1>10
<1>13. t # <<>> /\ 1 \in 1..Len(t) /\ t[1].do \in {d, e} /\ LastIs(t, e)
  BY <1>9, <1>10, <1>11, <1>12 DEF LastIs
<1>14. WellOrdered(t, {})
  BY <1>9, <1>10, <1>11, <1>12, <1>13 DEF WellOrdered
<1>15. ASSUME NEW i \in is, d = "coolCheck" PROVE LookedAt(t, i)
  <2>1. PICK n \in 1..Len(l) : l[n] = i
    BY <1>7
  <2>2. n \in 1..Len(t) /\ t[n] = On("coolCheck", i)
    BY <1>8, <1>10, <1>15, <2>1
  <2>3. QED
    BY <2>2 DEF LookedAt
<1>16. QED
  BY <1>13, <1>14, <1>15 DEF t, q
-----------------------------------------------------------------------------
(***************************************************************************)
(* Whatever happens to the watchdog's plan, what waits stays cared for.    *)
(***************************************************************************)
PlansCalm == WatchdogPlan /\ DecidedAwake /\ ListIsWorkedOff /\ NoneForgotten

WatchdogKeeps == \A i \in Instances : WatchdogWill(i) /\ Waits(i)' => WatchdogWill(i)'

Steady == RInv /\ Calm /\ RunnerKeeps /\ RecordMoves

LEMMA PlanIsOrdered ==
  ASSUME RInv, Calm
  PROVE  Ordered(plan["watchdog"], picked)
BY DEF RInv, Calm, PlansHaveShape, WatchdogPlan, Ordered, Programs

LEMMA CaredKept ==
  ASSUME Steady, WatchdogKeeps, NEW i \in Instances, Cared(i)
  PROVE  Cared(i)' \/ (i \in picked /\ UNCHANGED <<plan, picked, paused>>)
<1> SUFFICES ASSUME Waits(i)'
             PROVE  \/ RunnerWill(i)' \/ WatchdogWill(i)'
                    \/ i \in picked /\ UNCHANGED <<plan, picked, paused>>
  BY DEF Cared
<1>1. CASE \E c \in Programs : HoldBegins(c, i)
  BY <1>1, HoldsAreCared DEF Steady, Calm
<1>2. CASE Remains(i)
  BY <1>2 DEF Remains, Cared, Steady, RunnerKeeps, WatchdogKeeps
<1>3. QED
  BY <1>1, <1>2 DEF Steady, RecordMoves

LEMMA ListsKept ==
  ASSUME Steady, WatchdogKeeps,
         LastIs(plan["watchdog"], "clear")' =>
           /\ LastIs(plan["watchdog"], "clear") /\ paused' = paused
           /\ \A i \in Instances :
                LookedAt(plan["watchdog"], i) => LookedAt(plan["watchdog"], i)' \/ Cared(i)',
         paused \cup picked \subseteq (paused \cup picked)'
  PROVE  ListIsWorkedOff' /\ NoneForgotten'
<1>1. NoneForgotten'
  <2> SUFFICES ASSUME NEW i \in Instances PROVE i \in (paused \cup picked)' \/ Cared(i)'
    BY DEF NoneForgotten
  <2>1. i \in paused \cup picked \/ Cared(i)
    BY DEF Steady, Calm, NoneForgotten
  <2>2. QED
    BY <2>1, CaredKept
<1>2. ASSUME LastIs(plan["watchdog"], "clear")', NEW i \in paused'
      PROVE  LookedAt(plan["watchdog"], i)' \/ Cared(i)'
  <2>1. i \in paused /\ i \in Instances /\ LastIs(plan["watchdog"], "clear")
    BY <1>2 DEF Steady, RInv, RigTypeOK
  <2>2. picked = {}
    BY <2>1 DEF Steady, Calm, WatchdogPlan, WellOrdered, LastIs
  <2>3. LookedAt(plan["watchdog"], i) \/ Cared(i)
    BY <2>1 DEF Steady, Calm, ListIsWorkedOff
  <2>4. Cared(i) => Cared(i)'
    BY <2>1, <2>2, CaredKept
  <2>5. QED
    BY <1>2, <2>1, <2>3, <2>4
<1>3. QED
  BY <1>1, <1>2 DEF ListIsWorkedOff

\* The plan stays as it is.
LEMMA SameIsCalm ==
  ASSUME Steady, plan'["watchdog"] = plan["watchdog"], UNCHANGED <<paused, picked>>
  PROVE  PlansCalm'
<1>1. WatchdogKeeps
  BY DEF WatchdogKeeps, WatchdogWill
<1>2. ListIsWorkedOff' /\ NoneForgotten'
  BY <1>1, ListsKept DEF LookedAt, LastIs
<1>3. DecidedAwake'
  <2> SUFFICES ASSUME plan["watchdog"] # <<>>,
                      plan["watchdog"][1].do \in {"missing", "bad", "check"},
                      Waits(plan["watchdog"][1].i)'
               PROVE  RunnerWill(plan["watchdog"][1].i)'
    BY DEF DecidedAwake, Waits, RunnerWill
  <2> DEFINE i == plan["watchdog"][1].i
  <2>1. i \in Instances
    <3>1. plan["watchdog"] \in Seq(Calls)
      BY PlanIsOrdered DEF Steady, Ordered
    <3>2. plan["watchdog"][1] \in Calls
      BY <3>1
    <3>3. QED
      BY <3>2 DEF Calls
  <2> HIDE DEF i
  <2>2. CASE \E c \in Programs : HoldBegins(c, i)
    BY <2>1, <2>2, HoldsAreCared DEF Steady, Calm, i
  <2>3. CASE Remains(i)
    BY <2>1, <2>3 DEF Remains, Steady, Calm, DecidedAwake, RunnerKeeps, i
  <2>4. QED
    BY <2>1, <2>2, <2>3 DEF Steady, RecordMoves, i
<1>4. WatchdogPlan'
  BY DEF Steady, Calm, WatchdogPlan, WellOrdered
<1>5. QED
  BY <1>2, <1>3, <1>4 DEF PlansCalm

\* The first call is done with, or a restart given up.
LEMMA DoneIsCalm ==
  ASSUME Steady, WatchdogKeeps, plan["watchdog"] # <<>>, plan["watchdog"][1].do # "clear",
         \/ plan'["watchdog"] = Tail(plan["watchdog"])
         \/ /\ plan["watchdog"][1].do = "check"
            /\ plan'["watchdog"] = SubSeq(plan["watchdog"], 4, Len(plan["watchdog"])),
         IF plan["watchdog"][1].do = "save"
         THEN picked' = {} /\ paused' = paused \cup picked
         ELSE UNCHANGED <<paused, picked>>,
         \A i \in Instances : plan["watchdog"][1] = On("coolCheck", i) => Cared(i)'
  PROVE  PlansCalm'
<1> DEFINE s == plan["watchdog"]
           t == plan'["watchdog"]
<1>1. Ordered(s, picked)
  BY PlanIsOrdered DEF Steady
<1>2. WellOrdered(t, picked') /\ Shorter(t, s) /\ (t # <<>> => t[1].do \notin {"check", "missing", "bad"})
      /\ (s[1].do = "save" => t = <<>>)
  <2>1. CASE t = Tail(s)
    BY <1>1, <2>1, Popped
  <2>2. CASE s[1].do = "check" /\ t = SubSeq(s, 4, Len(s))
    BY <1>1, <2>2, CutOff
  <2>3. QED
    BY <2>1, <2>2
<1>3. WatchdogPlan' /\ DecidedAwake'
  BY <1>2 DEF WatchdogPlan, DecidedAwake
<1>4. s[1].do = "save" => ~ LastIs(t, "clear")
  BY <1>2 DEF LastIs
<1>5. ListIsWorkedOff' /\ NoneForgotten'
  BY <1>2, <1>4, ListsKept DEF Shorter
<1>6. QED
  BY <1>3, <1>5 DEF PlansCalm

\* A call, or a restart, takes the place of a look.
LEMMA ReplacedIsCalm ==
  ASSUME Steady, plan["watchdog"] # <<>>,
         plan["watchdog"][1].do \in {"look", "missing", "bad", "hotCheck", "coolCheck"},
         NEW i \in Instances, NEW d \in {"missing", "bad", "revive", "hold"},
         d = "hold" => plan["watchdog"][1].do = "hotCheck",
         plan'["watchdog"] = <<On(d, i)>> \o Tail(plan["watchdog"]),
         picked' = (IF d = "hold" THEN picked \cup {i} ELSE picked), paused' = paused,
         d \in {"missing", "bad"} => (Waits(i)' => RunnerWill(i)'),
         \A j \in Instances : plan["watchdog"][1] = On("coolCheck", j) => Cared(j)'
  PROVE  PlansCalm'
<1> DEFINE s == plan["watchdog"]
           t == plan'["watchdog"]
<1>1. Ordered(s, picked) /\ s \in Seq(Calls) /\ s # <<>>
      /\ s[1].do \in {"look", "missing", "bad", "hotCheck", "coolCheck"}
      /\ (d = "hold" => s[1].do = "hotCheck") /\ t = <<On(d, i)>> \o Tail(s)
  BY PlanIsOrdered DEF Steady, Ordered
<1> HIDE DEF s, t
<1>2. /\ WellOrdered(t, IF d = "hold" THEN picked \cup {i} ELSE picked) /\ Shorter(t, s)
      /\ t[1] = On(d, i)
  BY <1>1, Replaced, Zenon
<1>3. WellOrdered(t, picked')
  BY <1>2, Zenon
<1> USE DEF s, t
<1>4. t[1].do = d /\ t[1].i = i
  BY <1>2, CallIsTyped
<1>5. WatchdogPlan' /\ DecidedAwake'
  BY <1>3, <1>4 DEF WatchdogPlan, DecidedAwake
<1>6. WatchdogKeeps
  BY DEF WatchdogKeeps, WatchdogWill, On
<1>7. ListIsWorkedOff' /\ NoneForgotten'
  <2>1. d = "hold" => ~ LastIs(s, "clear")
    <3>1. ASSUME d = "hold" PROVE s[Len(s)].do = "save"
      <4>1. 1 \in 1..Len(s) /\ s[1].do = "hotCheck"
        BY <1>1, <3>1
      <4>2. QED
        BY <1>1, <4>1 DEF Ordered, WellOrdered
    <3>2. QED
      BY <3>1 DEF LastIs
  <2>2. paused \cup picked \subseteq (paused \cup picked)'
    OBVIOUS
  <2>3. LastIs(t, "clear") =>
          LastIs(s, "clear") /\ \A j \in Instances : LookedAt(s, j) => LookedAt(t, j) \/ Cared(j)'
    BY <1>2 DEF Shorter
  <2> HIDE DEF s, t
  <2>4. QED
    BY <1>6, <2>2, <2>3, ListsKept DEF s, t
<1>8. QED
  BY <1>5, <1>7 DEF PlansCalm

LEMMA RestartIsCalm ==
  ASSUME Steady, plan["watchdog"] # <<>>, plan["watchdog"][1].do \in {"look", "bad"},
         NEW i \in Instances,
         plan'["watchdog"] = WatchdogRestart(i) \o Tail(plan["watchdog"]),
         UNCHANGED <<picked, paused>>, Waits(i)' => RunnerWill(i)'
  PROVE  PlansCalm'
<1> DEFINE s == plan["watchdog"]
           t == plan'["watchdog"]
<1>1. Ordered(s, picked)
  BY PlanIsOrdered DEF Steady
<1>2. WellOrdered(t, picked) /\ Shorter(t, s) /\ t[1] = On("check", i)
  BY <1>1, RestartAhead
<1>3. t[1].i = i
  <2>1. On("check", i).i = i
    BY DEF On
  <2>2. QED
    BY <1>2, <2>1, Zenon
<1>4. WatchdogPlan' /\ DecidedAwake'
  BY <1>2, <1>3 DEF WatchdogPlan, DecidedAwake
<1>5. WatchdogKeeps /\ \A j : s[1] # On("coolCheck", j)
  BY DEF WatchdogKeeps, WatchdogWill, On
<1>6. LastIs(t, "clear") =>
        LastIs(s, "clear") /\ \A j \in Instances : LookedAt(s, j) => LookedAt(t, j)
  BY <1>2, <1>5 DEF Shorter
<1> HIDE DEF s, t
<1>7. ListIsWorkedOff' /\ NoneForgotten'
  BY <1>5, <1>6, ListsKept DEF s, t
<1>8. QED
  BY <1>4, <1>7 DEF PlansCalm

\* A new round begins: the looks, or the checks of the thermal guard.
LEMMA ListIsCalm ==
  ASSUME Steady,
         \/ plan["watchdog"] = <<>>
         \/ plan["watchdog"] # <<>> /\ plan["watchdog"][1].do = "guard",
         NEW is \in SUBSET Instances, NEW d \in {"look", "hotCheck", "coolCheck"},
         NEW e \in {"guard", "save", "clear"}, d = "hotCheck" => e = "save",
         e = "clear" => d = "coolCheck" /\ is = paused,
         plan'["watchdog"] = ForEach(d, is) \o <<Just(e)>>,
         paused' = paused, picked' = picked \/ picked' = {}
  PROVE  PlansCalm'
<1> DEFINE s == plan["watchdog"]
           t == plan'["watchdog"]
<1>1. Ordered(s, picked) /\ s \in Seq(Calls)
  BY PlanIsOrdered DEF Steady, Ordered
<1>2. picked = {}
  <2>1. CASE s = <<>>
    BY <1>1, <2>1 DEF Ordered, WellOrdered, LastIs
  <2>2. CASE s # <<>> /\ s[1].do = "guard"
    <3>1. 1 \in 1..Len(s)
      BY <1>1, <2>2
    <3>2. Len(s) = 1
      BY <1>1, <2>2, <3>1 DEF Ordered, WellOrdered
    <3>3. QED
      BY <1>1, <2>2, <3>2 DEF Ordered, WellOrdered, LastIs
  <2>3. QED
    BY <2>1, <2>2
<1>3. WellOrdered(t, {}) /\ t[1].do \in {d, e} /\ LastIs(t, e)
      /\ \A i \in is : d = "coolCheck" => LookedAt(t, i)
  BY ListAhead
<1>4. WatchdogPlan' /\ DecidedAwake'
  BY <1>2, <1>3 DEF WatchdogPlan, DecidedAwake
<1>5. ListIsWorkedOff'
  BY <1>3 DEF ListIsWorkedOff, LastIs
<1>6. WatchdogKeeps
  BY DEF WatchdogKeeps, WatchdogWill, On
<1>7. NoneForgotten'
  <2> SUFFICES ASSUME NEW i \in Instances PROVE i \in (paused \cup picked)' \/ Cared(i)'
    BY DEF NoneForgotten
  <2>1. i \in paused \/ Cared(i)
    BY <1>2 DEF Steady, Calm, NoneForgotten
  <2>2. QED
    BY <1>2, <1>6, <2>1, CaredKept
<1>8. QED
  BY <1>4, <1>5, <1>7 DEF PlansCalm

\* The list is cleared: whatever was on it has been looked at, and is cared for.
LEMMA ClearIsCalm ==
  ASSUME Steady, plan["watchdog"] # <<>>, plan["watchdog"][1].do = "clear",
         plan'["watchdog"] = Tail(plan["watchdog"]), paused' = {}, picked' = picked
  PROVE  PlansCalm'
<1> DEFINE s == plan["watchdog"]
           t == plan'["watchdog"]
<1>1. Ordered(s, picked) /\ s \in Seq(Calls)
  BY PlanIsOrdered DEF Steady, Ordered
<1>2. WellOrdered(t, picked) /\ t = <<>>
  BY <1>1, Popped
<1>3. Len(s) = 1 /\ LastIs(s, "clear")
  <2>1. 1 \in 1..Len(s)
    BY <1>1
  <2>2. Len(s) = 1
    BY <1>1, <2>1 DEF Ordered, WellOrdered
  <2>3. QED
    BY <2>2 DEF LastIs
<1>4. picked = {}
  BY <1>1, <1>3 DEF Ordered, WellOrdered, LastIs
<1>5. \A i : ~ LookedAt(s, i)
  BY <1>3 DEF LookedAt, On
<1>6. WatchdogKeeps
  BY DEF WatchdogKeeps, WatchdogWill, On
<1>7. NoneForgotten'
  <2> SUFFICES ASSUME NEW i \in Instances PROVE Cared(i)'
    BY DEF NoneForgotten
  <2>1. Cared(i)
    BY <1>3, <1>4, <1>5 DEF Steady, Calm, NoneForgotten, ListIsWorkedOff
  <2>2. QED
    BY <1>4, <1>6, <2>1, CaredKept
<1>8. QED
  BY <1>2, <1>7 DEF PlansCalm, WatchdogPlan, DecidedAwake, ListIsWorkedOff, LastIs

LEMMA SecondCall ==
  ASSUME NEW s \in Seq(Calls), Len(s) > 1
  PROVE  Tail(s) # <<>> /\ Tail(s)[1] = s[2]
<1>0. Len(<<>>) = 0
  OBVIOUS
<1>1. s # <<>> /\ Len(s) \in Nat
  <2>1. Len(s) \in Nat
    OBVIOUS
  <2>2. s = <<>> => Len(s) = 0
    BY <1>0, Zenon
  <2>3. QED
    BY <2>1, <2>2
<1>2. PICK t \in Seq(Calls) : t = Tail(s)
  <2>1. Tail(s) \in Seq(Calls)
    BY <1>1
  <2>2. QED
    BY <2>1
<1>3. Len(t) = Len(s) - 1 /\ \A n \in 1..Len(t) : t[n] = s[n + 1]
  BY <1>1, <1>2
<1>4. 1 \in 1..Len(t)
  BY <1>1, <1>3
<1>5. t[1] = s[2]
  BY <1>3, <1>4
<1>6. t # <<>>
  BY <1>0, <1>4
<1>7. QED
  BY <1>2, <1>5, <1>6

\* The watchdog's calls.
LEMMA WatchdogCallsAreCalm ==
  ASSUME Steady, ~ Fault, Calling("watchdog")
  PROVE  PlansCalm'
<1> DEFINE w == "watchdog"
           s == plan[w]
<1>0. /\ w \in Programs /\ plan \in [Programs -> Seq(Calls)] /\ s \in Seq(Calls)
      /\ rec \in [Instances -> [desired : {"running", "stopped"}, maint : BOOLEAN, phase : Phases]]
      /\ RInv /\ HeldIsDown
  BY DEF Programs, Steady, Calm, RInv, PlansHaveShape, RigTypeOK
<1>1. PICK i \in Instances :
      \/ StopBegins(w, i) \/ StopKills(w, i) \/ StopEnds(w, i)
      \/ StartFinds(w, i) \/ StartRefuses(w, i) \/ StartPrepares(w, i) \/ StartLaunches(w, i)
      \/ RestartChecks(w, i)
  BY DEF Calling
<1>2. CASE StopBegins(w, i) \/ StopKills(w, i) \/ StartPrepares(w, i)
  BY <1>2, SameIsCalm DEF StopBegins, StopKills, StartPrepares, programs
<1>3. CASE StopEnds(w, i)
  <2>1. s # <<>> /\ Head(s).do \in {"stop", "hold"} /\ UNCHANGED <<paused, picked>>
        /\ plan' = [plan EXCEPT ![w] = Tail(s)]
    BY <1>0, <1>3 DEF StopEnds, Holds, Done, RInv, CallsUnderWay
  <2>2. s[1] = Head(s) /\ s[1].do \in {"stop", "hold"} /\ plan'[w] = Tail(s)
    BY <1>0, <2>1
  <2>3. WatchdogKeeps
    <3> SUFFICES ASSUME NEW j \in Instances, WatchdogWill(j) PROVE WatchdogWill(j)'
      BY DEF WatchdogKeeps
    <3>1. s[1] # On("revive", j)
      BY <2>2 DEF On
    <3> HIDE DEF s
    <3>2. Len(s) > 1 /\ s[2] = On("revive", j)
      BY <3>1, Zenon DEF WatchdogWill, s
    <3>3. Tail(s) # <<>> /\ Tail(s)[1] = On("revive", j)
      <4>1. s \in Seq(Calls)
        BY <1>0
      <4>2. QED
        BY <3>2, <4>1, SecondCall
    <3>4. QED
      BY <2>2, <3>3 DEF WatchdogWill
  <2>4. \A j : s[1] # On("coolCheck", j)
    BY <2>2 DEF On
  <2>5. QED
    BY <2>1, <2>2, <2>3, <2>4, DoneIsCalm
<1>4. CASE StartFinds(w, i) \/ StartRefuses(w, i) \/ StartLaunches(w, i)
  <2>1. s # <<>> /\ Head(s).do \in {"start", "revive"} /\ Head(s).i = i /\ UNCHANGED <<paused, picked>>
    BY <1>0, <1>4 DEF StartFinds, StartRefuses, StartLaunches, Takes, AtOn, At, Holds, RInv, CallsUnderWay
  <2>2. plan' = [plan EXCEPT ![w] = Tail(s)]
    BY <1>4 DEF StartFinds, StartRefuses, StartLaunches, Done, Raises
  <2>3. s[1] = Head(s) /\ s[1].do \in {"start", "revive"} /\ s[1].i = i /\ plan'[w] = Tail(s)
    BY <1>0, <2>1, <2>2
  <2>4. ~ Waits(i)'
    <3>1. CASE StartFinds(w, i)
      BY <1>0, <3>1 DEF StartFinds, Waits
    <3>2. CASE StartRefuses(w, i)
      BY <1>0, <3>2 DEF StartRefuses, Takes, HeldIsDown, Waits, records
    <3>3. CASE StartLaunches(w, i)
      BY <1>0, <3>3 DEF StartLaunches, HeldIsDown, Waits, records
    <3>4. QED
      BY <1>4, <3>1, <3>2, <3>3
  <2>5. \A j \in Instances : WatchdogWill(j) => j = i
    BY <2>3 DEF WatchdogWill, On
  <2>6. WatchdogKeeps
    BY <2>4, <2>5 DEF WatchdogKeeps
  <2>7. \A j : s[1] # On("coolCheck", j)
    BY <2>3 DEF On
  <2>8. QED
    BY <2>1, <2>3, <2>6, <2>7, DoneIsCalm
<1>5. CASE RestartChecks(w, i)
  <2>1. s # <<>> /\ Head(s).do = "check" /\ UNCHANGED <<paused, picked>>
        /\ plan' = [plan EXCEPT ![w] =
             IF rec[i].desired = "running" THEN Tail(s) ELSE SubSeq(s, 4, Len(s))]
    BY <1>5 DEF RestartChecks, AtOn, At
  <2>2. s[1].do = "check" /\ (plan'[w] = Tail(s) \/ plan'[w] = SubSeq(s, 4, Len(s)))
    BY <1>0, <2>1
  <2>3. WatchdogKeeps
    BY <2>2 DEF WatchdogKeeps, WatchdogWill, On
  <2>4. \A j : s[1] # On("coolCheck", j)
    BY <2>2 DEF On
  <2>5. QED
    BY <2>1, <2>2, <2>3, <2>4, DoneIsCalm
<1>6. QED
  BY <1>1, <1>2, <1>3, <1>4, <1>5

\* The watchdog's decisions.
LEMMA WatchdogIsCalm ==
  ASSUME Steady, ~ Fault, Watchdog
  PROVE  PlansCalm'
<1> DEFINE w == "watchdog"
           s == plan[w]
<1>0. /\ w \in Programs /\ plan \in [Programs -> Seq(Calls)] /\ s \in Seq(Calls)
      /\ RInv /\ Calm
  BY DEF Programs, Steady, Calm, RInv, PlansHaveShape, RigTypeOK
<1>1. CASE Calling(w)
  BY <1>1, WatchdogCallsAreCalm
<1>2. CASE WatchdogTicks
  <2>1. s = <<>> /\ UNCHANGED <<paused, picked>>
        /\ plan'[w] = ForEach("look", Instances) \o <<Just("guard")>>
    BY <1>0, <1>2 DEF WatchdogTicks
  <2>2. QED
    BY <2>1, ListIsCalm
<1>3. ASSUME Done(w), At(w, {"look", "missing", "bad", "hotCheck", "guard", "save"}),
             IF Head(s).do = "save" THEN picked' = {} /\ paused' = paused \cup picked
                                    ELSE UNCHANGED <<paused, picked>>
      PROVE  PlansCalm'
  <2>1. s # <<>> /\ s[1] = Head(s) /\ plan'[w] = Tail(s)
        /\ s[1].do \in {"look", "missing", "bad", "hotCheck", "guard", "save"}
    BY <1>0, <1>3 DEF Done, At
  <2>2. WatchdogKeeps /\ \A j : s[1] # On("coolCheck", j)
    BY <2>1 DEF WatchdogKeeps, WatchdogWill, On
  <2>3. QED
    BY <1>3, <2>1, <2>2, DoneIsCalm
<1>4. ASSUME NEW i \in Instances, NEW d \in {"missing", "bad", "revive", "hold"},
             DoFirst(w, <<On(d, i)>>), At(w, {"look", "missing", "hotCheck"}),
             d = "hold" => Head(s).do = "hotCheck",
             picked' = (IF d = "hold" THEN picked \cup {i} ELSE picked), paused' = paused,
             d \in {"missing", "bad"} => (Waits(i)' => RunnerWill(i)')
      PROVE  PlansCalm'
  <2>1. s # <<>> /\ s[1] = Head(s) /\ plan'[w] = <<On(d, i)>> \o Tail(s)
        /\ s[1].do \in {"look", "missing", "hotCheck"}
    BY <1>0, <1>4 DEF DoFirst, At
  <2>2. \A j : s[1] # On("coolCheck", j)
    BY <2>1 DEF On
  <2>3. QED
    BY <1>4, <2>1, <2>2, ReplacedIsCalm
<1>5. ASSUME NEW i \in Instances, WatchdogMisses(i) PROVE PlansCalm'
  BY <1>4, <1>5 DEF WatchdogMisses, AtOn, At, Watched, Waits, records
<1>6. ASSUME NEW i \in Instances, WatchdogRevives(i) PROVE PlansCalm'
  BY <1>3, <1>4, <1>6 DEF WatchdogRevives, AtOn, At
<1>7. ASSUME NEW i \in Instances, WatchdogDisapproves(i) PROVE PlansCalm'
  <2>1. ~ Waits(i)' /\ AtOn(w, {"look"}, i) /\ UNCHANGED <<paused, picked>>
    BY <1>7 DEF WatchdogDisapproves, Watched, Waits, records
  <2>2. CASE DoFirst(w, <<On("bad", i)>>)
    BY <1>4, <2>1, <2>2 DEF AtOn, At
  <2>3. CASE DoFirst(w, WatchdogRestart(i))
    <3>1. s # <<>> /\ s[1].do = "look" /\ plan'[w] = WatchdogRestart(i) \o Tail(s)
      BY <1>0, <2>1, <2>3 DEF DoFirst, AtOn, At
    <3>2. QED
      BY <2>1, <3>1, RestartIsCalm
  <2>4. QED
    BY <1>7, <2>2, <2>3 DEF WatchdogDisapproves
<1>8. ASSUME NEW i \in Instances, WatchdogRestarts(i) PROVE PlansCalm'
  <2>1. AtOn(w, {"bad"}, i) /\ UNCHANGED <<paused, picked>>
    BY <1>8 DEF WatchdogRestarts
  <2>2. CASE Done(w)
    BY <1>3, <2>1, <2>2 DEF AtOn, At
  <2>3. CASE DoFirst(w, WatchdogRestart(i)) /\ rec' = rec
    <3>1. s # <<>> /\ s[1].do = "bad" /\ s[1].i = i /\ plan'[w] = WatchdogRestart(i) \o Tail(s)
          /\ plan'["runner"] = plan["runner"]
      BY <1>0, <2>1, <2>3 DEF DoFirst, AtOn, At, Programs
    <3>2. Waits(i)' => RunnerWill(i)'
      BY <1>0, <2>3, <3>1 DEF Calm, DecidedAwake, Waits, RunnerWill
    <3>3. QED
      BY <2>1, <3>1, <3>2, RestartIsCalm
  <2>4. QED
    BY <1>8, <2>2, <2>3 DEF WatchdogRestarts
<1>9. ASSUME NEW i \in Instances, WatchdogIsContent(i) PROVE PlansCalm'
  BY <1>3, <1>9 DEF WatchdogIsContent, AtOn, At
<1>10. ASSUME NEW i \in Instances, HotChecks(i) PROVE PlansCalm'
  BY <1>3, <1>4, <1>10 DEF HotChecks, AtOn, At
<1>11. ASSUME NEW i \in Instances, CoolChecks(i) PROVE PlansCalm'
  <2>1. /\ s # <<>> /\ s[1] = Head(s) /\ s[1].do = "coolCheck" /\ s[1].i = i
        /\ rec' = rec /\ UNCHANGED <<paused, picked>> /\ stage[w] = "ready"
        /\ \A j \in Instances : s[1] = On("coolCheck", j) => j = i
    BY <1>0, <1>11 DEF CoolChecks, AtOn, At, records, On
  <2>2. CASE rec[i].desired = "running" /\ rec[i].maint /\ rec[i].phase = "stopped"
    <3>1. plan'[w] = <<On("revive", i)>> \o Tail(s)
      BY <1>0, <1>11, <2>2 DEF CoolChecks, DoFirst
    <3>2. plan'[w] # <<>> /\ plan'[w][1] = On("revive", i)
      <4>1. PICK c \in Calls : c = On("revive", i)
        BY CallIsTyped
      <4>2. PICK r \in Seq(Calls) : r = Tail(s)
        <5>1. s \in Seq(Calls) /\ s # <<>>
          BY <1>0, <2>1
        <5> HIDE DEF s
        <5>2. Tail(s) \in Seq(Calls)
          BY <5>1
        <5>3. QED
          BY <5>2
      <4>3. plan'[w] = <<c>> \o r
        BY <3>1, <4>1, <4>2
      <4>4. QED
        BY <4>1, <4>3
    <3>3. Cared(i)'
      BY <3>2 DEF Cared, WatchdogWill
    <3>4. QED
      BY <2>1, <3>1, <3>3, ReplacedIsCalm
  <2>3. CASE ~ (rec[i].desired = "running" /\ rec[i].maint /\ rec[i].phase = "stopped")
    <3>1. plan'[w] = Tail(s) /\ plan'["runner"] = plan["runner"]
      BY <1>0, <1>11, <2>3 DEF CoolChecks, Done, Programs
    <3>2. control[i] # w
      BY <1>0, <2>1 DEF RInv, LocksAreHeld
    <3>3. Waits(i) => RunnerWill(i)
      BY <1>0, <2>3, <3>2 DEF Calm, WaitsStopped, Waits
    <3>4. Cared(i)'
      BY <2>1, <3>1, <3>3 DEF Cared, Waits, RunnerWill
    <3>5. WatchdogKeeps
      BY <2>1 DEF WatchdogKeeps, WatchdogWill, On
    <3>6. QED
      BY <2>1, <3>1, <3>4, <3>5, DoneIsCalm
  <2>4. QED
    BY <2>2, <2>3
<1>12. ASSUME At(w, {"guard"}) PROVE s # <<>> /\ s[1].do = "guard" /\ Tail(s) = <<>>
  <2>1. s # <<>> /\ s[1].do = "guard"
    BY <1>0, <1>12 DEF At
  <2>2. QED
    BY <1>0, <2>1, PlanIsOrdered, Popped
<1>13. ASSUME NEW is \in SUBSET Instances, NEW d \in {"hotCheck", "coolCheck"},
              NEW e \in {"save", "clear"}, At(w, {"guard"}),
              DoFirst(w, ForEach(d, is) \o <<Just(e)>>)
       PROVE  plan'[w] = ForEach(d, is) \o <<Just(e)>>
  <2>1. PICK q \in Seq(Calls) : q = ForEach(d, is) \o <<Just(e)>>
    BY ForEachIsPassive, JustFirst, ListFirst
  <2>2. plan'[w] = q \o Tail(s) /\ Tail(s) = <<>>
    BY <1>0, <1>12, <1>13, <2>1 DEF DoFirst
  <2>3. q \o <<>> = q
    BY <2>1
  <2>4. QED
    BY <2>1, <2>2, <2>3
<1>14. CASE GuardFindsHot
  <2>1. plan'[w] = ForEach("hotCheck", Instances) \o <<Just("save")>>
    BY <1>13, <1>14 DEF GuardFindsHot
  <2>2. QED
    BY <1>12, <1>14, <2>1, ListIsCalm DEF GuardFindsHot
<1>15. CASE GuardFindsCool
  <2>1. CASE paused = {}
    BY <1>3, <1>15, <2>1 DEF GuardFindsCool, At
  <2>2. CASE paused # {}
    <3>1. paused \in SUBSET Instances
      BY <1>0 DEF RInv, RigTypeOK
    <3>2. plan'[w] = ForEach("coolCheck", paused) \o <<Just("clear")>>
      BY <1>13, <1>15, <2>2, <3>1 DEF GuardFindsCool
    <3>3. QED
      BY <1>12, <1>15, <3>1, <3>2, ListIsCalm DEF GuardFindsCool
  <2>3. QED
    BY <2>1, <2>2
<1>16. CASE GuardWaits \/ SavesPaused
  BY <1>3, <1>16 DEF GuardWaits, SavesPaused, At
<1>17. CASE ClearsPaused
  <2>1. s # <<>> /\ s[1].do = "clear" /\ plan'[w] = Tail(s) /\ paused' = {} /\ picked' = picked
    BY <1>0, <1>17 DEF ClearsPaused, At, Done
  <2>2. QED
    BY <2>1, ClearIsCalm
<1>18. QED
  BY <1>1, <1>2, <1>5, <1>6, <1>7, <1>8, <1>9, <1>10, <1>11, <1>14, <1>15, <1>16, <1>17 DEF Watchdog
-----------------------------------------------------------------------------
LEMMA CalmStep ==
  ASSUME RInv, Calm, RigNext, faults' = 0
  PROVE  Calm'
<1>1. FewPlans' /\ RunnerKeeps /\ RecordMoves /\ HeldIsDown' /\ WaitsStopped' /\ ~ Fault
  BY RunnerKept, RecordsMove, DownKept, WaitersStop, CalmSteps DEF Calm
<1>2. Steady /\ plan \in [Programs -> Seq(Calls)]
  BY <1>1 DEF Steady, RInv, PlansHaveShape
<1>3. CASE Watchdog
  BY <1>1, <1>2, <1>3, WatchdogIsCalm DEF PlansCalm, Calm
<1>4. CASE Calling("runner") \/ \E op \in Operations, i \in Instances : RunnerBegins(op, i)
  <2>1. plan'["watchdog"] = plan["watchdog"] /\ UNCHANGED <<paused, picked>>
    BY <1>2, <1>4 DEF RunnerBegins, Calling, StopBegins, StopKills, StopEnds, StartFinds, StartRefuses,
       StartPrepares, StartLaunches, RestartChecks, Done, Raises, Programs, programs
  <2>2. QED
    BY <1>1, <1>2, <2>1, SameIsCalm DEF PlansCalm, Calm
<1>5. ASSUME NEW i \in Instances,
             Supervisor(i) \/ MinerExits(i) \/ WarmUpEnds(i) \/ RecoveryAges(i)
      PROVE  Calm'
  <2>1. UNCHANGED <<plan, paused, picked>>
    BY <1>5 DEF Supervisor, Registers, LoopChecks, AfterExit, CooldownEnds, MinerExits, WarmUpEnds,
       RecoveryAges, programs
  <2>2. QED
    BY <1>1, <1>2, <2>1, SameIsCalm DEF PlansCalm, Calm
<1>6. QED
  BY <1>3, <1>4, <1>5, CalmSteps DEF Calm

LEMMA CalmInductive == RInv /\ CalmUnlessFaults /\ [RigNext]_rigVars => CalmUnlessFaults'
<1> SUFFICES ASSUME RInv, CalmUnlessFaults, [RigNext]_rigVars, faults' = 0 PROVE Calm'
  BY DEF CalmUnlessFaults
<1>1. CASE RigNext
  <2>1. faults = 0
    BY <1>1, FaultsGrow
  <2>2. QED
    BY <1>1, <2>1, CalmStep DEF CalmUnlessFaults
<1>2. CASE UNCHANGED rigVars
  BY <1>2 DEF rigVars, records, programs, history, CalmUnlessFaults, Calm, FewPlans, HeldIsDown,
     WaitsStopped, DecidedAwake, WatchdogPlan, ListIsWorkedOff, NoneForgotten, Cared, Waits,
     RunnerWill, WatchdogWill, Holds
<1>3. QED
  BY <1>1, <1>2

LEMMA CalmAbandonsNone ==
  ASSUME RInv, Calm, NEW i \in Instances
  PROVE  ~ Abandoned(i)
<1> SUFFICES ASSUME Abandoned(i) PROVE FALSE
  OBVIOUS
<1>1. /\ RunnerWill(i) \/ WatchdogWill(i)
      /\ ~ Acts("runner", i) /\ ~ Acts("watchdog", i)
  BY DEF Abandoned, Calm, NoneForgotten, Cared, Waits, Programs
<1>2. \A c \in {"runner", "watchdog"} : Plan(plan[c])
  BY DEF RInv, PlansHaveShape, Plan, Programs
<1>3. \A d \in {"start", "hold", "revive"} : On(d, i).do = d /\ On(d, i).i = i
  BY DEF On
<1>4. CASE RunnerWill(i)
  <2>1. plan["runner"] # <<>> /\ Head(plan["runner"]).do \in Acting /\ Head(plan["runner"]).i = i
    BY <1>3, <1>4 DEF RunnerWill, Acting
  <2>2. QED
    BY <1>1, <1>2, <2>1, HeadActs DEF Acts, ActsIn
<1>5. CASE WatchdogWill(i)
  <2>1. plan["watchdog"] # <<>> /\ Head(plan["watchdog"]).do \in Acting /\ Head(plan["watchdog"]).i = i
    BY <1>2, <1>3, <1>5 DEF WatchdogWill, Acting, Plan
  <2>2. QED
    BY <1>1, <1>2, <2>1, HeadActs DEF Acts, ActsIn
<1>6. QED
  BY <1>1, <1>4, <1>5

(***************************************************************************)
(* As long as nothing is killed and screen does as told, no instance that  *)
(* should run is left in maintenance with nobody to start it again: not by *)
(* an operation between the two halves of a restart, not by one between    *)
(* the thermal guard's list and the pauses it stands for.                  *)
(***************************************************************************)
THEOREM CalmRigsAbandonNone == RigSpec => []OnlyFaultsAbandon
<1>1. RigInit => CalmUnlessFaults
  BY CalmInitially DEF CalmUnlessFaults
<1>2. RInv /\ CalmUnlessFaults => OnlyFaultsAbandon
  BY CalmAbandonsNone DEF CalmUnlessFaults, OnlyFaultsAbandon
<1>3. QED
  BY <1>1, <1>2, CalmInductive, RInvAlways, PTL DEF RigSpec
=============================================================================
