------------------------- MODULE DegradeRecoveryProofs -------------------------
(***************************************************************************)
(* Proofs about DegradeRecovery for any actors, lifetimes and horizon.      *)
(*                                                                          *)
(* RecoversWhatItClears rests on what holds while no two sequences of       *)
(* writes have overlapped and none has stopped half way: one actor writes   *)
(* at a time (Alone), the active profile is backed by an open failover of   *)
(* its own time (Backed), and no open failover is younger than the profile, *)
(* or than the degrade that is replacing it (NewestIsActive, NewestIsMine). *)
(***************************************************************************)
EXTENDS DegradeRecovery, WellFoundedInduction, TLAPS

\* The stages of a degrade.
Degrading == {"activating", "recording"}

\* What an actor carries at each stage, and that nothing lies in the future.
Carried ==
    /\ active = Cleared \/ active.since \in 0..now
    /\ \A a \in Actors :
        /\ actor[a].at \in Writing => actor[a].time \in 0..now
        /\ actor[a].at \in Degrading =>
              actor[a].kind \in Kinds /\ actor[a].time <= LastStart
        /\ actor[a].at = "marking" => actor[a].found \in Times
    /\ \A t \in Open : failover[t].started = t /\ t <= now

\* One actor writes at a time.
Alone ==
    \A a, b \in Actors : actor[a].at \in Writing /\ actor[b].at \in Writing => a = b

\* An active profile has its failover row, or an actor about to write or clear it.
Backed ==
    active # Cleared =>
        \/ active.since \in Open
        \/ \E a \in Actors : actor[a].at \in {"recording", "clearing"}

\* No open failover is newer than the active profile.
NewestIsActive == active # Cleared => \A t \in Open : t <= active.since

\* No open failover is newer than the one an actor is about to write.
NewestIsMine ==
    \A a \in Actors : actor[a].at \in Degrading => \A t \in Open : t <= actor[a].time

\* Where the active profile stands with an actor that has written it or will clear it.
Aligned ==
    \A a \in Actors :
        /\ actor[a].at = "recording" => active # Cleared /\ active.since = actor[a].time
        /\ actor[a].at \in {"listing", "marking", "clearing"} => active # Cleared
        /\ actor[a].at \in {"marking", "clearing"} => active.since = actor[a].found

\* What holds as long as no writes overlapped or stopped half way.
Orderly ==
    ~disturbed => Alone /\ Backed /\ NewestIsActive /\ NewestIsMine /\ Aligned

\* The inductive invariant.
Inv == TypeOK /\ Carried /\ Orderly

\* No profile, no failover and nobody at work.
LEMMA InitInv == Init => Inv
<1> SUFFICES ASSUME Init PROVE Inv
  OBVIOUS
<1>1. \A t \in Times : failover[t] = NoRow
  BY DEF Init
<1>2. Open = {}
  BY <1>1 DEF Open, NoRow
<1>3. \A a \in Actors : actor[a].at = "rest"
  BY DEF Init, Resting
<1>4. TypeOK
  <2>1. now \in Times
    BY DegradeAssumption DEF Init, Times
  <2>5. takeover \in BOOLEAN /\ disturbed \in BOOLEAN
    BY Zenon DEF Init
  <2>2. active \in [kind : Kinds \cup {"cleared"}, since : Moments, until : Moments]
    BY DEF Init, Cleared, Moments
  <2>3. failover \in [Times -> [started : Times, recovered : BOOLEAN] \cup {NoRow}]
    BY DEF Init
  <2>4. actor \in [Actors -> [at : Writing \cup Capabilities \cup {"rest"},
                             kind : Kinds \cup {"cleared"}, operator : BOOLEAN,
                             time : Moments, found : Moments]]
    BY DEF Init, Resting, Moments
  <2> QED
    BY <2>1, <2>2, <2>3, <2>4, <2>5 DEF TypeOK
<1>5. Carried
  BY <1>2, <1>3 DEF Init, Carried, Writing, Degrading
<1>6. Orderly
  BY <1>2, <1>3 DEF Init, Orderly, Alone, Backed, NewestIsActive, NewestIsMine, Aligned,
     Writing, Degrading
<1> QED
  BY <1>4, <1>5, <1>6 DEF Inv

-----------------------------------------------------------------------------
(* Helpers *)

\* The youngest open failover is the one all others are not younger than.
LEMMA LatestIsNewest ==
  ASSUME NEW s \in Open, Open \subseteq Int, \A t \in Open : failover[t].started = t,
         \A t \in Open : t <= s
  PROVE  Open # {} /\ Latest = s
<1>1. {failover[t].started : t \in Open} = Open
  OBVIOUS
<1>2. Max(Open) = s
  <2>1. Max(Open) \in Open /\ \A t \in Open : Max(Open) >= t
    <3>1. \E x \in Open : \A t \in Open : x >= t
      OBVIOUS
    <3> QED
      BY <3>1, Zenon DEF Max
  <2> QED
    BY <2>1
<1> QED
  BY <1>1, <1>2 DEF Latest

\* A bounded set of numbers has a greatest one: the n of the least Horizon - n.
LEMMA GreatestExists ==
  ASSUME NEW S \in SUBSET Times, S # {}
  PROVE  \E x \in S : \A t \in S : x >= t
<1> DEFINE T == {Horizon - t : t \in S}
<1>1. T \subseteq Nat /\ T # {}
  <2>1. \A t \in S : Horizon - t \in Nat
    BY DegradeAssumption DEF Times
  <2>2. T \subseteq Nat
    BY <2>1
  <2>3. PICK s \in S : TRUE
    OBVIOUS
  <2>4. Horizon - s \in T
    BY <2>3
  <2> QED
    BY <2>2, <2>4
<1>2. PICK m \in T : \A n \in T : ~(<<n, m>> \in OpToRel(<, Nat))
  BY <1>1, WFMin, NatLessThanWellFounded
<1>3. \A n \in T : ~(n < m)
  BY <1>1, <1>2 DEF OpToRel
<1>4. PICK x \in S : m = Horizon - x
  OBVIOUS
<1>5. ASSUME NEW t \in S PROVE x >= t
  <2>1. ~(Horizon - t < Horizon - x)
    BY <1>3, <1>4
  <2> QED
    BY <2>1, DegradeAssumption DEF Times
<1> QED
  BY <1>5

\* The start of an open record is a time.
LEMMA LatestType ==
  ASSUME \A t \in Open : failover[t].started = t
  PROVE  (Open = {} /\ Latest = NoTime) \/ (Open # {} /\ Latest \in Open)
<1>1. {failover[t].started : t \in Open} = Open
  OBVIOUS
<1>2. ASSUME Open # {} PROVE Max(Open) \in Open
  <2>1. \E x \in Open : \A t \in Open : x >= t
    BY <1>2, GreatestExists DEF Open
  <2> QED
    BY <2>1, Zenon DEF Max
<1> QED
  BY <1>1, <1>2 DEF Latest

\* What Degrade and the other actions leave alone or write, in the terms of Inv.
LEMMA ProfileType ==
  ASSUME NEW k \in Kinds, NEW t \in 0..LastStart
  PROVE  /\ Profile(k, t) \in [kind : Kinds \cup {"cleared"}, since : Moments, until : Moments]
         /\ Profile(k, t) # Cleared
         /\ Profile(k, t).since = t
<1>1. k \in Expiring => t + Life[k] \in Times
  BY DegradeAssumption DEF Times
<1>2. t \in Times
  BY DegradeAssumption DEF Times, Expiring, Kinds
<1>3. k # "cleared"
  BY DEF Kinds
<1> QED
  BY <1>1, <1>2, <1>3 DEF Profile, Cleared, Moments, Never, NoTime
-----------------------------------------------------------------------------
(* Types *)

\* What an actor carries from await to await.
ActorState ==
    [at : Writing \cup Capabilities \cup {"rest"}, kind : Kinds \cup {"cleared"},
     operator : BOOLEAN, time : Moments, found : Moments]

\* The rows of the failover table.
Rows == [started : Times, recovered : BOOLEAN] \cup {NoRow}

\* The times of rows are times.
LEMMA TimesFacts ==
  /\ Times \subseteq Int /\ 0 \in Times /\ Times \subseteq Moments /\ NoTime \in Moments
  /\ \A t \in 0..LastStart : t \in Times
  BY DegradeAssumption DEF Times, Moments, NoTime, Expiring, Kinds

\* A step is a tick, a degrade, or one of the other steps of an actor.
LEMMA NextActions ==
  ASSUME Next
  PROVE  \/ Tick
         \/ \E a \in Actors, k \in Kinds, o \in BOOLEAN : Degrade(a, k, o)
         \/ \E a \in Actors, c \in Capabilities : Admit(a, c)
         \/ \E a \in Actors :
               \/ CallEnds(a) \/ WriteProfile(a) \/ WriteFailover(a) \/ BeginRecover(a)
               \/ ListFailovers(a) \/ WriteRecovered(a) \/ Clear(a) \/ Stops(a)
  BY DEF Next, Acts, OperatorDegrades, QueueCongested, ProviderFails, McpFails, Kinds

\* Every step keeps profiles, rows and actors in their types.
LEMMA TypeStep == Inv /\ [Next]_vars => TypeOK'
<1> SUFFICES ASSUME Inv, [Next]_vars PROVE TypeOK'
  OBVIOUS
<1> USE TimesFacts DEF Inv
<1>0. ASSUME now' \in Times, active' = active, failover' = failover,
             actor' \in [Actors -> ActorState],
             takeover' \in BOOLEAN, disturbed' \in BOOLEAN
      PROVE  TypeOK'
  BY <1>0 DEF TypeOK, ActorState
<1>a. takeover \in BOOLEAN /\ disturbed \in BOOLEAN /\ now \in Times
      /\ actor \in [Actors -> ActorState] /\ failover \in [Times -> Rows]
  BY DEF TypeOK, ActorState, Rows
<1>b. Resting \in ActorState
  BY DEF Resting, ActorState
<1>1. CASE Tick
  BY <1>1, <1>0, <1>a DEF Tick
<1>2. ASSUME NEW a \in Actors, NEW k \in Kinds, NEW o \in BOOLEAN, Degrade(a, k, o)
      PROVE  TypeOK'
  <2>1. actor' \in [Actors -> ActorState]
    BY <1>2, <1>a DEF Degrade, ActorState, Writing
  <2>2. disturbed' \in BOOLEAN
    BY <1>2, Zenon DEF Degrade
  <2> QED
    BY <1>2, <2>1, <2>2, <1>0, <1>a DEF Degrade
<1>3. ASSUME NEW a \in Actors, NEW c \in Capabilities, Admit(a, c) PROVE TypeOK'
  <2>1. actor' \in [Actors -> ActorState]
    BY <1>3, <1>a DEF Admit, Becomes, ActorState
  <2> QED
    BY <1>3, <2>1, <1>0, <1>a DEF Admit
<1>4. ASSUME NEW a \in Actors, CallEnds(a) PROVE TypeOK'
  BY <1>4, <1>0, <1>a, <1>b DEF CallEnds, Rests
<1>5. ASSUME NEW a \in Actors, WriteProfile(a) PROVE TypeOK'
  <2>1. active' \in [kind : Kinds \cup {"cleared"}, since : Moments, until : Moments]
    BY <1>5, ProfileType DEF WriteProfile, Carried, Degrading, Writing
  <2>2. actor' \in [Actors -> ActorState]
    BY <1>5, <1>a DEF WriteProfile, Becomes, ActorState, Writing
  <2>3. takeover' \in BOOLEAN
    BY <1>5, <1>a, Zenon DEF WriteProfile
  <2> QED
    BY <1>5, <2>1, <2>2, <2>3, <1>a DEF WriteProfile, TypeOK, ActorState
<1>6. ASSUME NEW a \in Actors, WriteFailover(a) PROVE TypeOK'
  <2>1. actor[a].time \in Times
    <3>1. actor[a].time \in 0..now
      BY <1>6 DEF WriteFailover, Carried, Writing
    <3> QED
      BY <3>1, <1>a, DegradeAssumption DEF Times
  <2>2. failover' \in [Times -> Rows]
    BY <1>6, <1>a, <2>1 DEF WriteFailover, Rows
  <2>3. actor' \in [Actors -> ActorState]
    BY <1>6, <1>a, <1>b DEF WriteFailover, Rests
  <2> QED
    BY <1>6, <2>2, <2>3, <1>a DEF WriteFailover, TypeOK, ActorState, Rows
<1>7. ASSUME NEW a \in Actors, BeginRecover(a) PROVE TypeOK'
  <2>1. actor' \in [Actors -> ActorState]
    BY <1>7, <1>a, <1>b DEF BeginRecover, ActorState, Writing, Resting
  <2>2. disturbed' \in BOOLEAN
    BY <1>7, Zenon DEF BeginRecover
  <2> QED
    BY <1>7, <2>1, <2>2, <1>0, <1>a DEF BeginRecover
<1>8. ASSUME NEW a \in Actors, ListFailovers(a) PROVE TypeOK'
  <2>1. Latest \in Moments
    BY LatestType DEF Carried, Open
  <2>2. actor' \in [Actors -> ActorState]
    BY <1>8, <1>a, <1>b, <2>1 DEF ListFailovers, ActorState, Writing, Resting
  <2> QED
    BY <1>8, <2>2, <1>0, <1>a DEF ListFailovers
<1>9. ASSUME NEW a \in Actors, WriteRecovered(a) PROVE TypeOK'
  <2>1. actor[a].found \in Times
    BY <1>9 DEF WriteRecovered, Carried
  <2>2. failover' \in [Times -> Rows]
    BY <1>9, <1>a, <2>1 DEF WriteRecovered, Rows
  <2>3. actor' \in [Actors -> ActorState]
    BY <1>9, <1>a DEF WriteRecovered, Becomes, ActorState, Writing
  <2> QED
    BY <1>9, <2>2, <2>3, <1>a DEF WriteRecovered, TypeOK, ActorState, Rows
<1>10. ASSUME NEW a \in Actors, Clear(a) PROVE TypeOK'
  <2>1. actor' \in [Actors -> ActorState]
    BY <1>10, <1>a, <1>b DEF Clear, Rests
  <2>2. active' \in [kind : Kinds \cup {"cleared"}, since : Moments, until : Moments]
    BY <1>10 DEF Clear, Cleared
  <2>3. takeover' \in BOOLEAN
    BY <1>10, Zenon DEF Clear
  <2> QED
    BY <1>10, <2>1, <2>2, <2>3, <1>a DEF Clear, TypeOK, ActorState
<1>11. ASSUME NEW a \in Actors, Stops(a) PROVE TypeOK'
  <2>1. actor' \in [Actors -> ActorState]
    BY <1>11, <1>a, <1>b DEF Stops, Rests
  <2>2. disturbed' \in BOOLEAN
    BY <1>11, Zenon DEF Stops
  <2> QED
    BY <1>11, <2>1, <2>2, <1>0, <1>a DEF Stops
<1>12. CASE UNCHANGED vars
  BY <1>12 DEF vars, TypeOK
<1> QED
  BY <1>1, <1>2, <1>3, <1>4, <1>5, <1>6, <1>7, <1>8, <1>9, <1>10, <1>11, <1>12, NextActions
-----------------------------------------------------------------------------
(* What the actors carry *)

\* Carried speaks of the actors' stages and data, the profile and the open rows.
LEMMA CarriedStep == Inv /\ [Next]_vars => Carried'
<1> SUFFICES ASSUME Inv, [Next]_vars PROVE Carried'
  OBVIOUS
<1> USE DEF Inv
<1>a. now \in Nat /\ LastStart \in Nat /\ actor \in [Actors -> ActorState]
  BY DegradeAssumption DEF TypeOK, ActorState, Times
<1>b. Resting.at = "rest"
  BY DEF Resting
<1>c. ASSUME NEW a \in Actors, Rests(a), now' = now
      PROVE  \A b \in Actors :
                /\ actor'[b].at \in Writing => actor'[b].time \in 0..now'
                /\ actor'[b].at \in Degrading =>
                      actor'[b].kind \in Kinds /\ actor'[b].time <= LastStart
                /\ actor'[b].at = "marking" => actor'[b].found \in Times
  BY <1>a, <1>b, <1>c DEF Rests, Carried, Writing, Degrading
<1>1. CASE Tick
  <2>1. now' \in Nat /\ 0..now \subseteq 0..now'
    BY <1>1, <1>a DEF Tick
  <2> QED
    BY <1>1, <1>a, <2>1 DEF Tick, Carried, Open, Times
<1>2. ASSUME NEW a \in Actors, NEW k \in Kinds, NEW o \in BOOLEAN, Degrade(a, k, o)
      PROVE  Carried'
  BY <1>2, <1>a DEF Degrade, Carried, Open, Writing, Degrading
<1>3. ASSUME NEW a \in Actors, NEW c \in Capabilities, Admit(a, c) PROVE Carried'
  BY <1>3, <1>a DEF Admit, Becomes, Capabilities, Carried, Open, Writing, Degrading, ActorState
<1>4. ASSUME NEW a \in Actors, CallEnds(a) PROVE Carried'
  BY <1>4, <1>c DEF CallEnds, Carried, Open
<1>5. ASSUME NEW a \in Actors, WriteProfile(a) PROVE Carried'
  <2>1. active'.since = actor[a].time /\ actor[a].time \in 0..now
    BY <1>5, ProfileType DEF WriteProfile, Carried, Writing, Degrading
  <2>2. \A b \in Actors :
           /\ actor'[b].at = IF b = a THEN "recording" ELSE actor[b].at
           /\ actor'[b].time = actor[b].time /\ actor'[b].found = actor[b].found
           /\ actor'[b].kind = actor[b].kind
    BY <1>5, <1>a DEF WriteProfile, Becomes, ActorState
  <2> QED
    BY <1>5, <2>1, <2>2 DEF WriteProfile, Carried, Open, Writing, Degrading
<1>6. ASSUME NEW a \in Actors, WriteFailover(a) PROVE Carried'
  <2>1. actor[a].time \in 0..now
    BY <1>6 DEF WriteFailover, Carried, Writing
  <2>2. \A t \in Open' : failover'[t].started = t /\ t <= now
    BY <1>6, <2>1 DEF WriteFailover, Carried, Open, TypeOK
  <2> QED
    BY <1>6, <1>c, <2>2 DEF WriteFailover, Carried
<1>7. ASSUME NEW a \in Actors, BeginRecover(a) PROVE Carried'
  BY <1>7, <1>a DEF BeginRecover, Resting, Carried, Open, Writing, Degrading
<1>8. ASSUME NEW a \in Actors, ListFailovers(a) PROVE Carried'
  <2>1. Open # {} => Latest \in Times
    BY LatestType DEF Carried, Open
  <2> QED
    BY <1>8, <1>a, <2>1 DEF ListFailovers, Resting, Carried, Open, Writing, Degrading
<1>9. ASSUME NEW a \in Actors, WriteRecovered(a) PROVE Carried'
  <2>1. \A b \in Actors :
           /\ actor'[b].at = IF b = a THEN "clearing" ELSE actor[b].at
           /\ actor'[b].time = actor[b].time /\ actor'[b].found = actor[b].found
           /\ actor'[b].kind = actor[b].kind
    BY <1>9, <1>a DEF WriteRecovered, Becomes, ActorState
  <2>2. \A t \in Open' : t \in Open /\ failover'[t] = failover[t]
    BY <1>9 DEF WriteRecovered, Open, TypeOK
  <2> QED
    BY <1>9, <2>1, <2>2 DEF WriteRecovered, Carried, Writing, Degrading
<1>10. ASSUME NEW a \in Actors, Clear(a) PROVE Carried'
  BY <1>10, <1>c DEF Clear, Carried, Open
<1>11. ASSUME NEW a \in Actors, Stops(a) PROVE Carried'
  BY <1>11, <1>c DEF Stops, Carried, Open
<1>12. CASE UNCHANGED vars
  BY <1>12 DEF vars, Carried, Open
<1> QED
  BY <1>1, <1>2, <1>3, <1>4, <1>5, <1>6, <1>7, <1>8, <1>9, <1>10, <1>11, <1>12, NextActions
-----------------------------------------------------------------------------
(* The undisturbed store *)

\* Every step keeps the orderly state, or disturbs it.
LEMMA OrderlyStep == Inv /\ [Next]_vars => Orderly'
<1> DEFINE Good == Alone /\ Backed /\ NewestIsActive /\ NewestIsMine /\ Aligned
<1> SUFFICES ASSUME Inv, [Next]_vars, ~disturbed' PROVE Good'
  BY DEF Orderly
<1>a. /\ now \in Nat /\ actor \in [Actors -> ActorState]
      /\ Open \subseteq Times /\ Times \subseteq Int
  BY TimesFacts DEF Inv, TypeOK, ActorState, Times, Open
<1>b. Carried
  BY DEF Inv
<1>c. ~disturbed => Good
  BY DEF Inv, Orderly
<1>d. Resting.at = "rest"
  BY DEF Resting
<1> USE DEF Alone, Backed, NewestIsActive, NewestIsMine, Aligned, Writing, Degrading
<1>1. CASE Tick
  BY <1>1, <1>c DEF Tick, Open
<1>2. ASSUME NEW a \in Actors, NEW k \in Kinds, NEW o \in BOOLEAN, Degrade(a, k, o),
             actor[a].at \notin Writing
      PROVE  Good'
  <2>1. ~disturbed /\ \A b \in Actors \ {a} : actor[b].at \notin Writing
    BY <1>2 DEF Degrade, Overlaps
  <2>2. actor'[a].at = "activating" /\ actor'[a].time = now
    BY <1>2, <1>a DEF Degrade
  <2>3. \A b \in Actors \ {a} : actor'[b] = actor[b]
    BY <1>2, <1>a DEF Degrade
  <2>4. active' = active /\ Open' = Open
    BY <1>2 DEF Degrade, Open
  <2>5. active # Cleared => active.since \in Open
    BY <2>1, <1>2, <1>c
  <2> QED
    BY <2>1, <2>2, <2>3, <2>4, <2>5, <1>b, <1>c DEF Carried
<1>3. ASSUME NEW a \in Actors, NEW c \in Capabilities, Admit(a, c) PROVE Good'
  <2>1. actor'[a].at = c /\ actor[a].at = "rest" /\ ~disturbed
    BY <1>3, <1>a DEF Admit, Becomes
  <2>2. \A b \in Actors \ {a} : actor'[b] = actor[b]
    BY <1>3, <1>a DEF Admit, Becomes
  <2>3. active' = active /\ Open' = Open
    BY <1>3 DEF Admit, Open
  <2> QED
    BY <2>1, <2>2, <2>3, <1>c DEF Capabilities
<1>4. ASSUME NEW a \in Actors, CallEnds(a) PROVE Good'
  <2>1. actor'[a].at = "rest" /\ actor[a].at \in Capabilities /\ ~disturbed
    BY <1>4, <1>a, <1>d DEF CallEnds, Rests
  <2>2. \A b \in Actors \ {a} : actor'[b] = actor[b]
    BY <1>4, <1>a DEF CallEnds, Rests
  <2>3. active' = active /\ Open' = Open
    BY <1>4 DEF CallEnds, Open
  <2> QED
    BY <2>1, <2>2, <2>3, <1>c DEF Capabilities
<1>5. ASSUME NEW a \in Actors, WriteProfile(a) PROVE Good'
  <2>1. /\ actor[a].at = "activating" /\ actor'[a].at = "recording"
        /\ actor'[a].time = actor[a].time
    BY <1>5, <1>a DEF WriteProfile, Becomes, ActorState
  <2>2. \A b \in Actors \ {a} : actor'[b] = actor[b]
    BY <1>5, <1>a DEF WriteProfile, Becomes
  <2>3. active' # Cleared /\ active'.since = actor[a].time
    BY <1>5, <1>b, ProfileType DEF WriteProfile, Carried
  <2>4. Open' = Open /\ ~disturbed
    BY <1>5 DEF WriteProfile, Open
  <2>5. \A b \in Actors \ {a} : actor[b].at \notin Writing
    BY <2>1, <2>4, <1>c
  <2> QED
    BY <2>1, <2>2, <2>3, <2>4, <2>5, <1>c DEF Cleared
<1>6. ASSUME NEW a \in Actors, WriteFailover(a) PROVE Good'
  <2>1. actor[a].at = "recording" /\ actor'[a].at = "rest" /\ ~disturbed
    BY <1>6, <1>a, <1>d DEF WriteFailover, Rests
  <2>2. \A b \in Actors \ {a} : actor'[b] = actor[b] /\ actor[b].at \notin Writing
    BY <1>6, <1>a, <1>c, <2>1 DEF WriteFailover, Rests
  <2>3. active' = active /\ active # Cleared /\ active.since = actor[a].time
    BY <1>6, <1>c, <2>1 DEF WriteFailover
  <2>4. actor[a].time \in Times
    BY <1>6, <1>b, <1>a, DegradeAssumption DEF WriteFailover, Carried, Times, Inv, TypeOK
  <2>5. Open' = Open \cup {actor[a].time}
    BY <1>6, <2>4 DEF WriteFailover, Open, Inv, TypeOK
  <2> QED
    BY <2>1, <2>2, <2>3, <2>4, <2>5, <1>a, <1>c
<1>7. ASSUME NEW a \in Actors, BeginRecover(a) PROVE Good'
  <2>1. /\ ~disturbed /\ actor[a].at = "rest" /\ active # Cleared
        /\ \A b \in Actors \ {a} : actor[b].at \notin Writing
    BY <1>7 DEF BeginRecover, Overlaps, Active
  <2>2. actor'[a].at = "listing"
    BY <1>7, <1>a DEF BeginRecover, Resting
  <2>3. \A b \in Actors \ {a} : actor'[b] = actor[b]
    BY <1>7, <1>a DEF BeginRecover
  <2>4. active' = active /\ Open' = Open
    BY <1>7 DEF BeginRecover, Open
  <2>5. active.since \in Open
    BY <2>1, <1>c
  <2> QED
    BY <2>1, <2>2, <2>3, <2>4, <2>5, <1>c
<1>8. ASSUME NEW a \in Actors, ListFailovers(a) PROVE Good'
  <2>1. actor[a].at = "listing" /\ ~disturbed
    BY <1>8 DEF ListFailovers
  <2>2. \A b \in Actors \ {a} : actor'[b] = actor[b] /\ actor[b].at \notin Writing
    BY <1>8, <1>a, <1>c, <2>1 DEF ListFailovers
  <2>3. active' = active /\ Open' = Open
    BY <1>8 DEF ListFailovers, Open
  <2>4. active # Cleared /\ active.since \in Open
    BY <2>1, <2>2, <1>c
  <2>5. Open # {} /\ Latest = active.since
    BY <2>1, <2>4, <1>a, <1>b, <1>c, LatestIsNewest DEF Carried
  <2>6. actor'[a].at = "marking" /\ actor'[a].found = active.since
    BY <1>8, <1>a, <2>5 DEF ListFailovers, Resting
  <2> QED
    BY <2>1, <2>2, <2>3, <2>4, <2>6, <1>c
<1>9. ASSUME NEW a \in Actors, WriteRecovered(a) PROVE Good'
  <2>1. /\ actor[a].at = "marking" /\ ~disturbed /\ actor'[a].at = "clearing"
        /\ actor'[a].found = actor[a].found
    BY <1>9, <1>a DEF WriteRecovered, Becomes, ActorState
  <2>2. \A b \in Actors \ {a} : actor'[b] = actor[b] /\ actor[b].at \notin Writing
    BY <1>9, <1>a, <1>c, <2>1 DEF WriteRecovered, Becomes
  <2>3. active' = active /\ Open' \subseteq Open
    BY <1>9 DEF WriteRecovered, Open, Inv, TypeOK
  <2> QED
    BY <2>1, <2>2, <2>3, <1>c
<1>10. ASSUME NEW a \in Actors, Clear(a) PROVE Good'
  <2>1. actor[a].at = "clearing" /\ actor'[a].at = "rest" /\ ~disturbed
    BY <1>10, <1>a, <1>d DEF Clear, Rests
  <2>2. \A b \in Actors \ {a} : actor'[b] = actor[b] /\ actor[b].at \notin Writing
    BY <1>10, <1>a, <1>c, <2>1 DEF Clear, Rests
  <2>3. active' = Cleared
    BY <1>10 DEF Clear
  <2> QED
    BY <2>1, <2>2, <2>3
<1>11. ASSUME NEW a \in Actors, Stops(a) PROVE Good'
  BY <1>11 DEF Stops
<1>12. CASE UNCHANGED vars
  BY <1>12, <1>c DEF vars, Open
<1>13. CASE Next
  <2>1. CASE \E a \in Actors, k \in Kinds, o \in BOOLEAN :
                Degrade(a, k, o) /\ actor[a].at \notin Writing
    BY <2>1, <1>2
  <2>2. CASE \E a \in Actors :
               \/ \E c \in Capabilities : Admit(a, c)
               \/ CallEnds(a) \/ WriteProfile(a) \/ WriteFailover(a) \/ BeginRecover(a)
               \/ ListFailovers(a) \/ WriteRecovered(a) \/ Clear(a) \/ Stops(a)
    BY <2>2, <1>3, <1>4, <1>5, <1>6, <1>7, <1>8, <1>9, <1>10, <1>11
  <2> QED
    BY <1>13, <2>1, <2>2, <1>1
       DEF Next, Acts, OperatorDegrades, QueueCongested, ProviderFails, McpFails, Kinds
<1> QED
  BY <1>12, <1>13

\* Every step preserves the invariant.
LEMMA InvStep == Inv /\ [Next]_vars => Inv'
  BY TypeStep, CarriedStep, OrderlyStep DEF Inv

-----------------------------------------------------------------------------
(* The rows of the session and the data its actors carry keep their types:  *)
(* no profile lives beyond its lifetime and no record without a start is    *)
(* ever stored, whatever overlaps or stops.                                 *)
THEOREM DegradeTypes == Spec => []TypeOK
<1>1. Inv => TypeOK
  BY DEF Inv
<1> QED
  BY <1>1, InitInv, InvStep, PTL DEF Spec

(* recover_from_degrade marks the failover of the profile it clears, as     *)
(* long as no two sequences of writes overlap and none stops half way.      *)
THEOREM RecoveryFindsItsFailover == Spec => []RecoversWhatItClears
<1>1. Inv => RecoversWhatItClears
  BY DEF Inv, Orderly, Aligned, RecoversWhatItClears
<1> QED
  BY <1>1, InitInv, InvStep, PTL DEF Spec
=============================================================================
