------------------------ MODULE TriggerRuntimeProofs ------------------------
(***************************************************************************)
(* Proofs about TriggerRuntime for any number of workers, chains and ids.   *)
(*                                                                          *)
(* RerunOnlyAfterInterrupt needs to know where the count of an execution    *)
(* stands: an event still in a listing has none (Untried), the one a worker *)
(* holds has one (HeldOnce), and a pending event with one is the event its  *)
(* worker holds (StillPending), so a new listing never meets a counted one. *)
(* ChainGoesOn is inductive with the types and the fact that the event      *)
(* whose successor is due is settled (SchedulingSettled), so that its slot  *)
(* is nobody else's to reuse and its chain is known.  OneEventPerChain, of  *)
(* a single worker, needs that what it has in hand are events of different  *)
(* chains, each the only one of its chain that may be pending (OneInHand).  *)
(***************************************************************************)
EXTENDS TriggerRuntime, TLAPS

\* The worker executes an event whose status it has not written.
Holds(w) == pc[w] \in {"executing", "completing", "failing"}

\* A busy worker is at an event that exists.
CurKnown == \A w \in Workers : Busy(w) => cur[w] \in Slots

\* What is still in a listing has not been executed.
Untried == \A w \in Workers : \A e \in queue[w] : ran[w][e] = 0

\* The event in hand has been executed once.
HeldOnce == \A w \in Workers : Holds(w) => ran[w][cur[w]] = 1

\* An event that was executed and is still pending is in the hands of its worker.
StillPending ==
    \A w \in Workers, e \in Slots :
        events[e].status = "queued" /\ ran[w][e] # 0 => Holds(w) /\ cur[w] = e

\* The event whose successor is being scheduled is settled.
SchedulingSettled ==
    \A w \in Workers : pc[w] = "scheduling" => events[cur[w]].status # "queued"

\* The inductive invariant of the counting argument.
Counted ==
    /\ TypeOK /\ CurKnown
    /\ Untried /\ HeldOnce /\ StillPending /\ SchedulingSettled
    /\ RerunOnlyAfterInterrupt

\* Nothing is listed or executed at the start.
LEMMA InitCounted == Init => Counted
  BY TriggerAssumption DEF Init, Counted, TypeOK, CurKnown, Busy, Untried, HeldOnce, Holds,
     StillPending, SchedulingSettled, RerunOnlyAfterInterrupt, Settled, AnyChain

-----------------------------------------------------------------------------
(* What a step does to the rows *)

\* Row e settles with status s, and nothing else about a chain or a status changes.
Settles(e, s) ==
    /\ \A f \in Slots : events'[f].chain = events[f].chain
    /\ \A f \in Slots : f # e => events'[f].status = events[f].status
    /\ events'[e].status = s

\* The rows of the event table.
Rows == [Slots -> [chain : Chains, status : {"none", "queued"} \cup Settled,
                   wait : 0..Period]]

\* update_schedule_status changes one status and no chain.
LEMMA StatusSet ==
  ASSUME events \in Rows, NEW e \in Slots, NEW s \in Settled, SetStatus(e, s)
  PROVE  events' \in Rows /\ Settles(e, s)
  BY DEF Rows, SetStatus, Settled, Settles

\* Time passing changes neither a status nor a chain.
LEMMA TickRows ==
  ASSUME events \in Rows, Tick
  PROVE  /\ events' \in Rows
         /\ \A f \in Slots : events'[f].chain = events[f].chain
         /\ \A f \in Slots : events'[f].status = events[f].status
<1>1. \A f \in Slots : events'[f] = [events[f] EXCEPT !.wait = IF @ > 0 THEN @ - 1 ELSE 0]
  BY DEF Tick
<1>2. \A f \in Slots : events[f] \in [chain : Chains, status : {"none", "queued"} \cup Settled,
                                      wait : 0..Period]
  BY DEF Rows
<1>3. \A f \in Slots : events'[f] \in [chain : Chains, status : {"none", "queued"} \cup Settled,
                                       wait : 0..Period]
  <2> SUFFICES ASSUME NEW f \in Slots
               PROVE  events'[f] \in [chain : Chains,
                        status : {"none", "queued"} \cup Settled, wait : 0..Period]
    OBVIOUS
  <2> DEFINE t == IF events[f].wait > 0 THEN events[f].wait - 1 ELSE 0
  <2>1. t \in 0..Period
    BY <1>2, TriggerAssumption
  <2>2. events'[f] = [events[f] EXCEPT !.wait = t]
    BY <1>1
  <2> HIDE DEF t
  <2> QED
    BY <1>2, <2>1, <2>2
<1>4. \A f \in Slots : events'[f].chain = events[f].chain /\ events'[f].status = events[f].status
  BY <1>1, <1>2
<1>5. events' \in Rows
  <2>1. events' = [f \in Slots |-> events'[f]]
    BY DEF Tick
  <2> QED
    BY <1>3, <2>1 DEF Rows
<1> QED
  BY <1>4, <1>5

-----------------------------------------------------------------------------
(* Types *)

\* Every step keeps rows and listings in their types.
LEMMA TypeStep == Counted /\ [Next]_vars => TypeOK' /\ CurKnown'
<1> SUFFICES ASSUME Counted, [Next]_vars PROVE TypeOK' /\ CurKnown'
  OBVIOUS
<1> USE TriggerAssumption DEF Counted, TypeOK, CurKnown, Busy, Settled
<1>1. ASSUME NEW c \in Chains, NEW e \in Slots, Register(c, e) PROVE TypeOK' /\ CurKnown'
  BY <1>1 DEF Register, NewEvent, Forget, worker
<1>2. ASSUME NEW w \in Workers, ListPending(w) PROVE TypeOK' /\ CurKnown'
  BY <1>2 DEF ListPending, Pending, Goto, store, history
<1>3. ASSUME NEW w \in Workers, NEW e \in Slots, Skip(w, e) PROVE TypeOK' /\ CurKnown'
  BY <1>3 DEF Skip, store, history
<1>4. ASSUME NEW w \in Workers, NEW e \in Slots, Execute(w, e) PROVE TypeOK' /\ CurKnown'
  BY <1>4 DEF Execute, Goto, store
<1>5. ASSUME NEW w \in Workers, NEW ok \in BOOLEAN, ExecutorReturns(w, ok)
      PROVE  TypeOK' /\ CurKnown'
  BY <1>5 DEF ExecutorReturns, Goto, store, history
<1>6. ASSUME NEW w \in Workers, Complete(w) PROVE TypeOK' /\ CurKnown'
  <2>1. cur[w] \in Slots
    BY <1>6 DEF Complete
  <2>2. events' \in Rows /\ Settles(cur[w], "completed")
    BY <1>6, <2>1, StatusSet DEF Complete, Rows, Settled
  <2>3. \/ pc' = [pc EXCEPT ![w] = "scheduling"] /\ cur' = cur
        \/ pc' = [pc EXCEPT ![w] = "scanning"] /\ cur' = [cur EXCEPT ![w] = NoSlot]
    BY <1>6 DEF Complete, NextEvent, Goto
  <2>4. UNCHANGED <<registered, queue, sweep, broken, ran>>
    BY <1>6 DEF Complete, history
  <2> QED
    BY <2>1, <2>2, <2>3, <2>4 DEF Rows
<1>7. ASSUME NEW w \in Workers, Fail(w) PROVE TypeOK' /\ CurKnown'
  <2>1. cur[w] \in Slots
    BY <1>7 DEF Fail
  <2>2. events' \in Rows /\ Settles(cur[w], "failed")
    BY <1>7, <2>1, StatusSet DEF Fail, Rows, Settled
  <2>3. QED
    BY <1>7, <2>1, <2>2 DEF Fail, NextEvent, Goto, Ends, Rows, Settles, Settled
<1>8. ASSUME NEW w \in Workers, NEW e \in Slots, ScheduleNext(w, e) PROVE TypeOK' /\ CurKnown'
  BY <1>8 DEF ScheduleNext, NewEvent, Forget, NextEvent, Goto
<1>9. ASSUME NEW w \in Workers, PassEnds(w) PROVE TypeOK' /\ CurKnown'
  BY <1>9 DEF PassEnds, Goto, store, history
<1>10. ASSUME NEW w \in Workers, Interrupted(w) PROVE TypeOK' /\ CurKnown'
  <2>1. ran' \in [Workers -> [Slots -> Nat]]
    BY <1>10 DEF Interrupted, HeldOnce, Holds
  <2> QED
    BY <1>10, <2>1 DEF Interrupted, Goto, store
<1>11. ASSUME CancelAll PROVE TypeOK' /\ CurKnown'
  BY <1>11 DEF CancelAll, store, worker, history
<1>12. ASSUME NEW e \in Slots, NEW written \in BOOLEAN, CancelOne(e, written)
       PROVE  TypeOK' /\ CurKnown'
  <2>1. CASE written
    <3>1. events' \in Rows /\ Settles(e, "cancelled")
      BY <1>12, <2>1, StatusSet DEF CancelOne, Rows, Settled
    <3> QED
      BY <1>12, <2>1, <3>1 DEF CancelOne, Ends, worker, Rows, Settles, Settled
  <2>2. CASE ~written
    BY <1>12, <2>2 DEF CancelOne, worker
  <2> QED
    BY <2>1, <2>2
<1>13. ASSUME Tick PROVE TypeOK' /\ CurKnown'
  BY <1>13, TickRows DEF Tick, worker, history, Rows
<1>14. ASSUME UNCHANGED vars PROVE TypeOK' /\ CurKnown'
  BY <1>14 DEF vars, store, worker, history
<1> QED
  BY <1>1, <1>2, <1>3, <1>4, <1>5, <1>6, <1>7, <1>8, <1>9, <1>10, <1>11, <1>12, <1>13, <1>14
     DEF Next, Pass

-----------------------------------------------------------------------------
(* Executions are counted right *)

\* Every step preserves the counting argument.
LEMMA CountedStep == Counted /\ [Next]_vars => Counted'
<1> SUFFICES ASSUME Counted, [Next]_vars PROVE Counted'
  OBVIOUS
<1>0. TypeOK' /\ CurKnown'
  BY TypeStep
<1> DEFINE Rest == Untried /\ HeldOnce /\ StillPending /\ SchedulingSettled
                   /\ RerunOnlyAfterInterrupt
<1> SUFFICES Rest'
  BY <1>0 DEF Counted
<1> USE DEF Counted, TypeOK, CurKnown, Busy, Holds, Untried, HeldOnce, StillPending,
        SchedulingSettled, RerunOnlyAfterInterrupt
<1>1. ASSUME NEW c \in Chains, NEW e \in Slots, Register(c, e) PROVE Rest'
  BY <1>1 DEF Register, NewEvent, Forget, Free, worker
<1>2. ASSUME NEW w \in Workers, ListPending(w) PROVE Rest'
  BY <1>2 DEF ListPending, Pending, Goto, store, history
<1>3. ASSUME NEW w \in Workers, NEW e \in Slots, Skip(w, e) PROVE Rest'
  BY <1>3 DEF Skip, store, history
<1>4. ASSUME NEW w \in Workers, NEW e \in Slots, Execute(w, e) PROVE Rest'
  BY <1>4 DEF Execute, Goto, store
<1>5. ASSUME NEW w \in Workers, NEW ok \in BOOLEAN, ExecutorReturns(w, ok) PROVE Rest'
  BY <1>5 DEF ExecutorReturns, Goto, store, history
<1>6. ASSUME NEW w \in Workers, Complete(w) PROVE Rest'
  <2>1. cur[w] \in Slots
    BY <1>6 DEF Complete
  <2>2. events' \in Rows /\ Settles(cur[w], "completed")
    BY <1>6, <2>1, StatusSet DEF Complete, Rows, Settled
  <2>3. \/ pc' = [pc EXCEPT ![w] = "scheduling"] /\ cur' = cur
        \/ pc' = [pc EXCEPT ![w] = "scanning"] /\ cur' = [cur EXCEPT ![w] = NoSlot]
    BY <1>6 DEF Complete, NextEvent, Goto
  <2>4. pc[w] = "completing" /\ UNCHANGED <<queue, ran>>
    BY <1>6 DEF Complete, history
  <2>5. Untried' /\ RerunOnlyAfterInterrupt'
    BY <2>4
  <2>6. HeldOnce'
    BY <2>3, <2>4
  <2>7. StillPending'
    BY <2>1, <2>2, <2>3, <2>4 DEF Settles
  <2>8. SchedulingSettled'
    BY <2>1, <2>2, <2>3, <2>4 DEF Settles
  <2> QED
    BY <2>5, <2>6, <2>7, <2>8
<1>7. ASSUME NEW w \in Workers, Fail(w) PROVE Rest'
  <2>1. cur[w] \in Slots
    BY <1>7 DEF Fail
  <2>2. events' \in Rows /\ Settles(cur[w], "failed")
    BY <1>7, <2>1, StatusSet DEF Fail, Rows, Settled
  <2>3. /\ pc[w] = "failing" /\ UNCHANGED <<queue, ran>>
        /\ pc' = [pc EXCEPT ![w] = "scanning"] /\ cur' = [cur EXCEPT ![w] = NoSlot]
    BY <1>7 DEF Fail, NextEvent, Goto
  <2>4. Untried' /\ RerunOnlyAfterInterrupt' /\ HeldOnce'
    BY <2>3
  <2>5. StillPending'
    BY <2>1, <2>2, <2>3 DEF Settles
  <2>6. SchedulingSettled'
    BY <2>1, <2>2, <2>3 DEF Settles
  <2> QED
    BY <2>4, <2>5, <2>6
<1>8. ASSUME NEW w \in Workers, NEW e \in Slots, ScheduleNext(w, e) PROVE Rest'
  BY <1>8 DEF ScheduleNext, NewEvent, Forget, Free, NextEvent, Goto
<1>9. ASSUME NEW w \in Workers, PassEnds(w) PROVE Rest'
  BY <1>9 DEF PassEnds, Goto, store, history
<1>10. ASSUME NEW w \in Workers, Interrupted(w) PROVE Rest'
  BY <1>10 DEF Interrupted, Goto, store
<1>11. ASSUME CancelAll PROVE Rest'
  BY <1>11 DEF CancelAll, store, worker, history
<1>12. ASSUME NEW e \in Slots, NEW written \in BOOLEAN, CancelOne(e, written) PROVE Rest'
  <2>1. CASE written
    <3>1. events' \in Rows /\ Settles(e, "cancelled")
      BY <1>12, <2>1, StatusSet DEF CancelOne, Rows, Settled
    <3>2. UNCHANGED <<pc, queue, cur, ran>>
      BY <1>12 DEF CancelOne, worker
    <3>3. Untried' /\ RerunOnlyAfterInterrupt' /\ HeldOnce'
      BY <3>2
    <3>4. StillPending'
      BY <3>1, <3>2 DEF Settles
    <3>5. SchedulingSettled'
      BY <3>1, <3>2 DEF Settles
    <3> QED
      BY <3>3, <3>4, <3>5
  <2>2. CASE ~written
    BY <1>12, <2>2 DEF CancelOne, worker
  <2> QED
    BY <2>1, <2>2
<1>13. ASSUME Tick PROVE Rest'
  BY <1>13, TickRows DEF Tick, worker, history, Rows
<1>14. ASSUME UNCHANGED vars PROVE Rest'
  BY <1>14 DEF vars, store, worker, history
<1> HIDE DEF Rest
<1> QED
  BY <1>1, <1>2, <1>3, <1>4, <1>5, <1>6, <1>7, <1>8, <1>9, <1>10, <1>11, <1>12, <1>13, <1>14
     DEF Next, Pass

\* The rows, listings and counts always have their types.
THEOREM TriggerTypes == Spec => []TypeOK
<1>1. Counted => TypeOK
  BY DEF Counted
<1> QED
  BY <1>1, InitCounted, CountedStep, PTL DEF Spec

\* For any number of overlapping passes, cancels and interruptions, a worker
\* executes an event again only after it was interrupted on it.
THEOREM ExecutedOnce == Spec => []RerunOnlyAfterInterrupt
<1>1. Counted => RerunOnlyAfterInterrupt
  BY DEF Counted
<1> QED
  BY <1>1, InitCounted, CountedStep, PTL DEF Spec

-----------------------------------------------------------------------------
(* A recurring trigger goes on *)

\* No chain has begun.
LEMMA InitGoesOn == Init => ChainGoesOn
  BY DEF Init, ChainGoesOn

\* Every step keeps the successor of a recurring event due or scheduled.
LEMMA GoesOnStep == Counted /\ ChainGoesOn /\ [Next]_vars => ChainGoesOn'
<1> SUFFICES ASSUME Counted, ChainGoesOn, [Next]_vars PROVE ChainGoesOn'
  OBVIOUS
<1> DEFINE
      Alive(c) == \/ \E e \in Slots : Live(e, c)
                  \/ \E w \in Workers : pc[w] = "scheduling" /\ events[cur[w]].chain = c
<1> SUFFICES ASSUME NEW c \in registered' \ broken', Kind[c] = "recurring" PROVE Alive(c)'
  BY DEF ChainGoesOn
<1>0. c \in registered /\ c \notin broken => Alive(c)
  BY DEF ChainGoesOn
<1> USE DEF Counted, TypeOK, CurKnown, Busy, SchedulingSettled, Live
<1>1. ASSUME NEW k \in Chains, NEW e \in Slots, Register(k, e) PROVE Alive(c)'
  BY <1>0, <1>1 DEF Register, NewEvent, Free, worker
<1>2. ASSUME NEW w \in Workers, ListPending(w) PROVE Alive(c)'
  BY <1>0, <1>2 DEF ListPending, Goto, store, history
<1>3. ASSUME NEW w \in Workers, NEW e \in Slots, Skip(w, e) PROVE Alive(c)'
  BY <1>0, <1>3 DEF Skip, store, history
<1>4. ASSUME NEW w \in Workers, NEW e \in Slots, Execute(w, e) PROVE Alive(c)'
  BY <1>0, <1>4 DEF Execute, Goto, store
<1>5. ASSUME NEW w \in Workers, NEW ok \in BOOLEAN, ExecutorReturns(w, ok) PROVE Alive(c)'
  BY <1>0, <1>5 DEF ExecutorReturns, Goto, store, history
<1>6. ASSUME NEW w \in Workers, Complete(w) PROVE Alive(c)'
  <2>1. cur[w] \in Slots
    BY <1>6 DEF Complete
  <2>2. events' \in Rows /\ Settles(cur[w], "completed")
    BY <1>6, <2>1, StatusSet DEF Complete, Rows, Settled
  <2>3. CASE events[cur[w]].chain = c
    BY <1>6, <2>1, <2>2, <2>3 DEF Complete, Goto, Settles
  <2>4. CASE events[cur[w]].chain # c
    <3>1. Alive(c)
      BY <1>0, <1>6 DEF Complete, history
    <3>2. ASSUME NEW e \in Slots, Live(e, c) PROVE Alive(c)'
      BY <2>1, <2>2, <2>4, <3>2 DEF Settles
    <3>3. ASSUME NEW v \in Workers, pc[v] = "scheduling", events[cur[v]].chain = c
          PROVE  Alive(c)'
      <4>1. v # w /\ cur[v] \in Slots
        BY <1>6, <3>3 DEF Complete
      <4>2. pc'[v] = pc[v] /\ cur'[v] = cur[v]
        BY <1>6, <4>1 DEF Complete, NextEvent, Goto
      <4> QED
        BY <2>2, <3>3, <4>1, <4>2 DEF Settles
    <3> QED
      BY <3>1, <3>2, <3>3
  <2> QED
    BY <2>3, <2>4
<1>7. ASSUME NEW w \in Workers, Fail(w) PROVE Alive(c)'
  <2>1. cur[w] \in Slots
    BY <1>7 DEF Fail
  <2>2. events' \in Rows /\ Settles(cur[w], "failed")
    BY <1>7, <2>1, StatusSet DEF Fail, Rows, Settled
  <2>3. QED
    BY <1>0, <1>7, <2>1, <2>2 DEF Fail, NextEvent, Goto, Ends, Rows, Settles, Settled
<1>8. ASSUME NEW w \in Workers, NEW e \in Slots, ScheduleNext(w, e) PROVE Alive(c)'
  BY <1>0, <1>8 DEF ScheduleNext, NewEvent, Free, NextEvent, Goto
<1>9. ASSUME NEW w \in Workers, PassEnds(w) PROVE Alive(c)'
  BY <1>0, <1>9 DEF PassEnds, Goto, store, history
<1>10. ASSUME NEW w \in Workers, Interrupted(w) PROVE Alive(c)'
  BY <1>0, <1>10 DEF Interrupted, Goto, store
<1>11. ASSUME CancelAll PROVE Alive(c)'
  BY <1>0, <1>11 DEF CancelAll, store, worker, history
<1>12. ASSUME NEW e \in Slots, NEW written \in BOOLEAN, CancelOne(e, written) PROVE Alive(c)'
  <2>1. CASE written
    <3>1. events' \in Rows /\ Settles(e, "cancelled")
      BY <1>12, <2>1, StatusSet DEF CancelOne, Rows, Settled
    <3> QED
      BY <1>0, <1>12, <2>1, <3>1 DEF CancelOne, Ends, worker, Rows, Settles, Settled
  <2>2. CASE ~written
    BY <1>0, <1>12, <2>2 DEF CancelOne, worker
  <2> QED
    BY <2>1, <2>2
<1>13. ASSUME Tick PROVE Alive(c)'
  <2>1. /\ \A f \in Slots : events'[f].chain = events[f].chain
        /\ \A f \in Slots : events'[f].status = events[f].status
    BY <1>13, TickRows DEF Rows
  <2>2. UNCHANGED <<registered, broken, pc, cur>>
    BY <1>13 DEF Tick, worker, history
  <2>3. \A w \in Workers : pc[w] = "scheduling" => cur[w] \in Slots
    OBVIOUS
  <2> QED
    BY <1>0, <2>1, <2>2, <2>3
<1>14. ASSUME UNCHANGED vars PROVE Alive(c)'
  BY <1>0, <1>14 DEF vars, store, worker, history
<1> HIDE DEF Alive
<1> QED
  BY <1>1, <1>2, <1>3, <1>4, <1>5, <1>6, <1>7, <1>8, <1>9, <1>10, <1>11, <1>12, <1>13, <1>14
     DEF Next, Pass

\* A recurring trigger has an event to fire, or a worker about to create it,
\* until an execution fails, it is cancelled or a process dies in between.
THEOREM TriggersGoOn == Spec => []ChainGoesOn
  BY InitCounted, InitGoesOn, CountedStep, GoesOnStep, PTL DEF Spec

-----------------------------------------------------------------------------
(* One worker, one event per chain *)

\* There is one worker at most.
Alone == \A v, w \in Workers : v = w

\* What a worker has listed and not written yet.
InHand(w) == queue[w] \cup { e \in Slots : Busy(w) /\ e = cur[w] }

\* An event in hand is the only one of its chain in hand, and the only one that may
\* still be pending.
OneInHand(w) ==
    /\ \A e \in InHand(w) : events[e].status # "none"
    /\ \A e \in InHand(w) : \A f \in Slots : Live(f, events[e].chain) => f = e
    /\ \A e, f \in InHand(w) : events[e].chain = events[f].chain => e = f
    /\ Busy(w) => cur[w] \notin queue[w]

\* Events belong to chains that were registered.
Recorded ==
    /\ \A e \in Slots : events[e].status # "none" => events[e].chain \in registered
    /\ \A e \in sweep : events[e].status # "none"

\* The inductive invariant of a single worker.
OneHeld == Recorded /\ OneEventPerChain /\ \A w \in Workers : OneInHand(w)

\* No event, no listing.
LEMMA InitOneHeld == Init => OneHeld
  BY DEF Init, OneHeld, Recorded, OneEventPerChain, Live, OneInHand, InHand, Busy

\* No chain changes, and an event that is there is settled or as it was.
RowsOnlySettle ==
    /\ \A f \in Slots : events'[f].chain = events[f].chain
    /\ \A f \in Slots : \/ events'[f].status = events[f].status
                        \/ events'[f].status \in Settled /\ events[f].status # "none"

\* A step that only settles events and takes none into hand.
LEMMA NothingNew ==
    ASSUME Counted, OneHeld, RowsOnlySettle, registered' = registered,
           \A e \in sweep' : e \in sweep \/ (e \in Slots /\ events[e].status # "none"),
           \A w \in Workers : InHand(w)' \subseteq InHand(w),
           \A w \in Workers : Busy(w)' => cur'[w] \notin queue'[w]
    PROVE  OneHeld'
<1> USE DEF Settled
<1>1. \A e \in Slots, c \in Chains : Live(e, c)' => Live(e, c)
  BY DEF RowsOnlySettle, Live
<1>2. \A e \in Slots : /\ events[e].chain \in Chains /\ events'[e].chain = events[e].chain
                       /\ events[e].status # "none" => events'[e].status # "none"
                       /\ events'[e].status # "none" => events[e].status # "none"
  BY DEF RowsOnlySettle, Counted, TypeOK
<1>3. sweep \subseteq Slots /\ \A w \in Workers : InHand(w) \subseteq Slots
  BY DEF Counted, TypeOK, InHand
<1>4. Recorded'
  BY <1>2, <1>3 DEF Recorded, OneHeld
<1>5. OneEventPerChain'
  BY <1>1 DEF OneEventPerChain, OneHeld
<1>6. ASSUME NEW w \in Workers PROVE OneInHand(w)'
  <2>1. OneInHand(w) /\ InHand(w)' \subseteq InHand(w) /\ InHand(w) \subseteq Slots
    BY <1>3 DEF OneHeld
  <2>2. \A e \in InHand(w)' : events'[e].status # "none"
    BY <1>2, <2>1 DEF OneInHand
  <2>3. ASSUME NEW e \in InHand(w)', NEW f \in Slots, Live(f, events[e].chain)' PROVE f = e
    <3>1. e \in InHand(w) /\ events'[e].chain = events[e].chain /\ events[e].chain \in Chains
      BY <1>2, <2>1
    <3>2. Live(f, events[e].chain)
      BY <1>2, <2>3, <3>1 DEF Live, RowsOnlySettle
    <3> QED
      BY <2>1, <3>1, <3>2 DEF OneInHand
  <2>4. ASSUME NEW e \in InHand(w)', NEW f \in InHand(w)', events'[e].chain = events'[f].chain
        PROVE  e = f
    <3>1. e \in InHand(w) /\ f \in InHand(w) /\ events[e].chain = events[f].chain
      BY <1>2, <2>1, <2>4
    <3> QED
      BY <2>1, <3>1 DEF OneInHand
  <2> QED
    BY <2>2, <2>3, <2>4 DEF OneInHand
<1> QED
  BY <1>4, <1>5, <1>6 DEF OneHeld

\* A new event in a free slot, of a chain nothing of which is pending or in hand.
LEMMA OneMore ==
    ASSUME Counted, OneHeld, NEW e \in Slots, NEW c \in Chains, NEW t \in 0..Period,
           Free(e), NewEvent(e, c, t), \A f \in Slots : ~Live(f, c),
           \A w \in Workers : \A g \in InHand(w)' : g \in InHand(w) /\ events[g].chain # c,
           \A w \in Workers : Busy(w)' => cur'[w] \notin queue'[w],
           registered \subseteq registered', c \in registered', sweep' = sweep
    PROVE  OneHeld'
<1>1. /\ events'[e].chain = c /\ events'[e].status = "queued"
      /\ \A f \in Slots \ {e} : events'[f] = events[f]
  BY DEF NewEvent, Counted, TypeOK
<1>2. /\ sweep \subseteq Slots /\ e \notin sweep /\ events[e].status # "queued"
      /\ \A w \in Workers : InHand(w) \subseteq Slots /\ e \notin InHand(w)
  BY DEF Counted, TypeOK, InHand, Free
<1>3. Recorded'
  BY <1>1, <1>2 DEF Recorded, OneHeld
<1>4. OneEventPerChain'
  BY <1>1 DEF OneEventPerChain, OneHeld, Live
<1>5. ASSUME NEW w \in Workers PROVE OneInHand(w)'
  <2>1. \A g \in InHand(w)' : /\ g \in InHand(w) /\ g \in Slots \ {e} /\ events'[g] = events[g]
                              /\ events[g].chain # c
    BY <1>1, <1>2
  <2>2. OneInHand(w)
    BY DEF OneHeld
  <2>3. ASSUME NEW g \in InHand(w)', NEW f \in Slots, Live(f, events[g].chain)' PROVE f = g
    <3>1. f # e /\ Live(f, events[g].chain)
      BY <1>1, <2>1, <2>3 DEF Live
    <3> QED
      BY <2>1, <2>2, <3>1 DEF OneInHand
  <2> QED
    BY <2>1, <2>2, <2>3 DEF OneInHand
<1> QED
  BY <1>3, <1>4, <1>5 DEF OneHeld

\* Every step keeps to one event per chain.
LEMMA OneHeldStep ==
    ASSUME Alone, Counted, OneHeld, [Next]_vars
    PROVE  OneHeld'
<1> USE DEF Counted, TypeOK, CurKnown
<1>0. /\ Recorded /\ OneEventPerChain /\ \A w \in Workers : OneInHand(w)
      /\ events \in Rows
  BY DEF OneHeld, Rows
<1>1. ASSUME NEW c \in Chains, NEW e \in Slots, Register(c, e) PROVE OneHeld'
  <2>1. /\ c \notin registered /\ Free(e) /\ NewEvent(e, c, 0)
        /\ registered' = registered \cup {c} /\ UNCHANGED <<pc, queue, cur, sweep>>
    BY <1>1 DEF Register, worker
  <2>2. \A f \in Slots : ~Live(f, c)
    BY <1>0, <2>1 DEF Recorded, Live
  <2>3. \A w \in Workers : InHand(w)' = InHand(w) /\ InHand(w) \subseteq Slots
    BY <2>1 DEF InHand, Busy
  <2>4. \A w \in Workers : \A g \in InHand(w)' : g \in InHand(w) /\ events[g].chain # c
    BY <1>0, <2>1, <2>3 DEF OneInHand, Recorded
  <2>5. \A w \in Workers : Busy(w)' => cur'[w] \notin queue'[w]
    BY <1>0, <2>1 DEF OneInHand, Busy
  <2>6. 0 \in 0..Period
    BY TriggerAssumption
  <2> QED
    BY <2>1, <2>2, <2>4, <2>5, <2>6, OneMore
<1>2. ASSUME NEW w \in Workers, ListPending(w) PROVE OneHeld'
  <2>1. /\ pc[w] = "idle" /\ queue' = [queue EXCEPT ![w] = Pending]
        /\ pc' = [pc EXCEPT ![w] = "scanning"]
        /\ UNCHANGED <<events, registered, cur, sweep>>
    BY <1>2 DEF ListPending, Goto, store
  <2>2. Recorded' /\ OneEventPerChain'
    BY <1>0, <2>1 DEF Recorded, OneEventPerChain, Live
  <2>3. ASSUME NEW v \in Workers PROVE OneInHand(v)'
    <3>1. v = w
      BY DEF Alone
    <3>2. ~Busy(v)' /\ InHand(v)' = Pending
      BY <2>1, <3>1 DEF Busy, InHand
    <3>3. \A e \in Pending : e \in Slots /\ events[e].status = "queued" /\ events[e].chain \in Chains
                             /\ Live(e, events[e].chain)
      BY DEF Pending, Live
    <3>4. \A e \in InHand(v)' : events'[e].status # "none"
      BY <2>1, <3>2, <3>3
    <3>5. ASSUME NEW e \in InHand(v)', NEW f \in Slots, Live(f, events[e].chain)' PROVE f = e
      <4>1. Live(f, events[e].chain) /\ Live(e, events[e].chain) /\ events[e].chain \in Chains
            /\ e \in Slots
        BY <2>1, <3>2, <3>3, <3>5 DEF Live
      <4> QED
        BY <1>0, <4>1 DEF OneEventPerChain
    <3>6. ASSUME NEW e \in InHand(v)', NEW f \in InHand(v)', events'[e].chain = events'[f].chain
          PROVE  e = f
      <4>1. /\ e \in Slots /\ f \in Slots /\ events[e].chain \in Chains
            /\ Live(e, events[e].chain) /\ Live(f, events[e].chain)
        BY <2>1, <3>2, <3>3, <3>6
      <4> QED
        BY <1>0, <4>1 DEF OneEventPerChain
    <3> QED
      BY <3>2, <3>4, <3>5, <3>6 DEF OneInHand
  <2> QED
    BY <2>2, <2>3 DEF OneHeld
<1>3. ASSUME NEW w \in Workers, NEW e \in Slots, ScheduleNext(w, e) PROVE OneHeld'
  <2>1. /\ pc[w] = "scheduling" /\ Free(e) /\ NewEvent(e, events[cur[w]].chain, Period)
        /\ pc' = [pc EXCEPT ![w] = "scanning"]
        /\ UNCHANGED <<registered, queue, sweep>>
    BY <1>3 DEF ScheduleNext, NextEvent, Goto
  <2>2. PICK c \in Chains : c = events[cur[w]].chain
    BY <2>1 DEF Busy
  <2>3. /\ cur[w] \in InHand(w) /\ cur[w] \in Slots /\ cur[w] \notin queue[w]
        /\ events[cur[w]].status # "queued" /\ OneInHand(w)
    BY <1>0, <2>1 DEF Busy, InHand, OneInHand, SchedulingSettled
  <2>4. \A f \in Slots : ~Live(f, c)
    BY <2>2, <2>3 DEF OneInHand, Live
  <2>5. ASSUME NEW v \in Workers
        PROVE  /\ ~Busy(v)' /\ InHand(v)' = queue[v]
               /\ \A g \in queue[v] : g \in InHand(v) /\ events[g].chain # c
    <3>1. v = w
      BY DEF Alone
    <3>2. ~Busy(v)' /\ InHand(v)' = queue[v]
      BY <2>1, <3>1 DEF Busy, InHand
    <3>3. \A g \in queue[v] : g \in InHand(v)
      BY DEF InHand
    <3> QED
      BY <2>2, <2>3, <3>1, <3>2, <3>3 DEF OneInHand
  <2>6. c \in registered
    BY <1>0, <2>2, <2>3 DEF OneInHand, Recorded
  <2>7. Period \in 0..Period /\ NewEvent(e, c, Period)
    BY <2>1, <2>2, TriggerAssumption
  <2>8. /\ \A v \in Workers : \A g \in InHand(v)' : g \in InHand(v) /\ events[g].chain # c
        /\ \A v \in Workers : Busy(v)' => cur'[v] \notin queue'[v]
    BY <2>5
  <2>9. registered \subseteq registered' /\ c \in registered' /\ sweep' = sweep /\ Free(e)
    BY <2>1, <2>6
  <2> QED
    BY <2>4, <2>7, <2>8, <2>9, OneMore
<1> DEFINE Settling ==
      /\ RowsOnlySettle /\ registered' = registered
      /\ \A e \in sweep' : e \in sweep \/ (e \in Slots /\ events[e].status # "none")
      /\ \A w \in Workers : InHand(w)' \subseteq InHand(w)
      /\ \A w \in Workers : Busy(w)' => cur'[w] \notin queue'[w]
<1>4. ASSUME Settling PROVE OneHeld'
  BY <1>4, NothingNew
<1>5. ASSUME events' = events PROVE RowsOnlySettle
  BY <1>5 DEF RowsOnlySettle
<1>6. ASSUME NEW e \in Slots, NEW s \in Settled, SetStatus(e, s), events[e].status # "none"
      PROVE  RowsOnlySettle
  BY <1>0, <1>6, StatusSet DEF Settles, RowsOnlySettle
<1>7. ASSUME NEW w \in Workers, NEW e \in Slots, Skip(w, e) \/ Execute(w, e) PROVE OneHeld'
  <2>1. /\ pc[w] = "scanning" /\ queue' = [queue EXCEPT ![w] = queue[w] \ {e}] /\ e \in queue[w]
        /\ \/ pc' = pc /\ cur' = cur
           \/ pc' = [pc EXCEPT ![w] = "executing"] /\ cur' = [cur EXCEPT ![w] = e]
        /\ UNCHANGED <<events, registered, sweep>>
    BY <1>7 DEF Skip, Execute, Goto, store
  <2>2. ASSUME NEW v \in Workers
        PROVE  InHand(v)' \subseteq InHand(v) /\ (Busy(v)' => cur'[v] \notin queue'[v])
    <3>1. v = w
      BY DEF Alone
    <3> QED
      BY <2>1, <3>1 DEF InHand, Busy
  <2> QED
    BY <1>4, <1>5, <2>1, <2>2
<1>8. ASSUME NEW w \in Workers, NEW ok \in BOOLEAN, ExecutorReturns(w, ok) PROVE OneHeld'
  <2>1. /\ pc[w] = "executing"
        /\ \/ pc' = [pc EXCEPT ![w] = "completing"] \/ pc' = [pc EXCEPT ![w] = "failing"]
        /\ UNCHANGED <<events, registered, queue, cur, sweep>>
    BY <1>8 DEF ExecutorReturns, Goto, store
  <2>2. \A v \in Workers : InHand(v)' = InHand(v) /\ (Busy(v)' <=> Busy(v))
    BY <2>1 DEF InHand, Busy
  <2>3. \A v \in Workers : Busy(v)' => cur'[v] \notin queue'[v]
    BY <1>0, <2>1, <2>2 DEF OneInHand
  <2> QED
    BY <1>4, <1>5, <2>1, <2>2, <2>3
<1>9. ASSUME NEW w \in Workers, Complete(w) \/ Fail(w) PROVE OneHeld'
  <2>1. PICK s \in Settled : SetStatus(cur[w], s)
    BY <1>9 DEF Complete, Fail, Settled
  <2>2. /\ Busy(w) /\ UNCHANGED <<registered, queue, sweep>>
        /\ \/ pc' = [pc EXCEPT ![w] = "scheduling"] /\ cur' = cur
           \/ pc' = [pc EXCEPT ![w] = "scanning"] /\ cur' = [cur EXCEPT ![w] = NoSlot]
    BY <1>9 DEF Complete, Fail, NextEvent, Goto, Busy
  <2>3. cur[w] \in Slots /\ events[cur[w]].status # "none"
    BY <1>0, <2>2 DEF OneInHand, InHand
  <2>4. RowsOnlySettle
    BY <1>6, <2>1, <2>3
  <2>5. ASSUME NEW v \in Workers
        PROVE  InHand(v)' \subseteq InHand(v) /\ (Busy(v)' => cur'[v] \notin queue'[v])
    <3>1. v = w
      BY DEF Alone
    <3> QED
      BY <1>0, <2>2, <3>1 DEF InHand, Busy, OneInHand
  <2> QED
    BY <1>4, <2>2, <2>4, <2>5
<1>10. ASSUME NEW w \in Workers, PassEnds(w) \/ Interrupted(w) PROVE OneHeld'
  <2>1. /\ pc' = [pc EXCEPT ![w] = "idle"]
        /\ \/ queue' = queue \/ queue' = [queue EXCEPT ![w] = {}]
        /\ UNCHANGED <<events, registered, sweep>>
    BY <1>10 DEF PassEnds, Interrupted, Goto, store
  <2>2. ASSUME NEW v \in Workers PROVE InHand(v)' \subseteq InHand(v) /\ ~Busy(v)'
    <3>1. v = w
      BY DEF Alone
    <3> QED
      BY <2>1, <3>1 DEF InHand, Busy
  <2> QED
    BY <1>4, <1>5, <2>1, <2>2
<1>11. ASSUME CancelAll PROVE OneHeld'
  <2>1. /\ sweep' = {e \in Slots : events[e].status # "none"}
        /\ UNCHANGED <<events, registered, pc, queue, cur>>
    BY <1>11 DEF CancelAll, store, worker
  <2>2. \A v \in Workers : InHand(v)' = InHand(v) /\ (Busy(v)' <=> Busy(v))
    BY <2>1 DEF InHand, Busy
  <2>3. \A v \in Workers : Busy(v)' => cur'[v] \notin queue'[v]
    BY <1>0, <2>1, <2>2 DEF OneInHand
  <2> QED
    BY <1>4, <1>5, <2>1, <2>2, <2>3
<1>12. ASSUME NEW e \in Slots, NEW written \in BOOLEAN, CancelOne(e, written) PROVE OneHeld'
  <2>1. /\ e \in sweep /\ sweep' = sweep \ {e} /\ UNCHANGED <<registered, pc, queue, cur>>
    BY <1>12 DEF CancelOne, worker
  <2>2. RowsOnlySettle
    <3>1. CASE written
      <4>1. SetStatus(e, "cancelled") /\ events[e].status # "none" /\ "cancelled" \in Settled
        BY <1>0, <1>12, <2>1, <3>1 DEF CancelOne, Recorded, Settled
      <4> QED
        BY <1>6, <4>1
    <3>2. CASE ~written
      BY <1>5, <1>12, <3>2 DEF CancelOne
    <3> QED
      BY <3>1, <3>2
  <2>3. \A v \in Workers : InHand(v)' = InHand(v) /\ (Busy(v)' <=> Busy(v))
    BY <2>1 DEF InHand, Busy
  <2>4. \A v \in Workers : Busy(v)' => cur'[v] \notin queue'[v]
    BY <1>0, <2>1, <2>3 DEF OneInHand
  <2> QED
    BY <1>4, <2>1, <2>2, <2>3, <2>4
<1>13. ASSUME Tick \/ UNCHANGED vars PROVE OneHeld'
  <2>1. UNCHANGED <<registered, pc, queue, cur, sweep>>
    BY <1>13 DEF Tick, vars, store, worker
  <2>2. RowsOnlySettle
    BY <1>0, <1>13, TickRows DEF RowsOnlySettle, vars, store
  <2>3. \A v \in Workers : InHand(v)' = InHand(v) /\ (Busy(v)' <=> Busy(v))
    BY <2>1 DEF InHand, Busy
  <2>4. \A v \in Workers : Busy(v)' => cur'[v] \notin queue'[v]
    BY <1>0, <2>1, <2>3 DEF OneInHand
  <2> QED
    BY <1>4, <2>1, <2>2, <2>3, <2>4
<1> HIDE DEF Settling
<1> QED
  BY <1>1, <1>2, <1>3, <1>7, <1>8, <1>9, <1>10, <1>11, <1>12, <1>13 DEF Next, Pass

\* With one worker, however passes are interrupted and events cancelled, a trigger
\* never has two events to fire (OneEventPerChain).
THEOREM SingleRate ==
    ASSUME Alone
    PROVE  Spec => []OneEventPerChain
<1>1. OneHeld => OneEventPerChain
  BY DEF OneHeld
<1>2. Counted /\ OneHeld /\ [Next]_vars => Counted' /\ OneHeld'
  BY CountedStep, OneHeldStep
<1> QED
  BY <1>1, <1>2, InitCounted, InitOneHeld, PTL DEF Spec
=============================================================================
