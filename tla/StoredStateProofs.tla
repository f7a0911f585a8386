-------------------------- MODULE StoredStateProofs --------------------------
(****************************************************************************)
(* Proofs about rows that follow a state, for any callers and bounds: the    *)
(* plugin registry (PluginLifecycle), the flow map and its views (FlowState) *)
(* and the store behind a mirror (StateMirror); then of all components of    *)
(* MCStoredState side by side.                                               *)
(*                                                                           *)
(* A plugin's rows follow its record because an operator that is alone writes *)
(* them with the record it left (WritesHeld), a flow's views because an update *)
(* that is alone saves the map it read (ReadIsCurrent).  An acknowledged value *)
(* is read again because as long as nothing fell back it is where reads look *)
(* (AtHome), and an entry that is written once is not replaced because a lone *)
(* call still sees what its checks saw (EvidenceSeen).                       *)
(****************************************************************************)
EXTENDS MCStoredState, TrailsAndQueuesProofs, SessionProofs, SequenceTheorems, TLAPS

-----------------------------------------------------------------------------
(* The plugin registry *)

\* The modes of a rollout.
PluginModes == {"none", "shadow", "live"}

\* What an operator carries from step to step.
PluginJobs ==
    [at : {"idle", "admit", "apply", "row", "index", "indexWrite", "mode"},
     op : {"none", "install", "enable", "rollout", "load"}, man : Nat,
     row : [man : Nat, state : PluginStates],
     copy : [man : Nat, state : PluginStates, mode : PluginModes], alone : BOOLEAN]

\* A record whose manifests are among the first m.
PluginRecords(m) ==
    { r \in [there : BOOLEAN, man : 0 .. m, state : PluginStates, hist : Seq(Nat),
             mode : PluginModes] :
        /\ \A i \in DOMAIN r.hist : r.hist[i] \in 1 .. m
        /\ r.there => \E i \in DOMAIN r.hist : r.hist[i] = r.man
        /\ r.state = "RolledBack" => Len(r.hist) >= 2 }

\* The record, the row, the host and the jobs are well-formed, and name manifests
\* that were made.
PluginShapes ==
    /\ made \in 0 .. MaxManifests /\ jobs \in 0 .. MaxJobs /\ crashes \in 0 .. MaxCrashes
    /\ rec \in PluginRecords(made)
    /\ row \in [man : Nat, state : PluginStates] /\ row.man <= made /\ host \in 0 .. made
    /\ job \in [Operators -> PluginJobs]
    /\ \A o \in Operators :
          /\ job[o].man <= made /\ job[o].row.man <= made
          /\ job[o].at \in {"admit", "apply"} /\ job[o].op = "install" => job[o].man # 0

\* What the admission has seen.
AdmissionHeld ==
    /\ rec.state = "Enabled" => rec.man \in admitted \cup overtaken /\ rec.man \in enabledOnce
    /\ host # 0 => host \in admitted /\ host \in enabledOnce
    /\ \A o \in Operators :
          /\ job[o].at = "apply" => job[o].man \in admitted
          /\ job[o].at \in {"admit", "apply"} /\ job[o].op = "load" => job[o].man \in enabledOnce
          /\ job[o].at \in {"admit", "apply"} /\ job[o].op \in {"enable", "rollout"} =>
                rec.man = job[o].man \/ rec.man \in overtaken

\* A row that says what the record says.
RowFits(rw, r) ==
    rw.man = r.man /\ (rw.state = r.state \/ (rw.state = "Installed" /\ r.mode = "shadow"))

\* What an operator that no other overlaps relies on.
LoneOperator(o) ==
    /\ \A q \in Operators \ {o} : ~Writing(q)
    /\ Writing(o) \/ job[o].at = "mode"
    /\ job[o].at = "row" => RowFits(job[o].row, rec)
    /\ job[o].at \in {"index", "indexWrite"} => RowFits(row, rec)
    /\ job[o].at = "indexWrite" => job[o].copy = Entry(rec)
    /\ job[o].at = "mode" => job[o].op = "rollout"
    /\ job[o].op = "rollout" => rec.state = "Enabled"

\* The rows of the plugin and of the index, while an operator that is alone writes.
WritesHeld ==
    /\ \A o \in Operators : job[o].alone => LoneOperator(o)
    /\ clean => /\ \A o \in Operators : ~Writing(o)
                /\ index = Entry(rec) /\ RowFits(row, rec)

\* The inductive invariant of the plugin registry.
PluginInv == PluginShapes /\ AdmissionHeld /\ WritesHeld

\* An operator at rest has a well-formed job.
LEMMA NoJobIsJob ==
    /\ NoJob \in PluginJobs /\ NoJob.at = "idle" /\ NoJob.alone = FALSE /\ NoJob.man = 0
    /\ NoJob.row.man = 0 /\ NoJob.op = "none"
BY DEF NoJob, PluginJobs, NoRow, Entry, NoRecord, PluginStates, PluginModes

\* A registry without the plugin has a well-formed record.
LEMMA NoRecordIsRecord == ASSUME NEW m \in Nat PROVE NoRecord \in PluginRecords(m)
BY DEF NoRecord, PluginRecords, PluginStates, PluginModes

\* A record from its parts.
LEMMA RecordOfParts ==
    ASSUME NEW m \in Nat, NEW there \in BOOLEAN, NEW k \in 0 .. m, NEW state \in PluginStates,
           NEW h \in Seq(Nat), NEW mod \in PluginModes,
           \A i \in DOMAIN h : h[i] \in 1 .. m,
           there => \E i \in DOMAIN h : h[i] = k,
           state = "RolledBack" => Len(h) >= 2
    PROVE  [there |-> there, man |-> k, state |-> state, hist |-> h, mode |-> mod]
             \in PluginRecords(m)
BY DEF PluginRecords

\* The fields of a well-formed record.
LEMMA PartsOfRecord ==
    ASSUME NEW m \in Nat, NEW r \in PluginRecords(m)
    PROVE  /\ r = [there |-> r.there, man |-> r.man, state |-> r.state, hist |-> r.hist,
                   mode |-> r.mode]
           /\ r.there \in BOOLEAN /\ r.man \in 0 .. m /\ r.state \in PluginStates
           /\ r.hist \in Seq(Nat) /\ r.mode \in PluginModes
           /\ \A i \in DOMAIN r.hist : r.hist[i] \in 1 .. m
           /\ r.there => \E i \in DOMAIN r.hist : r.hist[i] = r.man
           /\ r.state = "RolledBack" => Len(r.hist) >= 2
BY DEF PluginRecords

\* The history after an update.
LEMMA HistoryGrows ==
    ASSUME NEW m \in Nat, NEW h \in Seq(Nat), \A i \in DOMAIN h : h[i] \in 1 .. m
    PROVE  /\ Append(h, m + 1) \in Seq(Nat)
           /\ \A i \in DOMAIN Append(h, m + 1) : Append(h, m + 1)[i] \in 1 .. m + 1
           /\ \E i \in DOMAIN Append(h, m + 1) : Append(h, m + 1)[i] = m + 1
<1> DEFINE g == Append(h, m + 1)
<1>1. /\ g \in Seq(Nat) /\ DOMAIN g = 1 .. Len(h) + 1 /\ DOMAIN h = 1 .. Len(h)
      /\ Len(h) \in Nat
  OBVIOUS
<1>2. g[Len(h) + 1] = m + 1 /\ \A i \in 1 .. Len(h) : g[i] = h[i]
  OBVIOUS
<1> HIDE DEF g
<1>3. \A i \in 1 .. Len(h) + 1 : i \in 1 .. Len(h) \/ i = Len(h) + 1
  BY <1>1
<1>4. ASSUME NEW i \in 1 .. Len(h) PROVE h[i] \in 1 .. m + 1
  <2>1. h[i] \in 1 .. m
    BY <1>1
  <2> QED
    BY <2>1
<1>5. m + 1 \in 1 .. m + 1 /\ Len(h) + 1 \in 1 .. Len(h) + 1
  BY <1>1
<1>6. \A i \in DOMAIN g : g[i] \in 1 .. m + 1
  BY <1>1, <1>2, <1>3, <1>4, <1>5
<1>7. \E i \in DOMAIN g : g[i] = m + 1
  BY <1>1, <1>2, <1>5
<1> QED
  BY <1>1, <1>6, <1>7 DEF g

\* A record stays well-formed when one more manifest is made.
LEMMA RecordsGrow ==
    ASSUME NEW m \in Nat, NEW r \in PluginRecords(m)
    PROVE  r \in PluginRecords(m + 1)
BY DEF PluginRecords

\* A registry with nothing installed satisfies the invariant.
LEMMA PluginInitInv == PluginInit => PluginInv
<1> SUFFICES ASSUME PluginInit PROVE PluginInv
  OBVIOUS
<1>1. PluginShapes
  BY PluginBounds, NoJobIsJob, NoRecordIsRecord
     DEF PluginInit, PluginShapes, NoRow, PluginStates
<1> QED
  BY <1>1, NoJobIsJob DEF PluginInit, PluginInv, AdmissionHeld, WritesHeld, NoRecord

\* A change of the record leaves the others where they are, and not alone.
OthersKeepJobs(o) ==
    \A p \in Operators \ {o} :
       /\ job'[p].at = job[p].at /\ job'[p].op = job[p].op
       /\ job'[p].man = job[p].man /\ job'[p].row = job[p].row /\ ~job'[p].alone

\* The job of the operator that changes the record, and those of the others.
LEMMA ChangeJobs ==
    ASSUME PluginShapes, NEW o \in Operators, NEW act, NEW r, NEW rowState,
           Change(o, act, r, rowState), r.man \in Nat, rowState \in PluginStates
    PROVE  /\ job' \in [Operators -> PluginJobs]
           /\ OthersKeepJobs(o)
           /\ job'[o].at = "row" /\ job'[o].man = 0
           /\ job'[o].op = (IF act = "rollout" THEN act ELSE "none")
           /\ job'[o].row = [man |-> r.man, state |-> rowState]
           /\ job'[o].alone => (act = "live" => job[o].alone)
           /\ job'[o].alone => \A q \in Operators \ {o} : ~Writing(q)
<1> DEFINE mine == [job[o] EXCEPT !.at = "row",
                                  !.op = IF act = "rollout" THEN act ELSE "none",
                                  !.row = [man |-> r.man, state |-> rowState],
                                  !.man = 0,
                                  !.alone = /\ act = "live" => job[o].alone
                                            /\ \A q \in Operators \ {o} : ~Writing(q)]
           other(p) == [job[p] EXCEPT !.alone = FALSE]
<1>1. job' = [p \in Operators |-> IF p = o THEN mine ELSE other(p)]
  BY DEF Change
<1>2. job[o] \in PluginJobs /\ \A p \in Operators : job[p] \in PluginJobs
  BY DEF PluginShapes
<1>3. mine \in PluginJobs
  BY <1>2 DEF PluginJobs
<1>4. \A p \in Operators : other(p) \in PluginJobs
  BY <1>2 DEF PluginJobs
<1>5. job'[o] = mine /\ \A p \in Operators \ {o} : job'[p] = other(p)
  BY <1>1
<1>6. job' \in [Operators -> PluginJobs]
  <2> HIDE DEF mine, other
  <2> QED
    BY <1>1, <1>3, <1>4
<1>7. OthersKeepJobs(o)
  <2>1. ASSUME NEW p \in Operators \ {o}
        PROVE  /\ job'[p].at = job[p].at /\ job'[p].op = job[p].op
               /\ job'[p].man = job[p].man /\ job'[p].row = job[p].row
               /\ job'[p].alone = FALSE
    <3>1. job'[p] = [job[p] EXCEPT !.alone = FALSE] /\ job[p] \in PluginJobs
      BY <1>2, <1>5
    <3> QED
      BY <3>1 DEF PluginJobs
  <2> QED
    BY <2>1 DEF OthersKeepJobs
<1>8. /\ job'[o].at = "row" /\ job'[o].man = 0
      /\ job'[o].op = (IF act = "rollout" THEN act ELSE "none")
      /\ job'[o].row = [man |-> r.man, state |-> rowState]
  BY <1>2, <1>5 DEF PluginJobs
<1>9. ASSUME job'[o].alone
      PROVE  (act = "live" => job[o].alone) /\ \A q \in Operators \ {o} : ~Writing(q)
  <2>1. mine.alone = (/\ act = "live" => job[o].alone
                      /\ \A q \in Operators \ {o} : ~Writing(q))
    BY <1>2 DEF PluginJobs
  <2>2. mine.alone
    BY <1>5, <1>9
  <2> HIDE DEF mine
  <2> QED
    BY <2>1, <2>2
<1> HIDE DEF mine, other
<1> QED
  BY <1>6, <1>7, <1>8, <1>9

\* An operation that changes the record keeps everything well-formed.
LEMMA ChangeShapes ==
    ASSUME PluginShapes, NEW o \in Operators, NEW act, NEW r, NEW rowState,
           Change(o, act, r, rowState), rowState \in PluginStates,
           made' \in {made, made + 1}, made' <= MaxManifests, r \in PluginRecords(made'),
           jobs' \in {jobs, jobs + 1}, jobs' <= MaxJobs
    PROVE  PluginShapes'
<1>1. /\ rec' = r /\ UNCHANGED <<host, row, crashes>> /\ r.man \in 0 .. made' /\ made' \in Nat
      /\ made <= made' /\ made \in Nat
  <2>1. made \in Nat /\ made' \in Nat /\ made <= made'
    BY PluginBounds DEF PluginShapes
  <2>2. r.man \in 0 .. made'
    BY DEF PluginRecords
  <2>3. rec' = r /\ UNCHANGED <<host, row, crashes>>
    BY DEF Change
  <2> QED
    BY <2>1, <2>2, <2>3
<1>0. r.man \in Nat
  BY <1>1
<1>2. job' \in [Operators -> PluginJobs]
  BY <1>0, ChangeJobs
<1>3. \A p \in Operators :
          /\ job'[p].man <= made' /\ job'[p].row.man <= made'
          /\ job'[p].at \in {"admit", "apply"} /\ job'[p].op = "install" => job'[p].man # 0
  <2>1. /\ job'[o].at = "row" /\ job'[o].man = 0
        /\ job'[o].row = [man |-> r.man, state |-> rowState]
    BY <1>0, ChangeJobs
  <2>2. OthersKeepJobs(o)
    BY <1>0, ChangeJobs
  <2>3. \A p \in Operators : job[p].man \in Nat /\ job[p].row.man \in Nat
    BY DEF PluginShapes, PluginJobs
  <2>4. ASSUME NEW p \in Operators \ {o}
        PROVE  /\ job'[p].man <= made' /\ job'[p].row.man <= made'
               /\ job'[p].at \in {"admit", "apply"} /\ job'[p].op = "install" => job'[p].man # 0
    <3>1. /\ job[p].man <= made /\ job[p].row.man <= made
          /\ job[p].at \in {"admit", "apply"} /\ job[p].op = "install" => job[p].man # 0
      BY DEF PluginShapes
    <3> QED
      BY <1>1, <2>2, <2>3, <3>1 DEF OthersKeepJobs
  <2>5. /\ job'[o].man <= made' /\ job'[o].row.man <= made'
        /\ job'[o].at \notin {"admit", "apply"}
    BY <1>1, <2>1
  <2> QED
    BY <2>4, <2>5
<1> QED
  BY <1>1, <1>2, <1>3, PluginBounds DEF PluginShapes

\* An operation that changes the record keeps what the admission has seen.
LEMMA ChangeAdmission ==
    ASSUME PluginShapes, AdmissionHeld, NEW o \in Operators, NEW act, NEW r, NEW rowState,
           Change(o, act, r, rowState), rowState \in PluginStates, r.man \in Nat,
           r.state = "Enabled" => r.man \in admitted \cup overtaken
    PROVE  AdmissionHeld'
<1>1. job'[o].at = "row" /\ OthersKeepJobs(o)
  BY ChangeJobs
<1>2. /\ rec' = r /\ UNCHANGED <<host, admitted>>
      /\ enabledOnce \subseteq enabledOnce' /\ overtaken \subseteq overtaken'
      /\ r.state = "Enabled" => r.man \in enabledOnce'
      /\ r.man # rec.man /\ (\E p \in Operators \ {o} : /\ job[p].at \in {"admit", "apply"}
                                           /\ job[p].op \in {"enable", "rollout"})
            => r.man \in overtaken'
  BY DEF Change
<1>3. \A p \in Operators \ {o} :
         job'[p].at \in {"admit", "apply"} /\ job'[p].op \in {"enable", "rollout"} =>
                rec'.man = job'[p].man \/ rec'.man \in overtaken'
  BY <1>1, <1>2 DEF AdmissionHeld, OthersKeepJobs
<1> QED
  BY <1>1, <1>2, <1>3 DEF AdmissionHeld, OthersKeepJobs

\* An operation that changes the record is the one that writes its rows.
LEMMA ChangeWrites ==
    ASSUME PluginShapes, WritesHeld, NEW o \in Operators, NEW act, NEW r, NEW rowState,
           Change(o, act, r, rowState), rowState \in PluginStates, r.man \in Nat,
           \/ act = "live" /\ ~job[o].alone
           \/ rowState = r.state \/ (rowState = "Installed" /\ r.mode = "shadow"),
           act = "rollout" => r.state = "Enabled"
    PROVE  WritesHeld'
<1>1. /\ job'[o].at = "row" /\ job'[o].op = (IF act = "rollout" THEN act ELSE "none")
      /\ job'[o].row = [man |-> r.man, state |-> rowState]
      /\ job'[o].alone => (act = "live" => job[o].alone)
      /\ job'[o].alone => \A q \in Operators \ {o} : ~Writing(q)
      /\ OthersKeepJobs(o)
  BY ChangeJobs
<1>2. rec' = r /\ ~clean'
  BY DEF Change
<1>3. job'[o].alone => LoneOperator(o)'
  BY <1>1, <1>2 DEF LoneOperator, RowFits, Writing, OthersKeepJobs
<1> QED
  BY <1>1, <1>2, <1>3 DEF WritesHeld, OthersKeepJobs

\* Together: what an operation has to show of the record it leaves.
LEMMA ChangeInv ==
    ASSUME PluginInv, NEW o \in Operators, NEW act, NEW r, NEW rowState,
           Change(o, act, r, rowState), rowState \in PluginStates,
           made' \in {made, made + 1}, made' <= MaxManifests, r \in PluginRecords(made'),
           jobs' \in {jobs, jobs + 1}, jobs' <= MaxJobs,
           r.state = "Enabled" => r.man \in admitted \cup overtaken,
           \/ act = "live" /\ ~job[o].alone
           \/ rowState = r.state \/ (rowState = "Installed" /\ r.mode = "shadow"),
           act = "rollout" => r.state = "Enabled"
    PROVE  PluginInv'
<1>1. r.man \in Nat
  BY PluginBounds DEF PluginInv, PluginShapes, PluginRecords
<1>2. PluginShapes'
  BY ChangeShapes DEF PluginInv
<1>3. AdmissionHeld'
  BY <1>1, ChangeAdmission DEF PluginInv
<1>4. WritesHeld'
  BY <1>1, ChangeWrites DEF PluginInv
<1> QED
  BY <1>2, <1>3, <1>4 DEF PluginInv

\* The others' jobs are as they were.
OthersStay(o) == \A p \in Operators \ {o} : job'[p] = job[p]

\* A step of one operator that leaves record, row and index alone, and after which
\* the operator is writing nothing, unsettles nobody's writes.
LEMMA QuietStep ==
    ASSUME PluginInv, NEW o \in Operators, OthersStay(o), UNCHANGED <<rec, row, index, clean>>,
           job'[o].at \notin {"row", "index", "indexWrite"}, job'[o].alone = FALSE
    PROVE  WritesHeld'
<1>1. ASSUME NEW q \in Operators, job'[q].alone PROVE LoneOperator(q)'
  <2>1. q # o /\ job'[q] = job[q] /\ LoneOperator(q)
    BY <1>1 DEF PluginInv, WritesHeld, OthersStay
  <2> QED
    BY <2>1 DEF LoneOperator, Writing, OthersStay
<1>2. clean => \A p \in Operators : ~Writing(p)'
  BY DEF PluginInv, WritesHeld, Writing, OthersStay
<1> QED
  BY <1>1, <1>2 DEF PluginInv, WritesHeld

\* An operator that begins is alone only if no other is at work.
LEMMA IdleIsNotAlone ==
    ASSUME PluginInv, NEW o \in Operators, ~Writing(o), job[o].at # "mode"
    PROVE  job[o].alone = FALSE
BY DEF PluginInv, WritesHeld, LoneOperator, PluginShapes, PluginJobs

\* An operation that begins carries its manifest.
LEMMA JobBegins ==
    ASSUME NEW j \in PluginJobs, NEW act \in {"install", "enable", "rollout", "load"}, NEW m \in Nat
    PROVE  [j EXCEPT !.at = "admit", !.op = act, !.man = m] \in PluginJobs
BY DEF PluginJobs

\* The steps up to the admission preserve the invariant.
LEMMA PluginAdmissionSteps ==
    ASSUME PluginInv, NEW o \in Operators,
           \/ BeginInstall(o) \/ \E act \in {"enable", "rollout", "load"} : ReadRecord(o, act)
           \/ PassAdmission(o) \/ Load(o) \/ OperationFails(o)
    PROVE  PluginInv'
<1> USE PluginBounds
<1>0. job \in [Operators -> PluginJobs] /\ job[o] \in PluginJobs /\ made \in Nat
  BY DEF PluginInv, PluginShapes
<1>1. CASE BeginInstall(o)
  <2>1. /\ ~Writing(o) /\ job[o].at = "idle" /\ made' = made + 1 /\ made < MaxManifests
        /\ jobs' = jobs + 1 /\ jobs < MaxJobs
        /\ UNCHANGED <<rec, host, row, index, crashes, admitted, enabledOnce, overtaken, clean>>
        /\ job' = [job EXCEPT ![o] = [@ EXCEPT !.at = "admit", !.op = "install",
                                               !.man = made + 1]]
    BY <1>1 DEF BeginInstall, Begins, Writing
  <2>2. job[o].alone = FALSE
    BY <2>1, IdleIsNotAlone
  <2>3. /\ job'[o].at = "admit" /\ job'[o].op = "install" /\ job'[o].man = made + 1
        /\ job'[o].row = job[o].row /\ job'[o].alone = FALSE
    BY <1>0, <2>1, <2>2 DEF PluginJobs
  <2>4. OthersStay(o)
    BY <1>0, <2>1 DEF OthersStay
  <2>5. job' \in [Operators -> PluginJobs]
    <3> DEFINE j == [job[o] EXCEPT !.at = "admit", !.op = "install", !.man = made + 1]
    <3>1. j \in PluginJobs
      BY <1>0, made + 1 \in Nat, JobBegins
    <3>2. job' = [job EXCEPT ![o] = j]
      BY <2>1
    <3> HIDE DEF j
    <3> QED
      BY <1>0, <3>1, <3>2
  <2>6. rec' \in PluginRecords(made')
    BY <1>0, <2>1, RecordsGrow DEF PluginInv, PluginShapes
  <2>7. \A p \in Operators :
          /\ job'[p].man <= made' /\ job'[p].row.man <= made'
          /\ job'[p].at \in {"admit", "apply"} /\ job'[p].op = "install" => job'[p].man # 0
    BY <1>0, <2>1, <2>3, <2>4 DEF OthersStay, PluginInv, PluginShapes, PluginJobs
  <2>8. PluginShapes'
    BY <1>0, <2>1, <2>5, <2>6, <2>7 DEF PluginInv, PluginShapes
  <2>9. AdmissionHeld'
    BY <2>1, <2>3, <2>4 DEF PluginInv, AdmissionHeld, OthersStay
  <2> QED
    BY <2>1, <2>3, <2>4, <2>8, <2>9, QuietStep DEF PluginInv
<1>2. ASSUME NEW act \in {"enable", "rollout", "load"}, ReadRecord(o, act) PROVE PluginInv'
  <2>1. /\ ~Writing(o) /\ job[o].at = "idle" /\ jobs' = jobs + 1 /\ jobs < MaxJobs
        /\ act = "load" => rec.state = "Enabled"
        /\ UNCHANGED <<rec, made, host, row, index, crashes, admitted, enabledOnce, overtaken,
                       clean>>
        /\ job' = [job EXCEPT ![o] = [@ EXCEPT !.at = "admit", !.op = act, !.man = rec.man]]
    BY <1>2 DEF ReadRecord, Begins, Writing
  <2>2. job[o].alone = FALSE /\ rec.man \in 0 .. made
    BY <2>1, IdleIsNotAlone DEF PluginInv, PluginShapes, PluginRecords
  <2>3. /\ job'[o].at = "admit" /\ job'[o].op = act /\ job'[o].man = rec.man
        /\ job'[o].row = job[o].row /\ job'[o].alone = FALSE
    BY <1>0, <2>1, <2>2 DEF PluginJobs
  <2>4. OthersStay(o)
    BY <1>0, <2>1 DEF OthersStay
  <2>5. job' \in [Operators -> PluginJobs]
    <3> DEFINE j == [job[o] EXCEPT !.at = "admit", !.op = act, !.man = rec.man]
    <3>1. j \in PluginJobs
      BY <1>0, <2>2, rec.man \in Nat, JobBegins
    <3>2. job' = [job EXCEPT ![o] = j]
      BY <2>1
    <3> HIDE DEF j
    <3> QED
      BY <1>0, <3>1, <3>2
  <2>7. \A p \in Operators :
          /\ job'[p].man <= made' /\ job'[p].row.man <= made'
          /\ job'[p].at \in {"admit", "apply"} /\ job'[p].op = "install" => job'[p].man # 0
    BY <2>1, <2>2, <2>3, <2>4 DEF OthersStay, PluginInv, PluginShapes
  <2>8. PluginShapes'
    BY <1>0, <2>1, <2>5, <2>7 DEF PluginInv, PluginShapes
  <2>9. AdmissionHeld'
    BY <2>1, <2>3, <2>4 DEF PluginInv, AdmissionHeld, OthersStay
  <2> QED
    BY <2>1, <2>3, <2>4, <2>8, <2>9, QuietStep DEF PluginInv
<1>3. CASE PassAdmission(o)
  <2>1. /\ ~Writing(o) /\ job[o].at = "admit" /\ admitted' = admitted \cup {job[o].man}
        /\ UNCHANGED <<rec, made, host, row, index, jobs, crashes, enabledOnce, overtaken, clean>>
        /\ job' = [job EXCEPT ![o].at = "apply"]
    BY <1>3 DEF PassAdmission, Writing
  <2>2. job[o].alone = FALSE
    BY <2>1, IdleIsNotAlone
  <2>3. /\ job'[o].at = "apply" /\ job'[o].op = job[o].op /\ job'[o].man = job[o].man
        /\ job'[o].row = job[o].row /\ job'[o].alone = FALSE
    BY <1>0, <2>1, <2>2 DEF PluginJobs
  <2>4. OthersStay(o)
    BY <1>0, <2>1 DEF OthersStay
  <2>5. job' \in [Operators -> PluginJobs]
    BY <1>0, <2>1 DEF PluginJobs
  <2>7. \A p \in Operators :
          /\ job'[p].man <= made' /\ job'[p].row.man <= made'
          /\ job'[p].at \in {"admit", "apply"} /\ job'[p].op = "install" => job'[p].man # 0
    BY <2>1, <2>3, <2>4 DEF OthersStay, PluginInv, PluginShapes
  <2>8. PluginShapes'
    BY <1>0, <2>1, <2>5, <2>7 DEF PluginInv, PluginShapes
  <2>9. AdmissionHeld'
    BY <2>1, <2>3, <2>4 DEF PluginInv, AdmissionHeld, OthersStay
  <2> QED
    BY <2>1, <2>3, <2>4, <2>8, <2>9, QuietStep DEF PluginInv
<1>4. CASE Load(o) \/ OperationFails(o)
  <2>1. /\ job' = [job EXCEPT ![o] = NoJob]
        /\ UNCHANGED <<rec, made, row, index, jobs, crashes, admitted, enabledOnce, overtaken,
                       clean>>
        /\ \/ host' = host
           \/ host' = job[o].man /\ job[o].at = "apply" /\ job[o].op = "load"
    BY <1>4 DEF Load, OperationFails
  <2>2. OthersStay(o) /\ job'[o] = NoJob
    BY <1>0, <2>1 DEF OthersStay
  <2>3. /\ job' \in [Operators -> PluginJobs] /\ host' \in 0 .. made
    BY <1>0, <2>1, NoJobIsJob DEF PluginInv, PluginShapes, PluginJobs
  <2>4. \A p \in Operators :
          /\ job'[p].man <= made' /\ job'[p].row.man <= made'
          /\ job'[p].at \in {"admit", "apply"} /\ job'[p].op = "install" => job'[p].man # 0
    BY <1>0, <2>1, <2>2, NoJobIsJob DEF OthersStay, PluginInv, PluginShapes
  <2>5. PluginShapes'
    BY <2>1, <2>3, <2>4 DEF PluginInv, PluginShapes
  <2>6. AdmissionHeld'
    BY <2>1, <2>2, NoJobIsJob DEF PluginInv, AdmissionHeld, OthersStay
  <2> QED
    BY <2>1, <2>2, <2>5, <2>6, NoJobIsJob, QuietStep DEF PluginInv
<1> QED
  BY <1>1, <1>2, <1>3, <1>4

\* The writes of row and index, by an operator that is alone or not.
LEMMA PluginWriteSteps ==
    ASSUME PluginInv, NEW o \in Operators,
           PersistManifest(o) \/ CopyIndex(o) \/ WriteIndex(o)
    PROVE  PluginInv'
<1> USE PluginBounds
<1>0. /\ job \in [Operators -> PluginJobs] /\ job[o] \in PluginJobs /\ made \in Nat
      /\ rec.man \in Nat /\ rec.state \in PluginStates /\ rec.mode \in PluginModes
  BY DEF PluginInv, PluginShapes, PluginRecords
<1>a. Writing(o) /\ ~clean /\ \A q \in Operators \ {o} : ~job[q].alone
  <2>1. Writing(o)
    BY DEF PersistManifest, CopyIndex, WriteIndex, Writing
  <2> QED
    BY <2>1 DEF PluginInv, WritesHeld, LoneOperator
<1>1. CASE PersistManifest(o)
  <2>1. /\ job[o].at = "row" /\ row' = job[o].row
        /\ job' = [job EXCEPT ![o] = [@ EXCEPT !.at = "index", !.row = NoRow]]
        /\ UNCHANGED <<rec, made, host, index, jobs, crashes, admitted, enabledOnce, overtaken,
                       clean>>
    BY <1>1 DEF PersistManifest
  <2>2. OthersStay(o)
    BY <1>0, <2>1 DEF OthersStay
  <2>3. /\ job'[o].at = "index" /\ job'[o].op = job[o].op /\ job'[o].man = job[o].man
        /\ job'[o].row = NoRow /\ job'[o].alone = job[o].alone
    BY <1>0, <2>1 DEF PluginJobs
  <2>4. NoRow \in [man : Nat, state : PluginStates] /\ NoRow.man = 0
    BY DEF NoRow, PluginStates
  <2>5. job' \in [Operators -> PluginJobs]
    <3> DEFINE j == [job[o] EXCEPT !.at = "index", !.row = NoRow]
    <3>1. j \in PluginJobs
      BY <1>0, <2>4 DEF PluginJobs
    <3>2. job' = [job EXCEPT ![o] = j]
      BY <2>1
    <3> HIDE DEF j
    <3> QED
      BY <1>0, <3>1, <3>2
  <2>6. \A p \in Operators :
          /\ job'[p].man <= made' /\ job'[p].row.man <= made'
          /\ job'[p].at \in {"admit", "apply"} /\ job'[p].op = "install" => job'[p].man # 0
    BY <1>0, <2>1, <2>2, <2>3, <2>4 DEF OthersStay, PluginInv, PluginShapes
  <2>7. row' \in [man : Nat, state : PluginStates] /\ row'.man <= made'
    BY <1>0, <2>1 DEF PluginInv, PluginShapes, PluginJobs
  <2>8. PluginShapes'
    BY <2>1, <2>5, <2>6, <2>7 DEF PluginInv, PluginShapes
  <2>9. AdmissionHeld'
    BY <2>1, <2>2, <2>3 DEF PluginInv, AdmissionHeld, OthersStay
  <2>10. job[o].alone => LoneOperator(o)'
    BY <1>a, <2>1, <2>2, <2>3 DEF PluginInv, WritesHeld, LoneOperator, Writing, OthersStay
  <2>11. WritesHeld'
    BY <1>a, <2>1, <2>2, <2>3, <2>10 DEF WritesHeld, OthersStay
  <2> QED
    BY <2>8, <2>9, <2>11 DEF PluginInv
<1>2. CASE CopyIndex(o)
  <2>1. /\ job[o].at = "index"
        /\ job' = [job EXCEPT ![o] = [@ EXCEPT !.at = "indexWrite", !.copy = Entry(rec)]]
        /\ UNCHANGED <<rec, made, host, row, index, jobs, crashes, admitted, enabledOnce,
                       overtaken, clean>>
    BY <1>2 DEF CopyIndex
  <2>2. OthersStay(o)
    BY <1>0, <2>1 DEF OthersStay
  <2>3. /\ job'[o].at = "indexWrite" /\ job'[o].op = job[o].op /\ job'[o].man = job[o].man
        /\ job'[o].row = job[o].row /\ job'[o].alone = job[o].alone
        /\ job'[o].copy = Entry(rec)
    BY <1>0, <2>1 DEF PluginJobs
  <2>5. job' \in [Operators -> PluginJobs]
    <3> DEFINE j == [job[o] EXCEPT !.at = "indexWrite", !.copy = Entry(rec)]
    <3>1. j \in PluginJobs
      BY <1>0 DEF PluginJobs, Entry
    <3>2. job' = [job EXCEPT ![o] = j]
      BY <2>1
    <3> HIDE DEF j
    <3> QED
      BY <1>0, <3>1, <3>2
  <2>6. \A p \in Operators :
          /\ job'[p].man <= made' /\ job'[p].row.man <= made'
          /\ job'[p].at \in {"admit", "apply"} /\ job'[p].op = "install" => job'[p].man # 0
    BY <1>0, <2>1, <2>2, <2>3 DEF OthersStay, PluginInv, PluginShapes
  <2>8. PluginShapes'
    BY <2>1, <2>5, <2>6 DEF PluginInv, PluginShapes
  <2>9. AdmissionHeld'
    BY <2>1, <2>2, <2>3 DEF PluginInv, AdmissionHeld, OthersStay
  <2>10. job[o].alone => LoneOperator(o)'
    BY <1>a, <2>1, <2>2, <2>3
       DEF PluginInv, WritesHeld, LoneOperator, Writing, OthersStay, Entry
  <2>11. WritesHeld'
    BY <1>a, <2>1, <2>2, <2>3, <2>10 DEF WritesHeld, OthersStay
  <2> QED
    BY <2>8, <2>9, <2>11 DEF PluginInv
<1>3. CASE WriteIndex(o)
  <2> DEFINE j == IF job[o].op = "rollout"
                  THEN [NoJob EXCEPT !.at = "mode", !.op = "rollout", !.alone = job[o].alone]
                  ELSE NoJob
  <2>1. /\ job[o].at = "indexWrite" /\ index' = job[o].copy /\ clean' = job[o].alone
        /\ job' = [job EXCEPT ![o] = j]
        /\ UNCHANGED <<rec, made, host, row, jobs, crashes, admitted, enabledOnce, overtaken>>
    BY <1>3 DEF WriteIndex
  <2>2. /\ j \in PluginJobs /\ j.man = 0 /\ j.row.man = 0 /\ j.at \in {"idle", "mode"}
        /\ j.at = "mode" => j.op = "rollout" /\ j.alone = job[o].alone
        /\ j.at = "idle" => j.op = "none" /\ j.alone = FALSE
        /\ j.op = "rollout" => job[o].op = "rollout"
    BY <1>0, NoJobIsJob DEF PluginJobs
  <2> HIDE DEF j
  <2>3. OthersStay(o) /\ job'[o] = j
    BY <1>0, <2>1 DEF OthersStay
  <2>5. job' \in [Operators -> PluginJobs]
    BY <1>0, <2>1, <2>2
  <2>6. \A p \in Operators :
          /\ job'[p].man <= made' /\ job'[p].row.man <= made'
          /\ job'[p].at \in {"admit", "apply"} /\ job'[p].op = "install" => job'[p].man # 0
    BY <1>0, <2>1, <2>2, <2>3 DEF OthersStay, PluginInv, PluginShapes
  <2>8. PluginShapes'
    BY <2>1, <2>5, <2>6 DEF PluginInv, PluginShapes
  <2>9. AdmissionHeld'
    BY <2>1, <2>2, <2>3 DEF PluginInv, AdmissionHeld, OthersStay
  <2>10. job'[o].alone => LoneOperator(o)'
    BY <1>a, <2>1, <2>2, <2>3
       DEF PluginInv, WritesHeld, LoneOperator, Writing, OthersStay
  <2>11. job[o].alone => /\ \A p \in Operators : ~Writing(p)'
                         /\ index' = Entry(rec)' /\ RowFits(row, rec)'
    BY <1>a, <2>1, <2>2, <2>3
       DEF PluginInv, WritesHeld, LoneOperator, Writing, OthersStay, Entry, RowFits
  <2>12. WritesHeld'
    BY <1>a, <2>1, <2>2, <2>3, <2>10, <2>11 DEF WritesHeld, OthersStay
  <2> QED
    BY <2>8, <2>9, <2>12 DEF PluginInv
<1> QED
  BY <1>1, <1>2, <1>3

\* The changes of the record.
LEMMA PluginChangeSteps ==
    ASSUME PluginInv, NEW o \in Operators,
           \/ ApplyInstall(o) \/ ApplyEnable(o) \/ Disable(o) \/ Update(o)
           \/ Rollback(o) \/ ShadowRollout(o) \/ LiveRollout(o)
    PROVE  PluginInv'
<1> USE PluginBounds
<1>0. /\ job[o] \in PluginJobs /\ made \in Nat /\ made <= MaxManifests
      /\ jobs \in Nat /\ jobs <= MaxJobs
      /\ rec \in PluginRecords(made) /\ rec.man \in 0 .. made /\ rec.hist \in Seq(Nat)
  BY DEF PluginInv, PluginShapes, PluginRecords
<1>1. CASE ApplyInstall(o)
  <2> DEFINE r == [there |-> TRUE, man |-> job[o].man, state |-> "Installed",
                   hist |-> <<job[o].man>>, mode |-> "none"]
  <2>1. Change(o, "install", r, "Installed") /\ made' = made /\ jobs' = jobs
    BY <1>1 DEF ApplyInstall
  <2>2. job[o].man \in 1 .. made
    BY <1>0, <1>1 DEF ApplyInstall, PluginInv, PluginShapes, PluginJobs
  <2>3. r \in PluginRecords(made) /\ r.state = "Installed"
    <3>1. /\ <<job[o].man>> \in Seq(Nat) /\ \A i \in DOMAIN <<job[o].man>> :
                                                <<job[o].man>>[i] = job[o].man
          /\ 1 \in DOMAIN <<job[o].man>> /\ job[o].man \in 0 .. made
      BY <1>0, <2>2
    <3>2. "Installed" \in PluginStates /\ "none" \in PluginModes
      BY DEF PluginStates, PluginModes
    <3>3. \A i \in DOMAIN <<job[o].man>> : <<job[o].man>>[i] \in 1 .. made
      BY <2>2, <3>1
    <3>4. \E i \in DOMAIN <<job[o].man>> : <<job[o].man>>[i] = job[o].man
      BY <3>1
    <3> QED
      BY <1>0, <3>1, <3>2, <3>3, <3>4, RecordOfParts
  <2> HIDE DEF r
  <2>4. "Installed" \in PluginStates
    BY DEF PluginStates
  <2> QED
    BY <1>0, <2>1, <2>3, <2>4, ChangeInv
<1>2. CASE ApplyEnable(o)
  <2> DEFINE r == [rec EXCEPT !.state = "Enabled"]
  <2>1. /\ Change(o, job[o].op, r, "Enabled") /\ made' = made /\ jobs' = jobs
        /\ job[o].at = "apply" /\ job[o].op \in {"enable", "rollout"}
    BY <1>2 DEF ApplyEnable
  <2>2. r \in PluginRecords(made) /\ r.state = "Enabled" /\ r.man = rec.man
    BY <1>0 DEF PluginRecords, PluginStates
  <2> HIDE DEF r
  <2>3. r.man \in admitted \cup overtaken
    BY <2>1, <2>2 DEF PluginInv, AdmissionHeld
  <2>4. "Enabled" \in PluginStates
    BY DEF PluginStates
  <2> QED
    BY <1>0, <2>1, <2>2, <2>3, <2>4, ChangeInv
<1>3. CASE Disable(o)
  <2> DEFINE r == [rec EXCEPT !.state = "Disabled"]
  <2>1. Change(o, "disable", r, "Disabled") /\ made' = made /\ jobs' = jobs + 1 /\ jobs < MaxJobs
    BY <1>3 DEF Disable, Begins
  <2>2. r \in PluginRecords(made) /\ r.state = "Disabled"
    BY <1>0 DEF PluginRecords, PluginStates
  <2> HIDE DEF r
  <2>4. "Disabled" \in PluginStates
    BY DEF PluginStates
  <2> QED
    BY <1>0, <2>1, <2>2, <2>4, ChangeInv
<1>4. CASE Update(o)
  <2> DEFINE r == [rec EXCEPT !.man = made + 1, !.hist = Append(@, made + 1),
                              !.state = "Installed"]
  <2>1. /\ Change(o, "update", r, "Installed") /\ made' = made + 1 /\ made < MaxManifests
        /\ jobs' = jobs + 1 /\ jobs < MaxJobs
    BY <1>4 DEF Update, Begins
  <2>2. r \in PluginRecords(made + 1) /\ r.state = "Installed"
    <3> DEFINE m == made + 1
               h == Append(rec.hist, m)
    <3>1. r = [rec EXCEPT !.man = m, !.hist = h, !.state = "Installed"]
      OBVIOUS
    <3>2. /\ h \in Seq(Nat) /\ \A i \in DOMAIN h : h[i] \in 1 .. m
          /\ \E i \in DOMAIN h : h[i] = m
      BY <1>0, PartsOfRecord, HistoryGrows
    <3>3. "Installed" \in PluginStates /\ m \in 0 .. m /\ m \in Nat
      BY <1>0 DEF PluginStates
    <3> HIDE DEF h, r, m
    <3>4. r \in PluginRecords(m) /\ r.state = "Installed"
      <4>1. rec \in [there : BOOLEAN, man : 0 .. made, state : PluginStates, hist : Seq(Nat),
                     mode : PluginModes]
        BY <1>0 DEF PluginRecords
      <4>2. r.man = m /\ r.hist = h /\ r.state = "Installed"
        BY <3>1, <4>1
      <4>3. r \in [there : BOOLEAN, man : 0 .. m, state : PluginStates, hist : Seq(Nat),
                   mode : PluginModes]
        BY <3>1, <3>2, <3>3, <4>1
      <4> QED
        BY <3>2, <4>2, <4>3 DEF PluginRecords
    <3> QED
      BY <3>4 DEF m
  <2> HIDE DEF r
  <2>4. "Installed" \in PluginStates
    BY DEF PluginStates
  <2> QED
    BY <1>0, <2>1, <2>2, <2>4, ChangeInv
<1>5. CASE Rollback(o)
  <2> DEFINE r == [rec EXCEPT !.man = rec.hist[Len(rec.hist) - 1], !.state = "RolledBack"]
  <2>1. /\ Change(o, "rollback", r, "RolledBack") /\ made' = made /\ Len(rec.hist) >= 2
        /\ jobs' = jobs + 1 /\ jobs < MaxJobs
    BY <1>5 DEF Rollback, Begins
  <2>2. Len(rec.hist) - 1 \in DOMAIN rec.hist /\ rec.hist[Len(rec.hist) - 1] \in 1 .. made
    <3>1. Len(rec.hist) - 1 \in DOMAIN rec.hist
      BY <1>0, <2>1
    <3> QED
      BY <1>0, <3>1 DEF PluginRecords
  <2>3. r \in PluginRecords(made) /\ r.state = "RolledBack"
    <3> DEFINE k == rec.hist[Len(rec.hist) - 1]
    <3>1. r \in PluginRecords(made)
      <4>1. rec \in [there : BOOLEAN, man : 0 .. made, state : PluginStates, hist : Seq(Nat),
                     mode : PluginModes]
        BY <1>0 DEF PluginRecords
      <4>2. k \in 0 .. made /\ \E i \in DOMAIN rec.hist : rec.hist[i] = k
        BY <1>0, <2>2
      <4>3. \A i \in DOMAIN rec.hist : rec.hist[i] \in 1 .. made
        BY <1>0, PartsOfRecord
      <4> HIDE DEF k
      <4>4. r = [rec EXCEPT !.man = k, !.state = "RolledBack"]
        BY DEF k
      <4>5. r.man = k /\ r.hist = rec.hist /\ r.state = "RolledBack"
        BY <4>1, <4>4
      <4>6. r \in [there : BOOLEAN, man : 0 .. made, state : PluginStates, hist : Seq(Nat),
                   mode : PluginModes]
        BY <4>1, <4>2, <4>4 DEF PluginStates
      <4> HIDE DEF r
      <4> QED
        BY <2>1, <4>2, <4>3, <4>5, <4>6 DEF PluginRecords
    <3>2. r.state = "RolledBack"
      BY <1>0 DEF PluginRecords
    <3> QED
      BY <3>1, <3>2
  <2> HIDE DEF r
  <2>4. "RolledBack" \in PluginStates
    BY DEF PluginStates
  <2> QED
    BY <1>0, <2>1, <2>3, <2>4, ChangeInv
<1>6. CASE ShadowRollout(o)
  <2> DEFINE r == [rec EXCEPT !.mode = "shadow"]
  <2>1. /\ Change(o, "shadow", r, "Installed") /\ made' = made
        /\ jobs' = jobs + 1 /\ jobs < MaxJobs
    BY <1>6 DEF ShadowRollout, Begins
  <2>2. r \in PluginRecords(made) /\ r.state = rec.state /\ r.man = rec.man /\ r.mode = "shadow"
    BY <1>0 DEF PluginRecords, PluginModes
  <2> HIDE DEF r
  <2>3. r.state = "Enabled" => r.man \in admitted \cup overtaken
    BY <2>2 DEF PluginInv, AdmissionHeld
  <2>4. "Installed" \in PluginStates
    BY DEF PluginStates
  <2> QED
    BY <1>0, <2>1, <2>2, <2>3, <2>4, ChangeInv
<1>7. CASE LiveRollout(o)
  <2> DEFINE r == [rec EXCEPT !.mode = "live"]
  <2>1. /\ Change(o, "live", r, "Enabled") /\ made' = made /\ jobs' = jobs /\ job[o].at = "mode"
    BY <1>7 DEF LiveRollout
  <2>2. r \in PluginRecords(made) /\ r.state = rec.state /\ r.man = rec.man
    BY <1>0 DEF PluginRecords, PluginModes
  <2> HIDE DEF r
  <2>3. r.state = "Enabled" => r.man \in admitted \cup overtaken
    BY <2>2 DEF PluginInv, AdmissionHeld
  <2>4. "Enabled" \in PluginStates
    BY DEF PluginStates
  <2>5. job[o].alone => r.state = "Enabled"
    BY <2>1, <2>2 DEF PluginInv, WritesHeld, LoneOperator
  <2> QED
    BY <1>0, <2>1, <2>2, <2>3, <2>4, <2>5, ChangeInv
<1> QED
  BY <1>1, <1>2, <1>3, <1>4, <1>5, <1>6, <1>7

\* Every step preserves the invariant of the registry.
LEMMA PluginStep == PluginInv /\ [PluginNext]_pluginVars => PluginInv'
<1> SUFFICES ASSUME PluginInv, [PluginNext]_pluginVars PROVE PluginInv'
  OBVIOUS
<1>1. CASE RestartManager
  <2>1. /\ crashes < MaxCrashes /\ crashes' = crashes + 1 /\ rec' = NoRecord /\ host' = 0
        /\ ~clean' /\ UNCHANGED <<made, jobs, row, index>>
        /\ job' = [o \in Operators |-> NoJob]
    BY <1>1 DEF RestartManager
  <2>2. PluginShapes'
    BY <2>1, PluginBounds, NoJobIsJob, NoRecordIsRecord DEF PluginInv, PluginShapes
  <2>3. AdmissionHeld'
    BY <2>1, NoJobIsJob DEF AdmissionHeld, NoRecord
  <2>4. WritesHeld'
    BY <2>1, NoJobIsJob DEF WritesHeld
  <2> QED
    BY <2>2, <2>3, <2>4 DEF PluginInv
<1>2. CASE UNCHANGED pluginVars
  BY <1>2 DEF pluginVars, PluginInv, PluginShapes, AdmissionHeld, WritesHeld, LoneOperator,
              Writing, Entry, RowFits
<1> QED
  BY <1>1, <1>2, PluginAdmissionSteps, PluginWriteSteps, PluginChangeSteps DEF PluginNext

\* The inductive invariant holds of every run of the plugin registry.
THEOREM PluginInvariant == PluginSpec => []PluginInv
BY PluginInitInv, PluginStep, PTL DEF PluginSpec

\* The registry keeps well-formed records, rows and jobs through failures and restarts
\* of the manager.
THEOREM PluginTypes == PluginSpec => []PluginTypeOK
<1>1. ASSUME PluginInv PROVE PluginTypeOK
  <2>1. /\ rec.man \in 0 .. made /\ rec.state \in PluginStates /\ rec.mode \in PluginModes
        /\ rec.hist \in Seq(Nat) /\ \A i \in DOMAIN rec.hist : rec.hist[i] \in 1 .. made
        /\ rec.there => \E i \in DOMAIN rec.hist : rec.hist[i] = rec.man
        /\ rec.state = "RolledBack" => Len(rec.hist) >= 2
    BY <1>1 DEF PluginInv, PluginShapes, PluginRecords
  <2>2. rec.hist \in Seq(1 .. made)
    <3>1. \A i \in 1 .. Len(rec.hist) : rec.hist[i] \in 1 .. made
      BY <2>1
    <3>2. rec.hist \in [1 .. Len(rec.hist) -> 1 .. made] /\ Len(rec.hist) \in Nat
      BY <2>1, <3>1, LenProperties
    <3> QED
      BY <3>2, SeqDef, Zenon
  <2> QED
    BY <1>1, <2>1, <2>2, PluginBounds DEF PluginTypeOK, PluginInv, PluginShapes, PluginModes
<1> QED
  BY <1>1, PluginInvariant, PTL

\* A plugin is enabled, and a component runs in the host, only with a manifest the
\* admission has passed, whatever operators overlap (OnlyAdmitted).
THEOREM AdmittedOnly == PluginSpec => []OnlyAdmitted
<1>1. PluginInv => OnlyAdmitted
  BY DEF PluginInv, AdmissionHeld, OnlyAdmitted, EnabledWasAdmitted, HostRunsAdmitted
<1> QED
  BY <1>1, PluginInvariant, PTL

\* The plugin's row and the index say what the record says once an operation that
\* nothing overlapped has gone through (StoredFollowsRecord).
THEOREM StoredIsRecord == PluginSpec => []StoredFollowsRecord
<1>1. PluginInv => StoredFollowsRecord
  BY DEF PluginInv, WritesHeld, StoredFollowsRecord, RowFits
<1> QED
  BY <1>1, PluginInvariant, PTL

-----------------------------------------------------------------------------
(* The flow map *)

\* A stored node: one that runs has a start, one that is over an end.
FlowNodeStates == {"absent", "Pending", "Running", "Succeeded"}

\* A stored node: one that runs has a start, one that is over an end.
StoredNodes ==
    { node \in [state : FlowNodeStates, started : BOOLEAN, ended : BOOLEAN,
                budget : {"unset", "set"}] :
        /\ node.state = "Running" => node.started
        /\ IsTerminal(node.state) => node.ended }

\* What an updater carries from await to await.
UpdateRecords ==
    [at : {"idle", "fetch", "map", "views"}, node : FlowNodes \cup {"none"},
     to : FlowNodeStates \cup {"none"}, budget : BOOLEAN, todo : SUBSET FlowNodes,
     copy : [FlowNodes -> StoredNodes], alone : BOOLEAN]

\* What each updater carries is well-formed, and the copies too.
FlowShapes ==
    /\ updates \in 0 .. MaxUpdates
    /\ map \in [FlowNodes -> StoredNodes] /\ views \in [FlowNodes -> StoredNodes]
    /\ update \in [Updaters -> UpdateRecords]
    /\ \A u \in Updaters : update[u].at # "idle" => /\ update[u].node \in FlowNodes
                                                    /\ update[u].to \in FlowNodeStates

\* An update that is alone has no company.
AloneIsAlone ==
    \A u, v \in Updaters : update[u].alone /\ v # u => update[v].at = "idle"

\* What it read, it may still rely on.
ReadIsCurrent(u) ==
    LET n == update[u].node
    IN /\ update[u].at \in {"fetch", "map"} /\ update[u].budget => update[u].to = Target(n, "keep")
       /\ update[u].at = "map" =>
             update[u].copy = [map EXCEPT ![n] = Patched(@, update[u].to, update[u].budget)]
       /\ update[u].at = "views" =>
             /\ update[u].copy = map
             /\ \A m \in FlowNodes \ update[u].todo : map[m] \in {Absent, views[m]}

\* The inductive invariant of the flow map.
FlowInv ==
    /\ FlowShapes /\ AloneIsAlone
    /\ \A u \in Updaters : update[u].alone => ReadIsCurrent(u)
    /\ followed => /\ \A u \in Updaters : update[u].at # "views"
                   /\ \A n \in FlowNodes : map[n] \in {Absent, views[n]}

\* A node that is not in the map counts as a stored one.
LEMMA AbsentIsStored == Absent \in StoredNodes
BY DEF Absent, StoredNodes, FlowNodeStates, IsTerminal

\* An updater at rest has a well-formed record.
LEMMA NoUpdateIsRecord == /\ NoUpdate \in UpdateRecords /\ NoUpdate.at = "idle"
                          /\ NoUpdate.alone = FALSE
BY AbsentIsStored DEF NoUpdate, UpdateRecords

\* patch_node makes a well-formed node of a well-formed node.
LEMMA PatchedIsStored ==
    ASSUME NEW node \in StoredNodes, NEW to \in FlowNodeStates, NEW budget \in BOOLEAN
    PROVE  Patched(node, to, budget) \in StoredNodes
BY DEF Patched, StoredNodes, FlowNodeStates, IsTerminal

\* The empty map satisfies the invariant.
LEMMA FlowInitInv == FlowInit => FlowInv
<1> SUFFICES ASSUME FlowInit PROVE FlowInv
  OBVIOUS
<1>1. FlowShapes
  BY FlowBounds, AbsentIsStored, NoUpdateIsRecord DEF FlowInit, FlowShapes
<1> QED
  BY <1>1, NoUpdateIsRecord DEF FlowInit, FlowInv, AloneIsAlone

\* Every step of an update leaves well-formed nodes and records.
LEMMA FlowShapesStep == FlowShapes /\ [FlowNext]_flowVars => FlowShapes'
<1> SUFFICES ASSUME FlowShapes, [FlowNext]_flowVars PROVE FlowShapes'
  OBVIOUS
<1> USE FlowBounds DEF FlowShapes
<1>1. ASSUME NEW u \in Updaters, NEW n \in FlowNodes,
             NEW state \in {"Running", "Succeeded", "keep"}, BeginUpdate(u, n, state)
      PROVE  FlowShapes'
  <2>1. Target(n, state) \in FlowNodeStates
    BY DEF Target, FlowNodeStates, StoredNodes
  <2> DEFINE mine == [NoUpdate EXCEPT !.at = "fetch", !.node = n, !.to = Target(n, state),
                                      !.budget = (state = "keep"),
                                      !.alone = \A w \in Updaters : update[w].at = "idle"]
  <2>2. mine \in UpdateRecords /\ mine.node \in FlowNodes /\ mine.to \in FlowNodeStates
    BY <2>1, NoUpdateIsRecord DEF UpdateRecords
  <2>3. \A v \in Updaters : [update[v] EXCEPT !.alone = FALSE] \in UpdateRecords
    BY DEF UpdateRecords
  <2> HIDE DEF mine
  <2>4. update' = [v \in Updaters |-> IF v = u THEN mine ELSE [update[v] EXCEPT !.alone = FALSE]]
    BY <1>1 DEF BeginUpdate, mine
  <2>5. update' \in [Updaters -> UpdateRecords]
    BY <2>2, <2>3, <2>4
  <2>6. \A v \in Updaters : update'[v].at # "idle" => /\ update'[v].node \in FlowNodes
                                                      /\ update'[v].to \in FlowNodeStates
    BY <2>2, <2>4 DEF UpdateRecords
  <2>7. updates < MaxUpdates /\ updates' = updates + 1 /\ UNCHANGED <<map, views>>
    BY <1>1 DEF BeginUpdate
  <2> QED
    BY <2>5, <2>6, <2>7
<1>2. ASSUME NEW u \in Updaters, FetchMap(u) PROVE FlowShapes'
  <2> DEFINE n == update[u].node
             read == [map EXCEPT ![n] = Patched(@, update[u].to, update[u].budget)]
  <2>1. read \in [FlowNodes -> StoredNodes]
    BY <1>2, PatchedIsStored DEF FetchMap, UpdateRecords
  <2> HIDE DEF read
  <2>2. update' = [update EXCEPT ![u] = [@ EXCEPT !.at = "map", !.copy = read]]
    BY <1>2 DEF FetchMap, read
  <2>3. [update[u] EXCEPT !.at = "map", !.copy = read] \in UpdateRecords
    BY <2>1 DEF UpdateRecords
  <2>4. update' \in [Updaters -> UpdateRecords]
    BY <2>2, <2>3
  <2>5. \A v \in Updaters : update'[v].node = update[v].node /\ update'[v].to = update[v].to
                            /\ (update'[v].at # "idle" => update[v].at # "idle")
    BY <1>2, <2>2 DEF FetchMap, UpdateRecords
  <2> QED
    BY <1>2, <2>4, <2>5 DEF FetchMap
<1>3. ASSUME NEW u \in Updaters, WriteMap(u) PROVE FlowShapes'
  <2> DEFINE todo == { n \in FlowNodes : update[u].copy[n] # Absent }
  <2>1. todo \in SUBSET FlowNodes
    OBVIOUS
  <2> HIDE DEF todo
  <2>2. update' = [update EXCEPT ![u] = [@ EXCEPT !.at = "views", !.todo = todo]]
    BY <1>3 DEF WriteMap, todo
  <2>3. [update[u] EXCEPT !.at = "views", !.todo = todo] \in UpdateRecords
    BY <2>1 DEF UpdateRecords
  <2>4. update' \in [Updaters -> UpdateRecords]
    BY <2>2, <2>3
  <2>5. \A v \in Updaters : update'[v].node = update[v].node /\ update'[v].to = update[v].to
                            /\ (update'[v].at # "idle" => update[v].at # "idle")
    BY <1>3, <2>2 DEF WriteMap, UpdateRecords
  <2>6. map' \in [FlowNodes -> StoredNodes]
    BY <1>3 DEF WriteMap, UpdateRecords
  <2> QED
    BY <1>3, <2>4, <2>5, <2>6 DEF WriteMap
<1>4. ASSUME NEW u \in Updaters, PersistNodeViews(u) PROVE FlowShapes'
  <2>1. PICK n \in update[u].todo :
          /\ views' = [views EXCEPT ![n] = update[u].copy[n]]
          /\ update' = [update EXCEPT ![u] =
                          IF update[u].todo = {n} THEN NoUpdate
                          ELSE [update[u] EXCEPT !.todo = @ \ {n}]]
          /\ followed' = (IF update[u].todo = {n} THEN update[u].alone ELSE followed)
    BY <1>4 DEF PersistNodeViews
  <2>2. update[u].copy[n] \in StoredNodes
    BY DEF UpdateRecords
  <2> DEFINE rest == IF update[u].todo = {n} THEN NoUpdate
                     ELSE [update[u] EXCEPT !.todo = @ \ {n}]
  <2>3. rest \in UpdateRecords
    BY NoUpdateIsRecord DEF UpdateRecords
  <2>4. update' \in [Updaters -> UpdateRecords]
    <3>1. update' = [update EXCEPT ![u] = rest]
      BY <2>1
    <3> HIDE DEF rest
    <3> QED
      BY <2>3, <3>1
  <2>5. \A v \in Updaters : update'[v].at # "idle" =>
            update'[v].node = update[v].node /\ update'[v].to = update[v].to
            /\ update[v].at # "idle"
    BY <2>1, NoUpdateIsRecord DEF UpdateRecords
  <2>6. views' \in [FlowNodes -> StoredNodes]
    BY <2>1, <2>2
  <2> QED
    BY <1>4, <2>4, <2>5, <2>6 DEF PersistNodeViews
<1>5. ASSUME NEW u \in Updaters, UpdateFails(u) PROVE FlowShapes'
  BY <1>5, NoUpdateIsRecord DEF UpdateFails
<1>6. CASE UNCHANGED flowVars
  BY <1>6 DEF flowVars
<1> QED
  BY <1>1, <1>2, <1>3, <1>4, <1>5, <1>6 DEF FlowNext

\* Every step of an update preserves the invariant.
LEMMA FlowStep == FlowInv /\ [FlowNext]_flowVars => FlowInv'
<1> SUFFICES ASSUME FlowInv, [FlowNext]_flowVars PROVE FlowInv'
  OBVIOUS
<1> USE DEF FlowInv
<1>0. FlowShapes'
  BY FlowShapesStep
<1>1. ASSUME NEW u \in Updaters, NEW n \in FlowNodes,
             NEW state \in {"Running", "Succeeded", "keep"}, BeginUpdate(u, n, state)
      PROVE  FlowInv'
  <2>1. /\ update[u].at = "idle" /\ UNCHANGED <<map, views, followed>>
        /\ update'[u].at = "fetch" /\ update'[u].node = n
        /\ update'[u].to = Target(n, state) /\ update'[u].budget = (state = "keep")
        /\ update'[u].alone = (\A w \in Updaters : update[w].at = "idle")
    BY <1>1 DEF BeginUpdate, NoUpdate
  <2>2. \A v \in Updaters \ {u} : update'[v].at = update[v].at /\ ~update'[v].alone
    BY <1>1 DEF BeginUpdate, FlowShapes, UpdateRecords
  <2>3. AloneIsAlone'
    <3>1. update'[u].alone => \A w \in Updaters : update[w].at = "idle"
      BY <2>1
    <3>2. ASSUME NEW x \in Updaters, NEW v \in Updaters, update'[x].alone, v # x
          PROVE  update'[v].at = "idle"
      <4>1. x = u
        BY <2>2, <3>2
      <4> QED
        BY <2>2, <3>1, <3>2, <4>1
    <3> QED
      BY <3>2 DEF AloneIsAlone
  <2>4. ReadIsCurrent(u)'
    BY <2>1 DEF ReadIsCurrent, Target
  <2> QED
    BY <1>0, <2>1, <2>2, <2>3, <2>4
<1>2. ASSUME NEW u \in Updaters, FetchMap(u) PROVE FlowInv'
  <2>1. /\ update[u].at = "fetch" /\ UNCHANGED <<map, views, followed>>
        /\ update'[u].at = "map" /\ update'[u].node = update[u].node
        /\ update'[u].to = update[u].to /\ update'[u].budget = update[u].budget
        /\ update'[u].alone = update[u].alone
        /\ update'[u].copy = [map EXCEPT ![update[u].node] = Patched(@, update[u].to,
                                                                     update[u].budget)]
    BY <1>2 DEF FetchMap, FlowShapes, UpdateRecords
  <2>2. \A v \in Updaters \ {u} : update'[v] = update[v]
    BY <1>2 DEF FetchMap, FlowShapes
  <2>3. AloneIsAlone'
    BY <2>1, <2>2 DEF AloneIsAlone
  <2>4. update[u].alone => ReadIsCurrent(u)'
    BY <2>1 DEF ReadIsCurrent, Target
  <2>5. \A v \in Updaters \ {u} : ~update[v].alone
    BY <2>1 DEF AloneIsAlone
  <2> QED
    BY <1>0, <2>1, <2>2, <2>3, <2>4, <2>5
<1>3. ASSUME NEW u \in Updaters, WriteMap(u) PROVE FlowInv'
  <2>1. /\ update[u].at = "map" /\ map' = update[u].copy /\ ~followed' /\ UNCHANGED views
        /\ update'[u].at = "views" /\ update'[u].copy = update[u].copy
        /\ update'[u].alone = update[u].alone
        /\ update'[u].todo = { n \in FlowNodes : update[u].copy[n] # Absent }
    BY <1>3 DEF WriteMap, FlowShapes, UpdateRecords
  <2>2. \A v \in Updaters \ {u} : update'[v] = update[v]
    BY <1>3 DEF WriteMap, FlowShapes
  <2>3. AloneIsAlone'
    BY <2>1, <2>2 DEF AloneIsAlone
  <2>4. ReadIsCurrent(u)'
    BY <2>1 DEF ReadIsCurrent
  <2>5. \A v \in Updaters \ {u} : ~update[v].alone
    BY <2>1 DEF AloneIsAlone
  <2> QED
    BY <1>0, <2>1, <2>2, <2>3, <2>4, <2>5
<1>4. ASSUME NEW u \in Updaters, PersistNodeViews(u) PROVE FlowInv'
  <2>1. PICK n \in update[u].todo :
          /\ views' = [views EXCEPT ![n] = update[u].copy[n]]
          /\ update' = [update EXCEPT ![u] =
                          IF update[u].todo = {n} THEN NoUpdate
                          ELSE [update[u] EXCEPT !.todo = @ \ {n}]]
          /\ followed' = (IF update[u].todo = {n} THEN update[u].alone ELSE followed)
    BY <1>4 DEF PersistNodeViews
  <2>2. /\ update[u].at = "views" /\ ~followed /\ UNCHANGED map
        /\ n \in FlowNodes
    BY <1>4 DEF PersistNodeViews, FlowShapes, UpdateRecords
  <2>3. \A v \in Updaters \ {u} : update'[v] = update[v] /\ ~update[v].alone
    BY <2>1, <2>2 DEF FlowShapes, AloneIsAlone
  <2>4. update[u].alone => \A m \in FlowNodes \ update[u].todo : map[m] \in {Absent, views[m]}
    BY <2>2 DEF ReadIsCurrent
  <2>5. update[u].alone => views'[n] = map[n]
    BY <2>1, <2>2 DEF ReadIsCurrent, FlowShapes
  <2>6. \A m \in FlowNodes \ {n} : views'[m] = views[m]
    BY <2>1 DEF FlowShapes
  <2>7. CASE update[u].todo = {n}
    <3>1. update'[u] = NoUpdate /\ followed' = update[u].alone
      BY <2>1, <2>7 DEF FlowShapes
    <3>2. AloneIsAlone'
      BY <2>3, <3>1, NoUpdateIsRecord DEF AloneIsAlone
    <3>3. update[u].alone => \A m \in FlowNodes : map'[m] \in {Absent, views'[m]}
      BY <2>2, <2>4, <2>5, <2>6, <2>7
    <3>4. update[u].alone => \A v \in Updaters : update'[v].at # "views"
      BY <2>3, <3>1, NoUpdateIsRecord DEF AloneIsAlone
    <3> QED
      BY <1>0, <2>3, <3>1, <3>2, <3>3, <3>4, NoUpdateIsRecord
  <2>8. CASE update[u].todo # {n}
    <3>1. /\ update'[u].at = "views" /\ update'[u].copy = update[u].copy
          /\ update'[u].alone = update[u].alone /\ update'[u].todo = update[u].todo \ {n}
      <4>1. update'[u] = [update[u] EXCEPT !.todo = @ \ {n}]
        BY <2>1, <2>8 DEF FlowShapes
      <4> QED
        BY <2>2, <4>1 DEF FlowShapes, UpdateRecords
    <3>2. AloneIsAlone'
      BY <2>3, <2>2, <3>1 DEF AloneIsAlone
    <3>3. update[u].alone => ReadIsCurrent(u)'
      BY <2>2, <2>4, <2>5, <2>6, <3>1 DEF ReadIsCurrent
    <3> QED
      BY <1>0, <2>1, <2>2, <2>3, <2>8, <3>1, <3>2, <3>3
  <2> QED
    BY <2>7, <2>8
<1>5. ASSUME NEW u \in Updaters, UpdateFails(u) PROVE FlowInv'
  <2>1. UNCHANGED <<map, views, followed>> /\ update'[u] = NoUpdate
    BY <1>5 DEF UpdateFails, FlowShapes
  <2>2. \A v \in Updaters \ {u} : update'[v] = update[v]
    BY <1>5 DEF UpdateFails, FlowShapes
  <2>3. AloneIsAlone'
    BY <2>1, <2>2, NoUpdateIsRecord DEF AloneIsAlone
  <2>4. \A v \in Updaters \ {u} : update[v].alone => ReadIsCurrent(v)'
    BY <2>1, <2>2 DEF ReadIsCurrent, Target
  <2> QED
    BY <1>0, <2>1, <2>2, <2>3, <2>4, NoUpdateIsRecord
<1>6. CASE UNCHANGED flowVars
  BY <1>0, <1>6 DEF flowVars, AloneIsAlone, ReadIsCurrent, Target
<1> QED
  BY <1>1, <1>2, <1>3, <1>4, <1>5, <1>6 DEF FlowNext

\* The inductive invariant holds of every run of the flow state engine.
THEOREM FlowInvariant == FlowSpec => []FlowInv
BY FlowInitInv, FlowStep, PTL DEF FlowSpec

\* The nodes in the map and in the views are well-formed at all times.
THEOREM FlowTypes == FlowSpec => []FlowTypeOK
<1>1. FlowInv => FlowTypeOK
  BY DEF FlowInv, FlowShapes, FlowTypeOK, StoredNodes, FlowNodeStates
<1> QED
  BY <1>1, FlowInvariant, PTL

\* The views of the flow map follow the map once an update that nothing overlapped
\* has gone through, for any nodes and updaters (ViewsFollowMap).
THEOREM ViewsAreThoseOfTheMap == FlowSpec => []ViewsFollowMap
<1>1. FlowInv => ViewsFollowMap
  BY DEF FlowInv, ViewsFollowMap
<1> QED
  BY <1>1, FlowInvariant, PTL

\* A step of an update that nothing overlaps changes its own node alone.
LEMMA LoneStep ==
    ASSUME FlowInv, [FlowNext]_flowVars, NEW u \in Updaters,
           update[u].at = "map", update'[u].at = "views", update[u].alone,
           NEW n \in FlowNodes
    PROVE  \/ n = update[u].node /\ ~update[u].budget
           \/ n = update[u].node /\ (map[n] = Absent \/ map'[n].state = map[n].state)
           \/ map'[n] = map[n]
<1>1. WriteMap(u)
  <2>1. \A v \in Updaters \ {u} : update[v].at = "idle"
    BY DEF FlowInv, AloneIsAlone
  <2>2. PICK v \in Updaters :
          \/ \E m \in FlowNodes, state \in {"Running", "Succeeded", "keep"} :
                BeginUpdate(v, m, state)
          \/ FetchMap(v) \/ WriteMap(v) \/ PersistNodeViews(v) \/ UpdateFails(v)
    BY DEF FlowNext, flowVars
  <2>3. ASSUME NEW m \in FlowNodes, NEW state \in {"Running", "Succeeded", "keep"},
               BeginUpdate(v, m, state)
        PROVE  FALSE
    BY <2>3 DEF BeginUpdate, FlowInv, FlowShapes, UpdateRecords
  <2>4. ~UpdateFails(u)
    BY NoUpdateIsRecord DEF UpdateFails, FlowInv, FlowShapes
  <2>5. /\ FetchMap(v) => update[v].at = "fetch"
        /\ WriteMap(v) => update[v].at = "map"
        /\ PersistNodeViews(v) => update[v].at = "views"
        /\ UpdateFails(v) => update[v].at # "idle"
    BY DEF FetchMap, WriteMap, PersistNodeViews, UpdateFails
  <2> QED
    BY <2>1, <2>2, <2>3, <2>4, <2>5
<1>2. map' = [map EXCEPT ![update[u].node] = Patched(@, update[u].to, update[u].budget)]
      /\ (update[u].budget => update[u].to = Target(update[u].node, "keep"))
  BY <1>1 DEF WriteMap, FlowInv, ReadIsCurrent
<1>3. map \in [FlowNodes -> StoredNodes] /\ update[u].node \in FlowNodes
  BY DEF FlowInv, FlowShapes
<1>4. CASE n # update[u].node
  BY <1>2, <1>3, <1>4
<1>5. CASE n = update[u].node
  <2>1. map'[n].state = update[u].to
    BY <1>2, <1>3, <1>5 DEF Patched
  <2> QED
    BY <1>2, <1>5, <2>1 DEF Target
<1> QED
  BY <1>4, <1>5

\* An update of a node that nothing overlaps writes that node and no other
\* (LoneUpdateIsLocal): what it read before its awaits is still current when it saves.
THEOREM LoneUpdatesAreLocal == FlowSpec => LoneUpdateIsLocal
<1>1. FlowInv /\ [FlowNext]_flowVars =>
        [\A u \in Updaters :
          update[u].at = "map" /\ update'[u].at = "views" /\ update[u].alone =>
             \A n \in FlowNodes :
                \/ n = update[u].node /\ ~update[u].budget
                \/ n = update[u].node /\ (map[n] = Absent \/ map'[n].state = map[n].state)
                \/ map'[n] = map[n]]_flowVars
  BY LoneStep
<1> QED
  BY <1>1, FlowInvariant, PTL DEF FlowSpec, LoneUpdateIsLocal

-----------------------------------------------------------------------------
(* The store behind a mirror *)

\* The awaits at which a call can be.
Points == {"idle", "checkMemory", "checkKv", "table", "kv", "auditTable", "auditKv", "lookup",
           "memory"}

\* The rows hold values of calls that have begun.
MirrorShapes ==
    /\ kind \in RowKinds /\ mode \in {"none", "Shadow", "Direct", "Enforced"}
    /\ calls \in 0 .. MaxCalls
    /\ memRow \in 0 .. calls /\ kvRow \in 0 .. calls /\ tableRow \in 0 .. calls
    /\ acked \in 0 .. calls
    /\ caller \in [Stores -> [at : Points, val : Nat]]
    /\ \A s \in Stores : caller[s].at # "idle" => caller[s].val \in 1 .. calls

\* Which calls come to the point p, and what has happened to one that is there.
Where(p) ==
    /\ p \in {"table", "auditTable"} => mode # "none" /\ kind \in {"typed", "entity", "ledger"}
    /\ p \in {"kv", "auditKv"} => mode # "none" /\ kind # "entity"
    /\ p \in {"checkMemory", "checkKv"} => kind = "evidence"
    /\ p = "checkKv" => mode # "none"
    /\ p = "lookup" => kind = "ledger"
    /\ p \in {"auditTable", "auditKv"} => fell
    /\ p = "kv" /\ kind \in {"typed", "ledger"} => fell
    /\ p = "lookup" /\ mode # "none" => fell
    /\ p = "memory" /\ mode # "none" => fell /\ (audited \/ late)

\* Where acknowledged values are as long as no write fell back.
AtHome ==
    /\ mode = "none" => acked = memRow
    /\ mode # "none" /\ kind \in {"plain", "evidence"} => acked = kvRow
    /\ mode # "none" /\ kind \in {"typed", "entity", "ledger"} => acked = tableRow

\* Rows are only where their kind is written, memory only has what fell back, and as long
\* as nothing fell back the acknowledged value is at home.
RowsPlaced ==
    /\ kind \in {"plain", "evidence"} \/ mode = "none" => tableRow = 0
    /\ kind = "entity" \/ mode = "none" => kvRow = 0
    /\ mode # "none" /\ memRow # 0 => fell /\ (audited \/ late)
    /\ ~fell => AtHome

\* No two calls are under way.
OnlyOne == \A s, t \in Stores : caller[s].at # "idle" /\ caller[t].at # "idle" => s = t

\* What a call that writes evidence has seen, when nothing excuses it.
EvidenceSeen(p) ==
    /\ p \in {"checkKv", "kv", "auditKv", "memory"} => memRow = 0
    /\ p = "kv" => kvRow = 0
    /\ p \in {"auditKv", "memory"} => acked = 0

\* What makes an entry that is written once safe, when nothing excuses a second write.
OnceHeld ==
    /\ kind \in {"evidence", "ledger"} /\ ~Excused => OnlyOne
    /\ kind = "evidence" /\ ~Excused =>
          /\ acked \in {0, memRow, kvRow}
          /\ \A s \in Stores : EvidenceSeen(caller[s].at)
    /\ kind = "ledger" /\ ~Excused => \A s \in Stores : caller[s].at = "memory" => memRow = 0

\* The inductive invariant of the store behind a mirror.
MirrorInv ==
    /\ MirrorShapes /\ RowsPlaced /\ OnceHeld
    /\ \A s \in Stores : Where(caller[s].at)

\* Empty stores satisfy the invariant.
LEMMA MirrorInitInv == MirrorInit => MirrorInv
<1> SUFFICES ASSUME MirrorInit PROVE MirrorInv
  OBVIOUS
<1>1. /\ kind \in RowKinds /\ mode \in {"none", "Shadow", "Direct", "Enforced"}
      /\ memRow = 0 /\ kvRow = 0 /\ tableRow = 0 /\ calls = 0 /\ acked = 0
      /\ caller = [s \in Stores |-> NoWrite]
  BY DEF MirrorInit
<1>2. NoWrite \in [at : Points, val : Nat] /\ NoWrite.at = "idle"
  BY DEF NoWrite, Points
<1>3. \A s \in Stores : caller[s].at = "idle"
  BY <1>1, <1>2
<1>4. MirrorShapes
  BY <1>1, <1>2, <1>3, MirrorBounds DEF MirrorShapes
<1>5. RowsPlaced
  BY <1>1 DEF RowsPlaced, AtHome
<1>6. OnceHeld
  BY <1>1, <1>3 DEF OnceHeld, OnlyOne, EvidenceSeen
<1>7. \A s \in Stores : Where(caller[s].at)
  BY <1>3 DEF Where
<1> QED
  BY <1>4, <1>5, <1>6, <1>7 DEF MirrorInv

\* The caller s goes to the point p with the value it had; the others stay.
Moved(s, p) ==
    /\ caller' \in [Stores -> [at : Points, val : Nat]]
    /\ caller'[s].at = p /\ (p # "idle" => caller'[s].val = caller[s].val)
    /\ \A t \in Stores \ {s} : caller'[t] = caller[t]

\* A caller that goes on keeps its value.
LEMMA GoToMoves ==
    ASSUME MirrorShapes, NEW s \in Stores, NEW p \in Points, GoTo(s, p)
    PROVE  Moved(s, p)
BY DEF MirrorShapes, GoTo, Moved

\* A caller that returns is idle.
LEMMA LeavesMoves ==
    ASSUME MirrorShapes, NEW s \in Stores, Leaves(s)
    PROVE  Moved(s, "idle")
<1>1. NoWrite \in [at : Points, val : Nat] /\ NoWrite.at = "idle"
  BY DEF NoWrite, Points
<1> QED
  BY <1>1 DEF MirrorShapes, Leaves, Moved

\* The histories only grow.
NothingForgotten ==
    /\ fell => fell'
    /\ audited \/ late => audited' \/ late'
    /\ overlapped => overlapped'
    /\ blind => blind'

\* A step of a caller that has begun: what is left to show are the rows and its point.
LEMMA MirrorMoves ==
    ASSUME MirrorInv, NEW s \in Stores, caller[s].at # "idle", NEW p \in Points, Moved(s, p),
           NothingForgotten, UNCHANGED <<kind, mode, calls>>,
           memRow' \in 0 .. calls, kvRow' \in 0 .. calls, tableRow' \in 0 .. calls,
           acked' \in 0 .. calls, RowsPlaced', Where(p)',
           kind = "evidence" /\ ~Excused' => acked' \in {0, memRow', kvRow'} /\ EvidenceSeen(p)',
           kind = "ledger" /\ ~Excused' /\ p = "memory" => memRow' = 0
    PROVE  MirrorInv'
<1>1. MirrorShapes'
  BY DEF MirrorInv, MirrorShapes, Moved
<1>2. ASSUME NEW t \in Stores PROVE Where(caller[t].at)'
  <2>1. CASE t = s
    BY <2>1 DEF Moved, Where
  <2>2. CASE t # s
    <3>1. Where(caller[t].at) /\ caller'[t] = caller[t]
      BY <2>2 DEF MirrorInv, Moved
    <3> QED
      BY <3>1 DEF Where, NothingForgotten
  <2> QED
    BY <2>1, <2>2
<1>3. OnceHeld'
  <2>1. ~Excused' => ~Excused
    BY DEF Excused, NothingForgotten
  <2>2. ASSUME kind \in {"evidence", "ledger"}, ~Excused', NEW t \in Stores, t # s
        PROVE  caller'[t].at = "idle"
    BY <2>1, <2>2 DEF MirrorInv, OnceHeld, OnlyOne, Moved
  <2>3. kind \in {"evidence", "ledger"} /\ ~Excused' => OnlyOne'
    BY <2>2 DEF OnlyOne
  <2>4. ASSUME kind = "evidence", ~Excused', NEW t \in Stores PROVE EvidenceSeen(caller[t].at)'
    BY <2>2, <2>4 DEF EvidenceSeen, Moved
  <2>5. ASSUME kind = "ledger", ~Excused', NEW t \in Stores, caller'[t].at = "memory"
        PROVE  memRow' = 0
    BY <2>2, <2>5 DEF Moved
  <2> QED
    BY <2>3, <2>4, <2>5 DEF OnceHeld
<1> QED
  BY <1>1, <1>2, <1>3 DEF MirrorInv

\* A call begins.
LEMMA MirrorBegins ==
    ASSUME MirrorInv, NEW s \in Stores, BeginWrite(s)
    PROVE  MirrorInv'
<1> USE MirrorBounds
<1>1. /\ caller[s].at = "idle" /\ calls < MaxCalls /\ calls' = calls + 1
      /\ caller' = [caller EXCEPT ![s] = [at |-> EntryPoint, val |-> calls + 1]]
      /\ UNCHANGED <<kind, mode, memRow, kvRow, tableRow, acked, fell, audited, late, blind>>
  BY DEF BeginWrite, AtPoint, setting
<1>2. ~overlapped' => ~overlapped /\ \A t \in Stores : caller[t].at = "idle"
  BY DEF BeginWrite, AtPoint
<1>3. EntryPoint \in Points /\ Where(EntryPoint) /\ EntryPoint # "idle"
      /\ (kind = "evidence" => EntryPoint = "checkMemory")
      /\ (kind = "ledger" => EntryPoint # "memory")
  BY DEF MirrorInv, MirrorShapes, EntryPoint, Upsert, Points, RowKinds, Where
<1>4. PICK p : p = EntryPoint
  OBVIOUS
<1>5. calls \in Nat /\ calls + 1 \in 1 .. calls' /\ calls' \in 0 .. MaxCalls
  BY <1>1 DEF MirrorInv, MirrorShapes
<1>6. /\ caller' \in [Stores -> [at : Points, val : Nat]]
      /\ caller'[s].at = p /\ caller'[s].val = calls + 1
      /\ \A t \in Stores \ {s} : caller'[t] = caller[t]
  BY <1>1, <1>3, <1>4, <1>5 DEF MirrorInv, MirrorShapes
<1>7. MirrorShapes'
  <2>1. \A t \in Stores : caller'[t].at # "idle" => caller'[t].val \in 1 .. calls'
    BY <1>1, <1>5, <1>6 DEF MirrorInv, MirrorShapes
  <2>2. /\ memRow \in 0 .. calls' /\ kvRow \in 0 .. calls' /\ tableRow \in 0 .. calls'
        /\ acked \in 0 .. calls'
    BY <1>1, <1>5 DEF MirrorInv, MirrorShapes
  <2> QED
    BY <1>1, <1>5, <1>6, <2>1, <2>2 DEF MirrorInv, MirrorShapes
<1>8. RowsPlaced'
  BY <1>1 DEF MirrorInv, RowsPlaced, AtHome
<1>9. ASSUME NEW t \in Stores PROVE Where(caller[t].at)'
  <2>1. Where(p) /\ Where(caller[t].at)
    BY <1>3, <1>4 DEF MirrorInv
  <2>2. caller'[t].at \in {p, caller[t].at}
    BY <1>6
  <2> QED
    BY <1>1, <2>1, <2>2 DEF Where
<1>10. OnceHeld'
  <2>1. ~Excused' => ~Excused /\ \A t \in Stores \ {s} : caller'[t].at = "idle"
    BY <1>1, <1>2, <1>6 DEF Excused
  <2>2. ~Excused' => OnlyOne'
    BY <2>1 DEF OnlyOne
  <2>3. kind = "evidence" /\ ~Excused' => \A t \in Stores : EvidenceSeen(caller[t].at)'
    BY <1>3, <1>4, <1>6, <2>1 DEF EvidenceSeen
  <2>4. kind = "ledger" /\ ~Excused' => \A t \in Stores : caller'[t].at # "memory"
    BY <1>3, <1>4, <1>6, <2>1
  <2> QED
    BY <1>1, <2>1, <2>2, <2>3, <2>4 DEF MirrorInv, OnceHeld
<1> QED
  BY <1>7, <1>8, <1>9, <1>10 DEF MirrorInv

\* The checks before a write: they move the caller and leave the rows alone.
LEMMA MirrorChecks ==
    ASSUME MirrorInv, NEW s \in Stores, CheckMemory(s) \/ CheckKv(s) \/ Lookup(s)
    PROVE  MirrorInv'
<1>1. /\ UNCHANGED <<kind, mode, calls, memRow, kvRow, tableRow, acked, fell, audited, late,
                     overlapped>>
      /\ blind => blind'
  <2>1. CASE CheckMemory(s) \/ Lookup(s)
    BY <2>1 DEF CheckMemory, Lookup, setting, history
  <2>2. CASE CheckKv(s)
    <3>1. blind => blind'
      BY <2>2 DEF CheckKv
    <3> QED
      BY <2>2, <3>1 DEF CheckKv, setting
  <2> QED
    BY <2>1, <2>2
<1>2. caller[s].at \in {"checkMemory", "checkKv", "lookup"} /\ NothingForgotten /\ MirrorShapes
  <2>1. caller[s].at \in {"checkMemory", "checkKv", "lookup"}
    BY DEF CheckMemory, CheckKv, Lookup, AtPoint
  <2>2. NothingForgotten
    BY <1>1 DEF NothingForgotten
  <2> QED
    BY <2>1, <2>2 DEF MirrorInv
<1>3. /\ memRow' \in 0 .. calls /\ kvRow' \in 0 .. calls /\ tableRow' \in 0 .. calls
      /\ acked' \in 0 .. calls /\ RowsPlaced'
  BY <1>1 DEF MirrorInv, MirrorShapes, RowsPlaced, AtHome
<1>4. ~Excused' => ~Excused
  BY <1>1 DEF Excused
<1>5. kind = "evidence" /\ ~Excused' => acked' \in {0, memRow', kvRow'}
  BY <1>1, <1>4 DEF MirrorInv, OnceHeld
<1>6. Where(caller[s].at)
  BY DEF MirrorInv
<1>7. CASE Leaves(s)
  <2>1. Moved(s, "idle") /\ "idle" \in Points /\ Where("idle")' /\ EvidenceSeen("idle")'
    BY <1>2, <1>7, LeavesMoves DEF Points, Where, EvidenceSeen
  <2> QED
    BY <1>1, <1>2, <1>3, <1>5, <2>1, MirrorMoves
<1>8. CASE CheckMemory(s) /\ ~Leaves(s)
  <2>1. PICK p \in {"memory", "checkKv"} :
           /\ GoTo(s, p) /\ memRow = 0 /\ caller[s].at = "checkMemory"
           /\ p = "memory" <=> mode = "none"
    BY <1>8 DEF CheckMemory, AtPoint
  <2>2. kind = "evidence" /\ p \in Points
    BY <1>6, <2>1 DEF Where, Points
  <2>3. Moved(s, p)
    BY <1>2, <2>1, <2>2, GoToMoves
  <2>4. Where(p)'
    BY <1>1, <2>1, <2>2 DEF Where
  <2>5. ~Excused' => EvidenceSeen(p)'
    <3>1. mode = "none" => kvRow = 0
      BY DEF MirrorInv, RowsPlaced
    <3> QED
      BY <1>1, <1>5, <2>1, <2>2, <3>1 DEF EvidenceSeen
  <2> QED
    BY <1>1, <1>2, <1>3, <1>5, <2>2, <2>3, <2>4, <2>5, MirrorMoves
<1>9. CASE CheckKv(s) /\ ~Leaves(s)
  <2>1. /\ caller[s].at = "checkKv" /\ GoTo(s, "kv")
        /\ ~blind' => kvRow = 0
    BY <1>9 DEF CheckKv, AtPoint
  <2>2. kind = "evidence" /\ mode # "none" /\ "kv" \in Points
    BY <1>6, <2>1 DEF Where, Points
  <2>3. Moved(s, "kv")
    BY <1>2, <2>1, <2>2, GoToMoves
  <2>4. Where("kv")'
    BY <1>1, <2>2 DEF Where
  <2>5. ~Excused' => EvidenceSeen("kv")'
    <3>1. ~Excused' => kvRow = 0 /\ EvidenceSeen("checkKv")
      BY <1>1, <1>4, <2>1, <2>2 DEF MirrorInv, OnceHeld, Excused
    <3> QED
      BY <1>1, <3>1 DEF EvidenceSeen
  <2> QED
    BY <1>1, <1>2, <1>3, <1>5, <2>2, <2>3, <2>4, <2>5, MirrorMoves
<1>10. CASE Lookup(s) /\ ~Leaves(s)
  <2>1. PICK p : /\ caller[s].at = "lookup" /\ GoTo(s, p) /\ p = Upsert
                 /\ mode = "none" => memRow = 0
    BY <1>10 DEF Lookup, AtPoint, KnowledgeRead
  <2>2. kind = "ledger" /\ p \in Points /\ (mode # "none" => fell)
    BY <1>6, <2>1 DEF Where, Points, Upsert
  <2>3. Moved(s, p)
    BY <1>2, <2>1, <2>2, GoToMoves
  <2>4. Where(p)' /\ (p = "memory" => memRow' = 0)
    BY <1>1, <2>1, <2>2 DEF Where, Upsert
  <2> QED
    BY <1>1, <1>2, <1>3, <2>2, <2>3, <2>4, MirrorMoves
<1> QED
  BY <1>7, <1>8, <1>9, <1>10

\* A write that is acknowledged.
LEMMA MirrorWrites ==
    ASSUME MirrorInv, NEW s \in Stores, WriteTable(s) \/ WriteKv(s) \/ WriteMemory(s)
    PROVE  MirrorInv'
<1>1. PICK v : v = caller[s].val
  OBVIOUS
<1>2. /\ UNCHANGED <<kind, mode, calls, fell, audited, late, overlapped, blind>>
      /\ acked' = v /\ Leaves(s) /\ caller[s].at \in {"table", "kv", "memory"}
      /\ caller[s].at # "table" => tableRow' = tableRow
      /\ caller[s].at # "kv" => kvRow' = kvRow
      /\ caller[s].at # "memory" => memRow' = memRow
      /\ caller[s].at = "table" => tableRow' = v
      /\ caller[s].at = "kv" => kvRow' = v
      /\ caller[s].at = "memory" => memRow' = v
  BY <1>1 DEF WriteTable, WriteKv, WriteMemory, setting, history, Acknowledge, AtPoint
<1>3. v \in 1 .. calls /\ MirrorShapes /\ Where(caller[s].at)
  BY <1>1, <1>2 DEF MirrorInv, MirrorShapes
<1>4. /\ memRow' \in 0 .. calls /\ kvRow' \in 0 .. calls /\ tableRow' \in 0 .. calls
      /\ acked' \in 0 .. calls /\ calls \in Nat
  BY <1>2, <1>3 DEF MirrorShapes
<1>5. RowsPlaced'
  <2>1. RowsPlaced
    BY DEF MirrorInv
  <2> QED
    BY <1>2, <1>3, <2>1 DEF RowsPlaced, AtHome, Where, MirrorShapes, RowKinds
<1>6. Moved(s, "idle") /\ "idle" \in Points /\ Where("idle")' /\ EvidenceSeen("idle")'
  BY <1>2, <1>3, LeavesMoves DEF Points, Where, EvidenceSeen
<1>7. kind = "evidence" => acked' \in {0, memRow', kvRow'}
  BY <1>2, <1>3 DEF Where
<1>8. NothingForgotten
  BY <1>2 DEF NothingForgotten
<1> QED
  BY <1>2, <1>4, <1>5, <1>6, <1>7, <1>8, MirrorMoves

\* Postgres answers with an error.
LEMMA MirrorFails ==
    ASSUME MirrorInv, NEW s \in Stores, TableFails(s) \/ KvFails(s)
    PROVE  MirrorInv'
<1>1. PICK v : v = caller[s].val
  OBVIOUS
<1>2. PICK landed \in BOOLEAN :
        /\ FallBack(s, landed) /\ caller[s].at \in {"table", "kv"}
        /\ caller[s].at # "table" => tableRow' = tableRow
        /\ caller[s].at # "kv" => kvRow' = kvRow
        /\ caller[s].at = "table" => tableRow' = IF landed THEN v ELSE tableRow
        /\ caller[s].at = "kv" => kvRow' = IF landed THEN v ELSE kvRow
  BY <1>1 DEF TableFails, KvFails, AtPoint
<1>3. UNCHANGED <<kind, mode, calls, memRow, acked, audited, late, overlapped, blind>>
  BY <1>2 DEF FallBack, setting
<1>4. fell' <=> fell \/ landed \/ window
  BY <1>2 DEF FallBack
<1>5. PICK p \in Points :
        /\ Moved(s, p)
        /\ p = IF ~window THEN "idle" ELSE IF caller[s].at = "table" THEN "auditTable" ELSE "auditKv"
  <2>1. MirrorShapes
    BY DEF MirrorInv
  <2>2. CASE ~window
    <3>1. Leaves(s) /\ "idle" \in Points
      BY <1>2, <2>2 DEF FallBack, Points
    <3> QED
      BY <2>1, <2>2, <3>1, LeavesMoves
  <2>3. CASE window
    <3>1. PICK q : /\ q = IF caller[s].at = "table" THEN "auditTable" ELSE "auditKv"
                   /\ GoTo(s, q)
      BY <1>2, <2>3 DEF FallBack, AtPoint
    <3>2. q \in Points
      BY <3>1 DEF Points
    <3> QED
      BY <2>1, <2>3, <3>1, <3>2, GoToMoves
  <2> QED
    BY <2>2, <2>3
<1>6. v \in 1 .. calls /\ Where(caller[s].at)
  BY <1>1, <1>2 DEF MirrorInv, MirrorShapes
<1>7. /\ memRow' \in 0 .. calls /\ kvRow' \in 0 .. calls /\ tableRow' \in 0 .. calls
      /\ acked' \in 0 .. calls /\ calls \in Nat
  BY <1>2, <1>3, <1>6 DEF MirrorInv, MirrorShapes
<1>8. RowsPlaced'
  <2>1. RowsPlaced
    BY DEF MirrorInv
  <2>2. ~fell' => ~fell /\ kvRow' = kvRow /\ tableRow' = tableRow
    BY <1>2, <1>4
  <2>3. fell => fell'
    BY <1>4
  <2>4. /\ kind \in {"plain", "evidence"} \/ mode = "none" => tableRow' = tableRow
        /\ kind = "entity" \/ mode = "none" => kvRow' = kvRow
    BY <1>2, <1>6 DEF Where
  <2> QED
    BY <1>3, <2>1, <2>2, <2>3, <2>4 DEF RowsPlaced, AtHome
<1>9. NothingForgotten
  BY <1>3, <1>4 DEF NothingForgotten
<1>10. Where(p)'
  <2>1. p # "idle" => fell'
    BY <1>4, <1>5
  <2> QED
    BY <1>2, <1>3, <1>5, <1>6, <2>1 DEF Where
<1>11. ASSUME kind = "evidence", ~Excused' PROVE acked' \in {0, memRow', kvRow'} /\ EvidenceSeen(p)'
  <2>1. ~Excused
    BY <1>3, <1>11 DEF Excused
  <2>2. caller[s].at = "kv"
    BY <1>2, <1>6, <1>11 DEF Where
  <2>3. memRow = 0 /\ kvRow = 0 /\ acked = 0
    BY <1>11, <2>1, <2>2 DEF MirrorInv, OnceHeld, EvidenceSeen
  <2>4. p \in {"idle", "auditKv"}
    BY <1>5, <2>2
  <2> QED
    BY <1>3, <2>3, <2>4 DEF EvidenceSeen
<1>12. p # "memory" /\ caller[s].at # "idle"
  BY <1>2, <1>5
<1> QED
  BY <1>3, <1>5, <1>7, <1>8, <1>9, <1>10, <1>11, <1>12, MirrorMoves

\* The audit event of a fallback.
LEMMA MirrorAudits ==
    ASSUME MirrorInv, NEW s \in Stores, RecordRollback(s)
    PROVE  MirrorInv'
<1>1. /\ caller[s].at \in {"auditTable", "auditKv"}
      /\ UNCHANGED <<kind, mode, calls, memRow, kvRow, tableRow, acked, fell, overlapped, blind>>
  BY DEF RecordRollback, AtPoint, setting
<1>2. (audited => audited') /\ (late => late') /\ (audited' \/ late')
  BY DEF RecordRollback
<1>3. NothingForgotten
  BY <1>1, <1>2 DEF NothingForgotten
<1>4. PICK p : p = AfterAudit(s) /\ GoTo(s, p)
  BY DEF RecordRollback
<1>5. Where(caller[s].at) /\ MirrorShapes /\ RowsPlaced
  BY DEF MirrorInv
<1>6. /\ p \in {"memory", "lookup", "kv"}
      /\ p = "lookup" => caller[s].at = "auditTable" /\ kind = "ledger"
      /\ p = "kv" => caller[s].at = "auditTable" /\ kind = "typed"
      /\ kind = "evidence" => p = "memory" /\ caller[s].at = "auditKv"
      /\ kind = "ledger" /\ p = "memory" => caller[s].at = "auditKv"
  BY <1>1, <1>4, <1>5 DEF AfterAudit, AtPoint, Where
<1>7. p \in Points /\ Moved(s, p)
  <2>1. p \in Points
    BY <1>6 DEF Points
  <2> QED
    BY <1>4, <1>5, <2>1, GoToMoves
<1>8. Where(p)'
  BY <1>1, <1>2, <1>5, <1>6 DEF Where
<1>9. RowsPlaced'
  BY <1>1, <1>2, <1>5 DEF RowsPlaced, AtHome
<1>10. ASSUME kind = "evidence", ~Excused' PROVE acked' \in {0, memRow', kvRow'} /\ EvidenceSeen(p)'
  <2>1. ~Excused
    BY <1>1, <1>10 DEF Excused
  <2>2. memRow = 0 /\ acked = 0
    BY <1>6, <1>10, <2>1 DEF MirrorInv, OnceHeld, EvidenceSeen
  <2> QED
    BY <1>1, <1>6, <1>10, <2>2 DEF EvidenceSeen
<1>11. kind = "ledger" => Excused'
  BY <1>1, <1>5 DEF Where, Excused
<1>12. /\ memRow' \in 0 .. calls /\ kvRow' \in 0 .. calls /\ tableRow' \in 0 .. calls
       /\ acked' \in 0 .. calls /\ caller[s].at # "idle"
  BY <1>1, <1>5 DEF MirrorShapes
<1> QED
  BY <1>1, <1>3, <1>7, <1>8, <1>9, <1>10, <1>11, <1>12, MirrorMoves

\* Every step preserves the invariant of the store.
LEMMA MirrorStep == MirrorInv /\ [MirrorNext]_mirrorVars => MirrorInv'
<1> SUFFICES ASSUME MirrorInv, [MirrorNext]_mirrorVars PROVE MirrorInv'
  OBVIOUS
<1>1. CASE CloseWindow
  <2>1. UNCHANGED <<kind, mode, memRow, kvRow, tableRow, audited, caller, calls, acked, fell,
                    overlapped, blind, late>>
    BY <1>1 DEF CloseWindow, setting, history
  <2> QED
    BY <2>1 DEF MirrorInv, MirrorShapes, RowsPlaced, AtHome, OnceHeld, OnlyOne, EvidenceSeen,
                Excused, Where
<1>2. CASE Reboot
  <2>1. /\ memRow' = 0 /\ caller' = [s \in Stores |-> NoWrite]
        /\ acked' = IF acked = memRow THEN 0 ELSE acked
        /\ UNCHANGED <<kind, mode, kvRow, tableRow, calls, fell, overlapped, blind, late>>
    BY <1>2 DEF Reboot, setting, history
  <2>2. NoWrite \in [at : Points, val : Nat] /\ NoWrite.at = "idle"
    BY DEF NoWrite, Points
  <2>3. \A s \in Stores : caller'[s].at = "idle"
    BY <2>1, <2>2
  <2>4. MirrorShapes'
    BY <2>1, <2>2, <2>3, MirrorBounds DEF MirrorInv, MirrorShapes
  <2>5. RowsPlaced'
    BY <2>1 DEF MirrorInv, RowsPlaced, AtHome
  <2>6. OnceHeld'
    <3>1. ~Excused' => ~Excused
      BY <2>1 DEF Excused
    <3> QED
      BY <2>1, <2>3, <3>1 DEF MirrorInv, OnceHeld, OnlyOne, EvidenceSeen
  <2>7. \A s \in Stores : Where(caller[s].at)'
    BY <2>3 DEF Where
  <2> QED
    BY <2>4, <2>5, <2>6, <2>7 DEF MirrorInv
<1>3. CASE UNCHANGED mirrorVars
  <2>1. UNCHANGED <<kind, mode, memRow, kvRow, tableRow, audited, caller, calls, acked, fell,
                    overlapped, blind, late>>
    BY <1>3 DEF mirrorVars
  <2> QED
    BY <2>1 DEF MirrorInv, MirrorShapes, RowsPlaced, AtHome, OnceHeld, OnlyOne, EvidenceSeen,
                Excused, Where
<1>4. ASSUME NEW s \in Stores, StoreStep(s) PROVE MirrorInv'
  BY <1>4, MirrorBegins, MirrorChecks, MirrorWrites, MirrorFails, MirrorAudits DEF StoreStep
<1> QED
  BY <1>1, <1>2, <1>3, <1>4 DEF MirrorNext

\* The inductive invariant holds of every run of the store.
THEOREM MirrorInvariant == MirrorSpec => []MirrorInv
BY MirrorInitInv, MirrorStep, PTL DEF MirrorSpec

\* Rows are only where their kind is written, through errors, rollback windows and restarts.
THEOREM MirrorTypes == MirrorSpec => []MirrorTypeOK
<1>1. ASSUME MirrorInv PROVE MirrorTypeOK
  BY <1>1 DEF MirrorInv, MirrorShapes, RowsPlaced, MirrorTypeOK
<1> QED
  BY <1>1, MirrorInvariant, PTL

\* A read between writes returns the value acknowledged last, and memory holds only what fell
\* back, with its audit event, for any callers and any number of calls (MirrorHolds).
THEOREM MirrorKeeps == MirrorSpec => []MirrorHolds
<1>1. ASSUME MirrorInv PROVE AckedIsRead
  <2> SUFFICES ASSUME Visible, ~fell
               PROVE  Read(TRUE) = acked /\ (mode # "Shadow" => Read(FALSE) \in {acked, Failed})
    BY DEF AckedIsRead
  <2>1. AtHome /\ (mode # "none" => memRow = 0)
    BY <1>1 DEF MirrorInv, RowsPlaced
  <2>2. CASE kind \in {"plain", "evidence"}
    <3>1. Read(TRUE) = KnowledgeRead(TRUE) /\ Read(FALSE) = KnowledgeRead(FALSE)
      BY <2>2 DEF Read
    <3>2. mode = "none" \/ EffectivePreference = "Postgres"
      BY <2>2 DEF Visible
    <3>3. KnowledgeRead(TRUE) = acked
      BY <2>1, <2>2, <3>2 DEF KnowledgeRead, AtHome
    <3>4. mode # "Shadow" => KnowledgeRead(FALSE) \in {acked, Failed}
      BY <2>1, <2>2, <3>2 DEF KnowledgeRead, AtHome
    <3> QED
      BY <3>1, <3>3, <3>4
  <2>3. CASE kind \in {"typed", "entity", "ledger"}
    <3>1. Read(TRUE) = TableRead(TRUE) /\ Read(FALSE) = TableRead(FALSE)
      BY <2>3 DEF Read
    <3> QED
      BY <2>1, <2>3, <3>1 DEF TableRead, AtHome
  <2> QED
    BY <1>1, <2>2, <2>3 DEF MirrorInv, MirrorShapes, RowKinds
<1>2. ASSUME MirrorInv PROVE FallbackAudited
  BY <1>2 DEF MirrorInv, RowsPlaced, FallbackAudited
<1> QED
  BY <1>1, <1>2, MirrorInvariant, PTL DEF MirrorHolds

\* Evidence and ledger entries are not replaced, but by calls that overlapped, a check that
\* Postgres did not answer or a fallback of a ledger entry (WrittenOnce).
THEOREM EntriesWrittenOnce == MirrorSpec => WrittenOnce
<1>1. ASSUME MirrorInv, [MirrorNext]_mirrorVars, kind \in {"evidence", "ledger"} PROVE OnceStep
  <2> USE <1>1
  <2>1. CASE UNCHANGED <<acked, kvRow, tableRow>>
    BY <2>1 DEF OnceStep
  <2>2. CASE Reboot
    BY <2>2 DEF Reboot, OnceStep
  <2>3. ASSUME NEW s \in Stores, WriteTable(s) \/ TableFails(s) PROVE OnceStep
    <3>1. /\ kvRow' = kvRow /\ caller[s].at = "table"
          /\ tableRow' = tableRow \/ Insertable
          /\ acked' = acked \/ Insertable
      <4>1. CASE WriteTable(s)
        BY <4>1 DEF WriteTable, AtPoint
      <4>2. CASE TableFails(s)
        BY <4>2 DEF TableFails, FallBack, AtPoint
      <4> QED
        BY <2>3, <4>1, <4>2
    <3>2. kind = "ledger" /\ mode # "none"
      BY <3>1 DEF MirrorInv, Where
    <3>3. ~fell => acked = tableRow
      BY <3>2 DEF MirrorInv, RowsPlaced, AtHome
    <3> QED
      BY <3>1, <3>2, <3>3 DEF OnceStep, Insertable, Excused
  <2>4. ASSUME NEW s \in Stores, WriteKv(s) \/ KvFails(s) PROVE OnceStep
    <3>1. caller[s].at = "kv" /\ tableRow' = tableRow
      BY <2>4 DEF WriteKv, KvFails, AtPoint
    <3>2. kind = "ledger" => Excused
      BY <3>1 DEF MirrorInv, Where, Excused
    <3>3. kind = "evidence" /\ ~Excused => acked = 0 /\ kvRow = 0
      BY <3>1 DEF MirrorInv, OnceHeld, EvidenceSeen
    <3> QED
      BY <3>1, <3>2, <3>3 DEF OnceStep
  <2>5. ASSUME NEW s \in Stores, WriteMemory(s) PROVE OnceStep
    <3>1. caller[s].at = "memory" /\ UNCHANGED <<kvRow, tableRow>>
      BY <2>5 DEF WriteMemory, AtPoint
    <3>2. kind = "evidence" /\ ~Excused => acked = 0
      BY <3>1 DEF MirrorInv, OnceHeld, EvidenceSeen
    <3>3. kind = "ledger" /\ ~Excused => mode = "none" /\ memRow = 0 /\ acked = memRow
      BY <3>1 DEF MirrorInv, OnceHeld, Where, RowsPlaced, AtHome, Excused
    <3> QED
      BY <3>1, <3>2, <3>3 DEF OnceStep
  <2>6. ASSUME NEW s \in Stores,
               BeginWrite(s) \/ CheckMemory(s) \/ CheckKv(s) \/ RecordRollback(s) \/ Lookup(s)
        PROVE  UNCHANGED <<acked, kvRow, tableRow>>
    BY <2>6 DEF BeginWrite, CheckMemory, CheckKv, RecordRollback, Lookup
  <2>7. CASE CloseWindow \/ UNCHANGED mirrorVars
    BY <2>1, <2>7 DEF CloseWindow, mirrorVars
  <2> QED
    BY <2>1, <2>2, <2>3, <2>4, <2>5, <2>6, <2>7 DEF MirrorNext, StoreStep
<1>2. MirrorInv /\ [MirrorNext]_mirrorVars =>
        [(kind \in {"evidence", "ledger"}) => OnceStep]_mirrorVars
  BY <1>1
<1> QED
  BY <1>2, MirrorInvariant, PTL DEF MirrorSpec, WrittenOnce

-----------------------------------------------------------------------------
(* All components side by side *)

\* A step of the whole is a step of each component, or leaves it alone: the components
\* share no variable.
LEMMA StoredSteps ==
    [MCNext]_mcVars =>
        /\ [SwarmNext]_swarmVars /\ [SessionNext]_sessionVars /\ [PluginNext]_pluginVars
        /\ [RemoteNext]_remoteVars /\ [QueueNext]_queueVars /\ [ReviewNext]_reviewVars
        /\ [FlowNext]_flowVars /\ [ChainNext]_chainVars /\ [MirrorNext]_mirrorVars
<1>1. [MCNext]_mcVars => [SwarmNext]_swarmVars /\ [SessionNext]_sessionVars
  BY DEF MCNext, Rest, mcVars
<1>2. [MCNext]_mcVars => [PluginNext]_pluginVars /\ [RemoteNext]_remoteVars
  BY DEF MCNext, Rest, mcVars
<1>3. [MCNext]_mcVars => [QueueNext]_queueVars /\ [ReviewNext]_reviewVars
  BY DEF MCNext, Rest, mcVars
<1>4. [MCNext]_mcVars => [FlowNext]_flowVars /\ [ChainNext]_chainVars
  BY DEF MCNext, Rest, mcVars
<1>5. [MCNext]_mcVars => [MirrorNext]_mirrorVars
  BY DEF MCNext, Rest, mcVars
<1> QED
  BY <1>1, <1>2, <1>3, <1>4, <1>5

\* Side by side, the components that keep rows, files and records behave as each does
\* alone, so that what is proved of one holds of the whole.
THEOREM StoredComponents ==
    MCSpec => /\ SwarmSpec /\ SessionSpec /\ PluginSpec /\ RemoteSpec /\ QueueSpec
              /\ ReviewSpec /\ FlowSpec /\ ChainSpec /\ MirrorSpec
<1>1. MCInit => /\ SwarmInit /\ SessionInit /\ PluginInit /\ RemoteInit /\ QueueInit
                /\ ReviewInit /\ FlowInit /\ ChainInit /\ MirrorInit
  BY DEF MCInit
<1> QED
  BY <1>1, StoredSteps, PTL
     DEF MCSpec, SwarmSpec, SessionSpec, PluginSpec, RemoteSpec, QueueSpec, ReviewSpec,
         FlowSpec, ChainSpec, MirrorSpec

\* No operation of a component leaves a row, a file or a counter that it cannot read
\* back, whatever fails, overlaps or restarts (StoredTypesOK).
THEOREM StoredTypes == MCSpec => []StoredTypesOK
BY StoredComponents, TypeInvariant, SessionTypes, PluginTypes, RemoteTypes, QueueTypes,
   ReviewTypes, FlowTypes, ChainTypes, MirrorTypes, PTL DEF StoredTypesOK

\* What the store says is what the process has (RowsFollowState): the plugin's row and
\* index, the status row of the bridge and the views of the flow map, once an operation
\* that nothing overlapped has gone through.
THEOREM RowsFollow == MCSpec => []RowsFollowState
BY StoredComponents, StoredIsRecord, StatusRowIsCurrent, ViewsAreThoseOfTheMap, PTL
   DEF RowsFollowState
==============================================================================
