---------------------------- MODULE SessionProofs ----------------------------
(****************************************************************************)
(* Proofs about sessions, for any clients and bounds: the session store and  *)
(* its checkpoints (SessionStore), remote sessions and their bridge          *)
(* (RemoteSession).                                                          *)
(*                                                                           *)
(* The session store keeps three promises (AloneAppendRepairs,               *)
(* SettledMessagesStay, ContinuationKept) that are inductive together.  A    *)
(* token starts one bridge because the token of a client between the check    *)
(* of its jti and the start is consumed by that client alone (MayStart); its  *)
(* status row is current because unless operations overlapped one client at  *)
(* a time writes it, with the entry it wrote (StatusHeld).                   *)
(****************************************************************************)
EXTENDS SessionStore, RemoteSession, TLAPS

-----------------------------------------------------------------------------
(* The session store *)

\* A message pushed now is within the bound, and is one more.
LEMMA PushedMessage ==
    ASSUME pushed \in 0 .. MaxMessages, pushed < MaxMessages, NEW text \in BOOLEAN,
           NEW h \in Histories, pushed' = pushed + 1
    PROVE  /\ pushed' \in 0 .. MaxMessages
           /\ h \cup {[id |-> pushed + 1, text |-> text]} \in Histories'
           /\ \A g \in Histories : g \in Histories'
<1>1. pushed + 1 \in 1 .. MaxMessages
      BY SessionBounds
<1>2. [id |-> pushed + 1, text |-> text] \in Message /\ [id |-> pushed + 1, text |-> text].id <= pushed'
      BY <1>1 DEF Message
<1>3. \A m \in Message : m.id <= pushed => m.id <= pushed'
      BY SessionBounds DEF Message
<1>4. \A g \in Histories : g \in Histories'
      BY <1>3 DEF Histories
<1>5. QED
      BY <1>1, <1>2, <1>4 DEF Histories

\* A client at rest has a well-formed copy.
LEMMA NoCopyTyped == NoCopy \in Copies /\ {} \in Histories
BY SessionBounds DEF NoCopy, Copies, Histories, Tokens

\* The checkpoint of a copy is well-formed.
LEMMA CheckpointTyped ==
    ASSUME NEW f \in Files, NEW r \in Copies
    PROVE  Checkpoint(f, r) \in Checkpoints
BY DEF Checkpoint, Copies, Checkpoints

\* Initial states are well typed.
LEMMA TypeInit == SessionInit => SessionTypeOK
<1> SUFFICES ASSUME SessionInit PROVE SessionTypeOK
    OBVIOUS
<1>1. Checkpoint("none", NoCopy) \in Checkpoints
      BY NoCopyTyped, CheckpointTyped DEF Files
<1>2. /\ saved \in [file : Files, hist : Histories] /\ evid \in [file : Files, ref : Histories]
      BY NoCopyTyped DEF SessionInit, Conversation, EvidenceRecord, Files
<1>3. pushed \in 0 .. MaxMessages /\ binds \in Tokens /\ faults \in 0 .. MaxFaults /\ token \in Tokens
      BY SessionBounds DEF SessionInit, Tokens
<1>4. live \in BOOLEAN /\ settled \in BOOLEAN
      BY DEF SessionInit
<1>5. pc \in [Clients -> Places] /\ op \in [Clients -> Ops] /\ copy \in [Clients -> Copies]
      BY NoCopyTyped DEF SessionInit, Places, Ops
<1>6. QED
      BY <1>1, <1>2, <1>3, <1>4, <1>5, NoCopyTyped DEF SessionInit, SessionTypeOK

\* Every step but Push leaves the pushed messages, and so the sets of
\* histories, alone.
LEMMA TypeStep == SessionTypeOK /\ [SessionNext]_sessionVars => SessionTypeOK'
<1> SUFFICES ASSUME SessionTypeOK, [SessionNext]_sessionVars PROVE SessionTypeOK'
    OBVIOUS
<1>w. "none" \in Files /\ "torn" \in Files /\ "whole" \in Files
      BY DEF Files
<1>c. Loaded \in Copies
      BY DEF Loaded, Copies, Checkpoints, SessionTypeOK
<1>k. \A c \in Clients : /\ copy[c] \in Copies /\ copy[c].hist \in Histories
                         /\ copy[c].items \in Histories /\ copy[c].cont \in Tokens
                         /\ Clean(copy[c].hist) \in Histories /\ Newest(copy[c].hist) \in Histories
      BY DEF Copies, Histories, Clean, Newest, SessionTypeOK
<1>u. /\ saved.hist \in Histories /\ ckpt.hist \in Histories
      /\ ckpt.items \in Histories /\ ckpt.cont \in Tokens
      BY DEF Checkpoints, SessionTypeOK
<1>v. /\ \A h \in Histories, f \in Files : /\ Conversation(f, h) \in [file : Files, hist : Histories]
                                         /\ EvidenceRecord(f, h) \in [file : Files, ref : Histories]
      /\ \A r \in Copies, f \in Files : Checkpoint(f, r) \in Checkpoints
      BY CheckpointTyped DEF Conversation, EvidenceRecord
<1>d. ASSUME NEW c \in Clients, Done(c)
      PROVE  /\ pc' \in [Clients -> Places] /\ op' \in [Clients -> Ops]
             /\ copy' \in [Clients -> Copies]
      BY <1>d, NoCopyTyped DEF Done, Goto, Carry, Places, Ops, SessionTypeOK
<1>e. ASSUME NEW c \in Clients, NEW o \in Ops, NEW where \in Places, Enter(c, o, where)
      PROVE  /\ pc' \in [Clients -> Places] /\ op' \in [Clients -> Ops]
             /\ alone' \subseteq Clients /\ token' \in Tokens
      BY <1>e, SessionBounds DEF Enter, Goto, Tokens, SessionTypeOK
<1>h. ASSUME UNCHANGED pushed
      PROVE  Histories' = Histories /\ Copies' = Copies /\ Checkpoints' = Checkpoints
      BY <1>h DEF Histories, Copies, Checkpoints
<1>1. ASSUME NEW c \in Clients, Push(c) PROVE SessionTypeOK'
  <2>1. PICK text \in BOOLEAN :
            mem' = (IF live THEN mem ELSE saved.hist) \cup {[id |-> pushed + 1, text |-> text]}
        BY <1>1 DEF Push
  <2>2. (IF live THEN mem ELSE saved.hist) \in Histories
        BY <1>u DEF SessionTypeOK
  <2>3. /\ pushed' \in 0 .. MaxMessages /\ mem' \in Histories'
        /\ \A g \in Histories : g \in Histories'
        BY <1>1, <2>1, <2>2, PushedMessage DEF Push, SessionTypeOK
  <2>4. \A r \in Copies : r \in Copies'
        BY <2>3 DEF Copies
  <2>5. cache' \in Checkpoints' /\ ckpt' \in Checkpoints'
        BY <1>1, <2>3 DEF Push, Checkpoints, disk, SessionTypeOK
  <2>6. [NoCopy EXCEPT !.hist = mem'] \in Copies'
        BY <2>3, NoCopyTyped DEF NoCopy, Copies
  <2>7. copy' \in [Clients -> Copies']
        BY <1>1, <2>4, <2>6 DEF Push, Carry, SessionTypeOK
  <2>8. Enter(c, "append", "save") /\ "append" \in Ops /\ "save" \in Places
        BY <1>1 DEF Push, Ops, Places
  <2>9. safe' \in Histories
        BY <1>1, <1>u DEF Push, Histories, SessionTypeOK
  <2>10. items' \in Histories' /\ safe' \in Histories'
        BY <1>1, <2>3, <2>9 DEF Push, SessionTypeOK
  <2>11. saved' \in [file : Files, hist : Histories'] /\ evid' \in [file : Files, ref : Histories']
        BY <1>1, <2>3 DEF Push, disk, SessionTypeOK
  <2>12. QED
        BY <1>1, <1>e, <2>3, <2>5, <2>7, <2>8, <2>10, <2>11 DEF SessionTypeOK, Push
<1>2. ASSUME NEW c \in Clients, SaveConversation(c) PROVE SessionTypeOK'
  <2>1. pc' \in [Clients -> Places] /\ pushed' = pushed
        BY <1>2 DEF SaveConversation, Goto, Places, counts, SessionTypeOK
  <2>2. QED
        BY <1>2, <1>h, <1>k, <1>v, <1>w, <2>1 DEF SaveConversation, memory, disk, counts, SessionTypeOK
<1>3. ASSUME NEW c \in Clients, PushItem(c) PROVE SessionTypeOK'
  <2>1. items' \in Histories /\ pushed' = pushed
        BY <1>3, <1>k DEF PushItem, Histories, counts, SessionTypeOK
  <2>2. copy' \in [Clients -> Copies]
    <3>1. [copy[c] EXCEPT !.items = items'] \in Copies
          BY <2>1, <1>k DEF Copies
    <3>2. QED
          BY <1>3, <3>1 DEF PushItem, Carry, SessionTypeOK
  <2>3. pc' \in [Clients -> Places]
        BY <1>3 DEF PushItem, Goto, Places, SessionTypeOK
  <2>4. QED
        BY <1>3, <1>h, <2>1, <2>2, <2>3 DEF PushItem, disk, counts, SessionTypeOK
<1>4. ASSUME NEW c \in Clients, LoadPrevious(c) PROVE SessionTypeOK'
  <2>1. copy' \in [Clients -> Copies]
    <3>1. (IF Verifies THEN ckpt.cont ELSE 0) \in Tokens
          BY <1>u, SessionBounds DEF Tokens
    <3>2. [copy[c] EXCEPT !.cont = IF Verifies THEN ckpt.cont ELSE 0] \in Copies
          BY <3>1, <1>k DEF Copies
    <3>3. QED
          BY <1>4, <3>2 DEF LoadPrevious, Carry, SessionTypeOK
  <2>2. pc' \in [Clients -> Places] /\ pushed' = pushed
        BY <1>4 DEF LoadPrevious, Goto, Places, counts, SessionTypeOK
  <2>3. QED
        BY <1>4, <1>h, <2>1, <2>2 DEF LoadPrevious, memory, disk, counts, SessionTypeOK
<1>5. ASSUME NEW c \in Clients, WriteCheckpoint(c) PROVE SessionTypeOK'
  <2>1. pc' \in [Clients -> Places] /\ pushed' = pushed
        BY <1>5 DEF WriteCheckpoint, Goto, Places, counts, SessionTypeOK
  <2>2. ckpt' \in Checkpoints /\ settled' \in BOOLEAN
        BY <1>5, <1>k, <1>v, <1>w DEF WriteCheckpoint
  <2>3. QED
        BY <1>5, <1>h, <2>1, <2>2 DEF WriteCheckpoint, memory, counts, SessionTypeOK
<1>6. ASSUME NEW c \in Clients, WriteEvidence(c) PROVE SessionTypeOK'
  <2>1. pushed' = pushed /\ evid' \in [file : Files, ref : Histories] /\ token' \in Tokens
        BY <1>6, <1>k, <1>v, <1>w DEF WriteEvidence, counts, SessionTypeOK
  <2>2. /\ pc' \in [Clients -> Places] /\ op' \in [Clients -> Ops]
        /\ copy' \in [Clients -> Copies]
    <3>1. CASE op[c] = "append"
          BY <1>6, <3>1 DEF WriteEvidence, Goto, Places, SessionTypeOK
    <3>2. CASE op[c] # "append"
          BY <1>6, <1>d, <3>2 DEF WriteEvidence
    <3>3. QED
          BY <3>1, <3>2
  <2>3. QED
        BY <1>6, <1>h, <2>1, <2>2 DEF WriteEvidence, memory, counts, SessionTypeOK
<1>7. ASSUME NEW c \in Clients, WriteCache(c) PROVE SessionTypeOK'
  <2>1. pushed' = pushed /\ cache' \in Checkpoints /\ Done(c)
        BY <1>7, <1>k, <1>v, <1>w DEF WriteCache, counts
  <2>2. QED
        BY <1>7, <1>h, <1>d, <2>1 DEF WriteCache, disk, counts, SessionTypeOK
<1>8. ASSUME NEW c \in Clients, WriteFails(c) PROVE SessionTypeOK'
  <2>1. pushed' = pushed /\ faults' \in 0 .. MaxFaults /\ token' \in Tokens
        BY <1>8, SessionBounds DEF WriteFails, Tokens, SessionTypeOK
  <2>2. /\ pc' \in [Clients -> Places] /\ op' \in [Clients -> Ops]
        /\ copy' \in [Clients -> Copies]
        BY <1>8, <1>d DEF WriteFails, Goto, Places, SessionTypeOK
  <2>3. /\ saved' \in [file : Files, hist : Histories] /\ ckpt' \in Checkpoints
        /\ evid' \in [file : Files, ref : Histories]
        BY <1>8, <1>v, <1>w, NoCopyTyped DEF WriteFails, SessionTypeOK
  <2>4. QED
        BY <1>8, <1>h, <2>1, <2>2, <2>3 DEF WriteFails, memory, SessionTypeOK
<1>9. ASSUME NEW c \in Clients, Restore(c) PROVE SessionTypeOK'
  <2>1. Enter(c, "restore", "insert") /\ "restore" \in Ops /\ "insert" \in Places
        BY <1>9 DEF Restore, Ops, Places
  <2>2. pushed' = pushed
        BY <1>9 DEF Restore, counts
  <2>3. QED
        BY <1>9, <1>e, <1>h, <1>c, <2>1, <2>2 DEF Restore, Carry, memory, disk, counts, SessionTypeOK
<1>10. ASSUME NEW c \in Clients, Insert(c) PROVE SessionTypeOK'
  <2>1. pc' \in [Clients -> Places] /\ pushed' = pushed
        BY <1>10 DEF Insert, Goto, Places, counts, SessionTypeOK
  <2>2. QED
        BY <1>10, <1>h, <1>k, <1>v, <1>w, <2>1 DEF Insert, memory, disk, counts, SessionTypeOK
<1>11. ASSUME NEW c \in Clients, Hydrate(c) PROVE SessionTypeOK'
  <2>1. /\ pc' \in [Clients -> Places] /\ op' \in [Clients -> Ops]
        /\ copy' \in [Clients -> Copies] /\ items' \in Histories
    <3>1. CASE Verifies
          BY <1>11, <1>c, <1>u, <3>1 DEF Hydrate, Goto, Carry, Places, SessionTypeOK
    <3>2. CASE ~Verifies
          BY <1>11, <1>d, <3>2 DEF Hydrate, SessionTypeOK
    <3>3. QED
          BY <3>1, <3>2
  <2>2. QED
        BY <1>11, <1>h, <2>1 DEF Hydrate, disk, counts, SessionTypeOK
<1>12. ASSUME NEW c \in Clients, FillCache(c) PROVE SessionTypeOK'
  <2>1. pushed' = pushed /\ cache' \in Checkpoints /\ Done(c)
        BY <1>12, <1>k, <1>v, <1>w DEF FillCache, counts
  <2>2. QED
        BY <1>12, <1>h, <1>d, <2>1 DEF FillCache, disk, counts, SessionTypeOK
<1>13. ASSUME NEW c \in Clients, MissCache(c) PROVE SessionTypeOK'
  <2>1. Enter(c, "read", "fill") /\ "read" \in Ops /\ "fill" \in Places
        BY <1>13 DEF MissCache, Ops, Places
  <2>2. pushed' = pushed
        BY <1>13 DEF MissCache, counts
  <2>3. QED
        BY <1>13, <1>e, <1>h, <1>c, <2>1, <2>2 DEF MissCache, Carry, memory, disk, counts, SessionTypeOK
<1>14. ASSUME NEW c \in Clients, Bind(c) PROVE SessionTypeOK'
  <2>1. Enter(c, "bind", "ckpt") /\ "bind" \in Ops /\ "ckpt" \in Places
        BY <1>14 DEF Bind, Ops, Places
  <2>2. pushed' = pushed
        BY <1>14 DEF Bind, counts
  <2>3. binds' \in Tokens /\ binds + 1 \in Tokens
        BY <1>14, SessionBounds DEF Bind, Tokens, SessionTypeOK
  <2>4. copy' \in [Clients -> Copies]
    <3>1. [Loaded EXCEPT !.cont = binds + 1] \in Copies
          BY <1>c, <2>3 DEF Copies
    <3>2. QED
          BY <1>14, <3>1 DEF Bind, Carry, SessionTypeOK
  <2>5. QED
        BY <1>14, <1>e, <1>h, <2>1, <2>2, <2>3, <2>4 DEF Bind, memory, disk, SessionTypeOK
<1>15. ASSUME NEW c \in Clients, NamedSnapshot(c) PROVE SessionTypeOK'
  <2>1. Enter(c, "snapshot", "history") /\ "snapshot" \in Ops /\ "history" \in Places
        BY <1>15 DEF NamedSnapshot, Ops, Places
  <2>2. pushed' = pushed
        BY <1>15 DEF NamedSnapshot, counts
  <2>3. QED
        BY <1>15, <1>e, <1>h, <2>1, <2>2 DEF NamedSnapshot, memory, disk, counts, SessionTypeOK
<1>16. ASSUME Restart PROVE SessionTypeOK'
  <2>1. pushed' = pushed /\ faults' \in 0 .. MaxFaults /\ token' \in Tokens
        BY <1>16, SessionBounds DEF Restart, Tokens, SessionTypeOK
  <2>2. /\ pc' \in [Clients -> Places] /\ op' \in [Clients -> Ops]
        /\ copy' \in [Clients -> Copies]
        BY <1>16, NoCopyTyped DEF Restart, Places, Ops
  <2>3. /\ saved' \in [file : Files, hist : Histories] /\ ckpt' \in Checkpoints
        /\ evid' \in [file : Files, ref : Histories] /\ cache' \in Checkpoints
        BY <1>16, <1>v, <1>w, NoCopyTyped DEF Restart, SessionTypeOK
  <2>4. QED
        BY <1>16, <1>h, <2>1, <2>2, <2>3, NoCopyTyped DEF Restart, SessionTypeOK
<1>17. ASSUME UNCHANGED sessionVars PROVE SessionTypeOK'
      BY <1>17 DEF sessionVars, SessionTypeOK, Histories, Copies, Checkpoints
<1>18. ASSUME NEW c \in Clients, SnapshotHistory(c) PROVE SessionTypeOK'
  <2>1. /\ pc' \in [Clients -> Places] /\ op' \in [Clients -> Ops]
        /\ copy' \in [Clients -> Copies]
    <3>1. CASE live
      <4>1. [NoCopy EXCEPT !.hist = mem] \in Copies
            BY NoCopyTyped DEF NoCopy, Copies, SessionTypeOK
      <4>2. QED
            BY <1>18, <3>1, <4>1 DEF SnapshotHistory, Goto, Carry, Places, SessionTypeOK
    <3>2. CASE ~live
          BY <1>18, <1>d, <3>2 DEF SnapshotHistory
    <3>3. QED
          BY <3>1, <3>2
  <2>2. pushed' = pushed
        BY <1>18 DEF SnapshotHistory, counts
  <2>3. QED
        BY <1>18, <1>h, <2>1, <2>2 DEF SnapshotHistory, memory, disk, counts, SessionTypeOK
<1>19. ASSUME NEW c \in Clients, SnapshotItems(c) PROVE SessionTypeOK'
  <2>1. [copy[c] EXCEPT !.items = items] \in Copies
        BY <1>k DEF Copies, SessionTypeOK
  <2>2. /\ pc' \in [Clients -> Places] /\ copy' \in [Clients -> Copies]
        /\ pushed' = pushed
        BY <1>19, <2>1 DEF SnapshotItems, Goto, Carry, Places, counts, SessionTypeOK
  <2>3. QED
        BY <1>19, <1>h, <2>1, <2>2 DEF SnapshotItems, memory, disk, counts, SessionTypeOK
<1>20. QED
      BY <1>1, <1>2, <1>3, <1>4, <1>5, <1>6, <1>7, <1>8, <1>9, <1>10, <1>11, <1>12, <1>13, <1>14, <1>15, <1>16, <1>17,
         <1>18, <1>19 DEF SessionNext, ClientStep

\* The session's state keeps its shape, and nothing that was not pushed turns up
\* in memory, in a file or in a client's copy.
THEOREM SessionTypes == SessionSpec => []SessionTypeOK
BY TypeInit, TypeStep, PTL DEF SessionSpec

-----------------------------------------------------------------------------
(* The inductive invariant. *)

\* Only appends save the conversation, push items and write the cache, and only
\* snapshots copy memory; only appends, binds and snapshots write checkpoints.
Placed ==
    \A c \in Clients : /\ pc[c] \in {"save", "item", "cache"} => op[c] = "append"
                       /\ pc[c] = "load" => op[c] \in {"append", "snapshot"}
                       /\ pc[c] \in {"history", "items"} => op[c] = "snapshot"

\* Every copy that a running operation may still write or insert has the
\* settled messages.
CopiesHold ==
    \A c \in Clients : pc[c] \notin {"idle", "history"} => safe \subseteq copy[c].hist

\* An operation that has had no company is the only one that runs.
LoneOnly == \A c \in alone : \A d \in Clients : d # c => pc[d] = "idle"

\* The writes of a save, after the conversation.
Saving == {"item", "load", "ckpt", "evid", "cache"}

\* How far a save without company has come.
LoneSave ==
    \A c \in alone :
        /\ op[c] = "append" /\ pc[c] \in Saving \cup {"save"} => live /\ copy[c].hist = mem
        /\ op[c] = "append" /\ pc[c] \in Saving /\ Clean(mem) # {} =>
              saved = Conversation("whole", Clean(mem))
        /\ op[c] = "append" /\ pc[c] \in Saving \ {"item"} => copy[c].items = items
        /\ pc[c] \in {"evid", "cache"} => ckpt = Checkpoint("whole", copy[c])
        /\ pc[c] = "cache" => evid = EvidenceRecord("whole", copy[c].hist)

\* After a settled append nobody is in the middle of a save.
SettledQuiet ==
    settled => \A c \in Clients : pc[c] \in {"idle", "ckpt", "insert", "hydrate", "fill"}

\* While a bound token counts, what runs has no company, and a save carries it.
TokenCarried ==
    token # 0 => \A c \in Clients :
        /\ pc[c] # "idle" => c \in alone
        /\ pc[c] \notin {"history", "items"}
        /\ pc[c] = "load" => op[c] = "append"
        /\ pc[c] \in {"ckpt", "evid"} => op[c] = "append" /\ copy[c].cont = token

\* The inductive invariant of the session store.
SessionInv ==
    /\ SessionTypeOK
    /\ Placed /\ LoneOnly /\ CopiesHold /\ LoneSave /\ SettledQuiet /\ TokenCarried
    /\ AloneAppendRepairs /\ SettledMessagesStay /\ ContinuationKept

\* A fresh store satisfies the invariant.
LEMMA InvInit == SessionInit => SessionInv
<1> SUFFICES ASSUME SessionInit PROVE SessionInv
    OBVIOUS
<1>1. SessionTypeOK
      BY TypeInit
<1>2. Placed /\ LoneOnly /\ CopiesHold /\ LoneSave /\ SettledQuiet /\ TokenCarried
      BY DEF SessionInit, Placed, LoneOnly, CopiesHold, LoneSave, SettledQuiet,
         TokenCarried
<1>3. AloneAppendRepairs /\ SettledMessagesStay /\ ContinuationKept
      BY DEF SessionInit, AloneAppendRepairs, SettledMessagesStay,
         ContinuationKept, Clean, Checkpoint, Conversation
<1>4. QED
      BY <1>1, <1>2, <1>3 DEF SessionInv

\* A push extends memory and takes a copy of it; the settled messages are in both.
LEMMA PushKeeps ==
    ASSUME SessionInv, SessionTypeOK', NEW c \in Clients, Push(c)
    PROVE  SessionInv'
<1>1. Placed'
      BY DEF SessionInv, Placed, Push, Enter, Goto, Carry, Busy, Idle, disk,
         NoCopy, SessionTypeOK
<1>2. LoneOnly'
      BY DEF SessionInv, LoneOnly, Push, Enter, Goto, Carry, Busy, Idle, disk,
         NoCopy, SessionTypeOK
<1>3. CopiesHold'
      BY DEF SessionInv, CopiesHold, SettledMessagesStay, LoneOnly, Push, Enter,
         Goto, Carry, Busy, Idle, disk, Clean, NoCopy, SessionTypeOK
<1>4. LoneSave'
      BY DEF SessionInv, LoneSave, LoneOnly, Placed, Push, Enter, Goto, Carry,
         Busy, Idle, disk, Clean, NoCopy, Checkpoint, Conversation,
         EvidenceRecord, Saving, SessionTypeOK, Copies, Checkpoints, Tokens
<1>5. SettledQuiet'
      BY DEF SessionInv, SettledQuiet, LoneOnly, Push, Enter, Goto, Carry, Busy,
         Idle, disk, NoCopy, SessionTypeOK
<1>6. TokenCarried'
      BY DEF SessionInv, TokenCarried, LoneOnly, ContinuationKept, Placed, Push,
         Enter, Goto, Carry, Busy, Idle, disk, Verifies, NoCopy, SessionTypeOK,
         Copies, Checkpoints, Tokens
<1>7. AloneAppendRepairs'
      BY DEF SessionInv, AloneAppendRepairs, LoneSave, SettledQuiet, Placed, Push,
         Enter, Goto, Carry, Busy, Idle, disk, Verifies, Clean, NoCopy,
         Checkpoint, Conversation, EvidenceRecord, Saving, SessionTypeOK, Copies,
         Checkpoints, Tokens
<1>8. SettledMessagesStay'
      BY DEF SessionInv, SettledMessagesStay, CopiesHold, LoneSave, Placed, Push,
         Enter, Goto, Carry, Busy, Idle, disk, Clean, NoCopy, Checkpoint,
         Conversation, EvidenceRecord, Saving, SessionTypeOK
<1>9. ContinuationKept'
      BY DEF SessionInv, ContinuationKept, TokenCarried, LoneSave, LoneOnly, Push,
         Enter, Goto, Carry, Busy, Idle, disk, Verifies, Clean, NoCopy,
         Checkpoint, Conversation, EvidenceRecord, Saving, SessionTypeOK, Copies,
         Checkpoints, Tokens
<1>10. QED
      BY <1>1, <1>2, <1>3, <1>4, <1>5, <1>6, <1>7, <1>8, <1>9 DEF SessionInv

\* The saved conversation becomes that of a copy, which has the settled messages.
LEMMA SaveConversationKeeps ==
    ASSUME SessionInv, SessionTypeOK', NEW c \in Clients, SaveConversation(c)
    PROVE  SessionInv'
<1>1. Placed'
      BY DEF SessionInv, Placed, SaveConversation, Goto, memory, counts, Clean,
         Conversation, SessionTypeOK
<1>2. LoneOnly'
      BY DEF SessionInv, LoneOnly, SaveConversation, Goto, memory, counts, Clean,
         Conversation, SessionTypeOK
<1>3. CopiesHold'
      BY DEF SessionInv, CopiesHold, SettledMessagesStay, LoneOnly,
         SaveConversation, Goto, memory, counts, Clean, Conversation,
         SessionTypeOK
<1>4. LoneSave'
  <2> SUFFICES ASSUME NEW d \in alone', LoneSave PROVE LoneSave!(d)'
      BY DEF LoneSave, SessionInv
  <2>1. CASE d = c
        BY <2>1 DEF SessionInv, LoneSave, LoneOnly, Placed, SaveConversation,
           Goto, memory, Clean, Conversation, Saving, SessionTypeOK, Copies
  <2>2. CASE d # c
        BY <2>2 DEF SessionInv, LoneSave, LoneOnly, Placed, SaveConversation,
           Goto, memory, Clean, Saving, SessionTypeOK
  <2>3. QED
        BY <2>1, <2>2
<1>5. SettledQuiet'
      BY DEF SessionInv, SettledQuiet, LoneOnly, SaveConversation, Goto, memory,
         counts, Clean, Conversation, SessionTypeOK
<1>6. TokenCarried'
      BY DEF SessionInv, TokenCarried, LoneOnly, ContinuationKept, Placed,
         SaveConversation, Goto, memory, counts, Verifies, Clean, Conversation,
         SessionTypeOK, Copies, Checkpoints, Tokens
<1>7. AloneAppendRepairs'
      BY DEF SessionInv, AloneAppendRepairs, LoneSave, SettledQuiet, Placed,
         SaveConversation, Goto, memory, counts, Verifies, Clean, Checkpoint,
         Conversation, EvidenceRecord, Saving, SessionTypeOK, Copies, Checkpoints,
         Tokens
<1>8. SettledMessagesStay'
      BY DEF SessionInv, SettledMessagesStay, CopiesHold, LoneSave, Placed,
         SaveConversation, Goto, memory, counts, Clean, Checkpoint, Conversation,
         EvidenceRecord, Saving, SessionTypeOK
<1>9. ContinuationKept'
      BY DEF SessionInv, ContinuationKept, TokenCarried, LoneSave, LoneOnly,
         SaveConversation, Goto, memory, counts, Verifies, Clean, Checkpoint,
         Conversation, EvidenceRecord, Saving, SessionTypeOK, Copies, Checkpoints,
         Tokens
<1>10. QED
      BY <1>1, <1>2, <1>3, <1>4, <1>5, <1>6, <1>7, <1>8, <1>9 DEF SessionInv

\* A context item touches neither histories nor files.
LEMMA PushItemKeeps ==
    ASSUME SessionInv, SessionTypeOK', NEW c \in Clients, PushItem(c)
    PROVE  SessionInv'
<1>1. Placed'
      BY DEF SessionInv, Placed, PushItem, Goto, Carry, disk, counts, SessionTypeOK
<1>2. LoneOnly'
      BY DEF SessionInv, LoneOnly, PushItem, Goto, Carry, disk, counts, SessionTypeOK
<1>3. CopiesHold'
      BY DEF SessionInv, CopiesHold, SettledMessagesStay, LoneOnly, PushItem,
         Goto, Carry, disk, counts, Clean, SessionTypeOK
<1>4. LoneSave'
      BY DEF SessionInv, LoneSave, LoneOnly, Placed, PushItem, Goto, Carry, disk,
         counts, Clean, Checkpoint, Conversation, EvidenceRecord, Saving,
         SessionTypeOK, Copies, Checkpoints, Tokens
<1>5. SettledQuiet'
      BY DEF SessionInv, SettledQuiet, LoneOnly, PushItem, Goto, Carry, disk,
         counts, SessionTypeOK
<1>6. TokenCarried'
      BY DEF SessionInv, TokenCarried, LoneOnly, ContinuationKept, Placed,
         PushItem, Goto, Carry, disk, counts, Verifies, SessionTypeOK, Copies,
         Checkpoints, Tokens
<1>7. AloneAppendRepairs'
      BY DEF SessionInv, AloneAppendRepairs, LoneSave, SettledQuiet, Placed,
         PushItem, Goto, Carry, disk, counts, Verifies, Clean, Checkpoint,
         Conversation, EvidenceRecord, Saving, SessionTypeOK, Copies, Checkpoints,
         Tokens
<1>8. SettledMessagesStay'
      BY DEF SessionInv, SettledMessagesStay, CopiesHold, LoneSave, Placed,
         PushItem, Goto, Carry, disk, counts, Clean, Checkpoint, Conversation,
         EvidenceRecord, Saving, SessionTypeOK
<1>9. ContinuationKept'
      BY DEF SessionInv, ContinuationKept, TokenCarried, LoneSave, LoneOnly,
         PushItem, Goto, Carry, disk, counts, Verifies, Clean, Checkpoint,
         Conversation, EvidenceRecord, Saving, SessionTypeOK, Copies, Checkpoints,
         Tokens
<1>10. QED
      BY <1>1, <1>2, <1>3, <1>4, <1>5, <1>6, <1>7, <1>8, <1>9 DEF SessionInv

\* A save that finds the bound token carries it on.
LEMMA LoadPreviousKeeps ==
    ASSUME SessionInv, SessionTypeOK', NEW c \in Clients, LoadPrevious(c)
    PROVE  SessionInv'
<1>1. Placed'
      BY DEF SessionInv, Placed, LoadPrevious, Goto, Carry, memory, disk, counts,
         Verifies, SessionTypeOK
<1>2. LoneOnly'
      BY DEF SessionInv, LoneOnly, LoadPrevious, Goto, Carry, memory, disk,
         counts, Verifies, SessionTypeOK
<1>3. CopiesHold'
      BY DEF SessionInv, CopiesHold, SettledMessagesStay, LoneOnly, LoadPrevious,
         Goto, Carry, memory, disk, counts, Verifies, Clean, SessionTypeOK
<1>4. LoneSave'
      BY DEF SessionInv, LoneSave, LoneOnly, Placed, LoadPrevious, Goto, Carry,
         memory, disk, counts, Verifies, Clean, Checkpoint, Conversation,
         EvidenceRecord, Saving, SessionTypeOK, Copies, Checkpoints, Tokens
<1>5. SettledQuiet'
      BY DEF SessionInv, SettledQuiet, LoneOnly, LoadPrevious, Goto, Carry,
         memory, disk, counts, Verifies, SessionTypeOK
<1>6. TokenCarried'
      BY DEF SessionInv, TokenCarried, LoneOnly, ContinuationKept, Placed,
         LoadPrevious, Goto, Carry, memory, disk, counts, Verifies, SessionTypeOK,
         Copies, Checkpoints, Tokens
<1>7. AloneAppendRepairs'
      BY DEF SessionInv, AloneAppendRepairs, LoneSave, SettledQuiet, Placed,
         LoadPrevious, Goto, Carry, memory, disk, counts, Verifies, Clean,
         Checkpoint, Conversation, EvidenceRecord, Saving, SessionTypeOK, Copies,
         Checkpoints, Tokens
<1>8. SettledMessagesStay'
      BY DEF SessionInv, SettledMessagesStay, CopiesHold, LoneSave, Placed,
         LoadPrevious, Goto, Carry, memory, disk, counts, Verifies, Clean,
         Checkpoint, Conversation, EvidenceRecord, Saving, SessionTypeOK
<1>9. ContinuationKept'
      BY DEF SessionInv, ContinuationKept, TokenCarried, LoneSave, LoneOnly,
         LoadPrevious, Goto, Carry, memory, disk, counts, Verifies, Clean,
         Checkpoint, Conversation, EvidenceRecord, Saving, SessionTypeOK, Copies,
         Checkpoints, Tokens
<1>10. QED
      BY <1>1, <1>2, <1>3, <1>4, <1>5, <1>6, <1>7, <1>8, <1>9 DEF SessionInv

\* The checkpoint becomes a copy that has the settled messages and the token.
LEMMA WriteCheckpointKeeps ==
    ASSUME SessionInv, SessionTypeOK', NEW c \in Clients, WriteCheckpoint(c)
    PROVE  SessionInv'
<1>1. Placed'
      BY DEF SessionInv, Placed, WriteCheckpoint, Goto, memory, counts,
         Checkpoint, SessionTypeOK
<1>2. LoneOnly'
      BY DEF SessionInv, LoneOnly, WriteCheckpoint, Goto, memory, counts,
         Checkpoint, SessionTypeOK
<1>3. CopiesHold'
      BY DEF SessionInv, CopiesHold, SettledMessagesStay, LoneOnly,
         WriteCheckpoint, Goto, memory, counts, Clean, Checkpoint, SessionTypeOK
<1>4. LoneSave'
      BY DEF SessionInv, LoneSave, LoneOnly, Placed, WriteCheckpoint, Goto,
         memory, counts, Clean, Checkpoint, Conversation, EvidenceRecord, Saving,
         SessionTypeOK, Copies, Checkpoints, Tokens
<1>5. SettledQuiet'
      BY DEF SessionInv, SettledQuiet, LoneOnly, WriteCheckpoint, Goto, memory,
         counts, Checkpoint, SessionTypeOK
<1>6. TokenCarried'
      BY DEF SessionInv, TokenCarried, LoneOnly, ContinuationKept, Placed,
         WriteCheckpoint, Goto, memory, counts, Verifies, Checkpoint,
         SessionTypeOK, Copies, Checkpoints, Tokens
<1>7. AloneAppendRepairs'
      BY DEF SessionInv, AloneAppendRepairs, LoneSave, SettledQuiet, Placed,
         WriteCheckpoint, Goto, memory, counts, Verifies, Clean, Checkpoint,
         Conversation, EvidenceRecord, Saving, SessionTypeOK, Copies, Checkpoints,
         Tokens
<1>8. SettledMessagesStay'
      BY DEF SessionInv, SettledMessagesStay, CopiesHold, LoneSave, Placed,
         WriteCheckpoint, Goto, memory, counts, Clean, Checkpoint, Conversation,
         EvidenceRecord, Saving, SessionTypeOK
<1>9. ContinuationKept'
      BY DEF SessionInv, ContinuationKept, TokenCarried, LoneSave, LoneOnly,
         WriteCheckpoint, Goto, memory, counts, Verifies, Clean, Checkpoint,
         Conversation, EvidenceRecord, Saving, SessionTypeOK, Copies, Checkpoints,
         Tokens
<1>10. QED
      BY <1>1, <1>2, <1>3, <1>4, <1>5, <1>6, <1>7, <1>8, <1>9 DEF SessionInv

\* A lone save makes the checkpoint verify again.
LEMMA WriteEvidenceKeeps ==
    ASSUME SessionInv, SessionTypeOK', NEW c \in Clients, WriteEvidence(c)
    PROVE  SessionInv'
<1>1. Placed'
      BY DEF SessionInv, Placed, WriteEvidence, Goto, Carry, Done, memory, counts,
         NoCopy, EvidenceRecord, SessionTypeOK
<1>2. LoneOnly'
      BY DEF SessionInv, LoneOnly, WriteEvidence, Goto, Carry, Done, memory,
         counts, NoCopy, EvidenceRecord, SessionTypeOK
<1>3. CopiesHold'
      BY DEF SessionInv, CopiesHold, SettledMessagesStay, LoneOnly, WriteEvidence,
         Goto, Carry, Done, memory, counts, Clean, NoCopy, EvidenceRecord,
         SessionTypeOK
<1>4. LoneSave'
      BY DEF SessionInv, LoneSave, LoneOnly, Placed, WriteEvidence, Goto, Carry,
         Done, memory, counts, Clean, NoCopy, Checkpoint, Conversation,
         EvidenceRecord, Saving, SessionTypeOK, Copies, Checkpoints, Tokens
<1>5. SettledQuiet'
      BY DEF SessionInv, SettledQuiet, LoneOnly, WriteEvidence, Goto, Carry, Done,
         memory, counts, NoCopy, EvidenceRecord, SessionTypeOK
<1>6. TokenCarried'
      BY DEF SessionInv, TokenCarried, LoneOnly, ContinuationKept, Placed,
         WriteEvidence, Goto, Carry, Done, memory, counts, Verifies, NoCopy,
         EvidenceRecord, SessionTypeOK, Copies, Checkpoints, Tokens
<1>7. AloneAppendRepairs'
      BY DEF SessionInv, AloneAppendRepairs, LoneSave, SettledQuiet, Placed,
         WriteEvidence, Goto, Carry, Done, memory, counts, Verifies, Clean,
         NoCopy, Checkpoint, Conversation, EvidenceRecord, Saving, SessionTypeOK,
         Copies, Checkpoints, Tokens
<1>8. SettledMessagesStay'
      BY DEF SessionInv, SettledMessagesStay, CopiesHold, LoneSave, Placed,
         WriteEvidence, Goto, Carry, Done, memory, counts, Clean, NoCopy,
         Checkpoint, Conversation, EvidenceRecord, Saving, SessionTypeOK
<1>9. ContinuationKept'
      BY DEF SessionInv, ContinuationKept, TokenCarried, LoneSave, LoneOnly,
         WriteEvidence, Goto, Carry, Done, memory, counts, Verifies, Clean,
         NoCopy, Checkpoint, Conversation, EvidenceRecord, Saving, SessionTypeOK,
         Copies, Checkpoints, Tokens
<1>10. QED
      BY <1>1, <1>2, <1>3, <1>4, <1>5, <1>6, <1>7, <1>8, <1>9 DEF SessionInv

\* A lone append settles: memory is in the checkpoint and in the conversation.
LEMMA WriteCacheKeeps ==
    ASSUME SessionInv, SessionTypeOK', NEW c \in Clients, WriteCache(c)
    PROVE  SessionInv'
<1>1. Placed'
      BY DEF SessionInv, Placed, WriteCache, Goto, Carry, Done, disk, counts,
         NoCopy, Checkpoint, SessionTypeOK
<1>2. LoneOnly'
      BY DEF SessionInv, LoneOnly, WriteCache, Goto, Carry, Done, disk, counts,
         NoCopy, Checkpoint, SessionTypeOK
<1>3. CopiesHold'
      BY DEF SessionInv, CopiesHold, SettledMessagesStay, LoneOnly, WriteCache,
         Goto, Carry, Done, disk, counts, Clean, NoCopy, Checkpoint, SessionTypeOK
<1>4. LoneSave'
      BY DEF SessionInv, LoneSave, LoneOnly, Placed, WriteCache, Goto, Carry,
         Done, disk, counts, Clean, NoCopy, Checkpoint, Conversation,
         EvidenceRecord, Saving, SessionTypeOK, Copies, Checkpoints, Tokens
<1>5. SettledQuiet'
      BY DEF SessionInv, SettledQuiet, LoneOnly, WriteCache, Goto, Carry, Done,
         disk, counts, NoCopy, Checkpoint, SessionTypeOK
<1>6. TokenCarried'
      BY DEF SessionInv, TokenCarried, LoneOnly, ContinuationKept, Placed,
         WriteCache, Goto, Carry, Done, disk, counts, Verifies, NoCopy,
         Checkpoint, SessionTypeOK, Copies, Checkpoints, Tokens
<1>7. AloneAppendRepairs'
      BY DEF SessionInv, AloneAppendRepairs, LoneSave, SettledQuiet, Placed,
         WriteCache, Goto, Carry, Done, disk, counts, Verifies, Clean, NoCopy,
         Checkpoint, Conversation, EvidenceRecord, Saving, SessionTypeOK, Copies,
         Checkpoints, Tokens
<1>8. SettledMessagesStay'
      BY DEF SessionInv, SettledMessagesStay, CopiesHold, LoneSave, Placed,
         WriteCache, Goto, Carry, Done, disk, counts, Clean, NoCopy, Checkpoint,
         Conversation, EvidenceRecord, Saving, SessionTypeOK
<1>9. ContinuationKept'
      BY DEF SessionInv, ContinuationKept, TokenCarried, LoneSave, LoneOnly,
         WriteCache, Goto, Carry, Done, disk, counts, Verifies, Clean, NoCopy,
         Checkpoint, Conversation, EvidenceRecord, Saving, SessionTypeOK, Copies,
         Checkpoints, Tokens
<1>10. QED
      BY <1>1, <1>2, <1>3, <1>4, <1>5, <1>6, <1>7, <1>8, <1>9 DEF SessionInv

\* A failed write ends the claim to be alone, settled or bound.
LEMMA WriteFailsKeeps ==
    ASSUME SessionInv, SessionTypeOK', NEW c \in Clients, WriteFails(c)
    PROVE  SessionInv'
<1>1. Placed'
      BY DEF SessionInv, Placed, WriteFails, Goto, Carry, Done, memory, Clean,
         NoCopy, Checkpoint, Conversation, EvidenceRecord, SessionTypeOK
<1>2. LoneOnly'
      BY DEF SessionInv, LoneOnly, WriteFails, Goto, Carry, Done, memory, Clean,
         NoCopy, Checkpoint, Conversation, EvidenceRecord, SessionTypeOK
<1>3. CopiesHold'
      BY DEF SessionInv, CopiesHold, SettledMessagesStay, LoneOnly, WriteFails,
         Goto, Carry, Done, memory, Clean, NoCopy, Checkpoint, Conversation,
         EvidenceRecord, SessionTypeOK
<1>4. LoneSave'
      BY DEF SessionInv, LoneSave, LoneOnly, Placed, WriteFails, Goto, Carry,
         Done, memory, Clean, NoCopy, Checkpoint, Conversation, EvidenceRecord,
         Saving, SessionTypeOK, Copies, Checkpoints, Tokens
<1>5. SettledQuiet'
      BY DEF SessionInv, SettledQuiet, LoneOnly, WriteFails, Goto, Carry, Done,
         memory, Clean, NoCopy, Checkpoint, Conversation, EvidenceRecord,
         SessionTypeOK
<1>6. TokenCarried'
      BY DEF SessionInv, TokenCarried, LoneOnly, ContinuationKept, Placed,
         WriteFails, Goto, Carry, Done, memory, Verifies, Clean, NoCopy,
         Checkpoint, Conversation, EvidenceRecord, SessionTypeOK, Copies,
         Checkpoints, Tokens
<1>7. AloneAppendRepairs'
      BY DEF SessionInv, AloneAppendRepairs, LoneSave, SettledQuiet, Placed,
         WriteFails, Goto, Carry, Done, memory, Verifies, Clean, NoCopy,
         Checkpoint, Conversation, EvidenceRecord, Saving, SessionTypeOK, Copies,
         Checkpoints, Tokens
<1>8. SettledMessagesStay'
      BY DEF SessionInv, SettledMessagesStay, CopiesHold, LoneSave, Placed,
         WriteFails, Goto, Carry, Done, memory, Clean, NoCopy, Checkpoint,
         Conversation, EvidenceRecord, Saving, SessionTypeOK
<1>9. ContinuationKept'
      BY DEF SessionInv, ContinuationKept, TokenCarried, LoneSave, LoneOnly,
         WriteFails, Goto, Carry, Done, memory, Verifies, Clean, NoCopy,
         Checkpoint, Conversation, EvidenceRecord, Saving, SessionTypeOK, Copies,
         Checkpoints, Tokens
<1>10. QED
      BY <1>1, <1>2, <1>3, <1>4, <1>5, <1>6, <1>7, <1>8, <1>9 DEF SessionInv

\* A checkpoint that loads has the settled messages.
LEMMA RestoreKeeps ==
    ASSUME SessionInv, SessionTypeOK', NEW c \in Clients, Restore(c)
    PROVE  SessionInv'
<1>1. Placed'
      BY DEF SessionInv, Placed, Restore, Enter, Goto, Carry, Busy, Idle, memory,
         disk, counts, Verifies, Loaded, SessionTypeOK
<1>2. LoneOnly'
      BY DEF SessionInv, LoneOnly, Restore, Enter, Goto, Carry, Busy, Idle,
         memory, disk, counts, Verifies, Loaded, SessionTypeOK
<1>3. CopiesHold'
      BY DEF SessionInv, CopiesHold, SettledMessagesStay, LoneOnly, Restore,
         Enter, Goto, Carry, Busy, Idle, memory, disk, counts, Verifies, Loaded,
         Clean, SessionTypeOK
<1>4. LoneSave'
      BY DEF SessionInv, LoneSave, LoneOnly, Placed, Restore, Enter, Goto, Carry,
         Busy, Idle, memory, disk, counts, Verifies, Loaded, Clean, Checkpoint,
         Conversation, EvidenceRecord, Saving, SessionTypeOK, Copies, Checkpoints,
         Tokens
<1>5. SettledQuiet'
      BY DEF SessionInv, SettledQuiet, LoneOnly, Restore, Enter, Goto, Carry,
         Busy, Idle, memory, disk, counts, Verifies, Loaded, SessionTypeOK
<1>6. TokenCarried'
      BY DEF SessionInv, TokenCarried, LoneOnly, ContinuationKept, Placed,
         Restore, Enter, Goto, Carry, Busy, Idle, memory, disk, counts, Verifies,
         Loaded, SessionTypeOK, Copies, Checkpoints, Tokens
<1>7. AloneAppendRepairs'
      BY DEF SessionInv, AloneAppendRepairs, LoneSave, SettledQuiet, Placed,
         Restore, Enter, Goto, Carry, Busy, Idle, memory, disk, counts, Verifies,
         Loaded, Clean, Checkpoint, Conversation, EvidenceRecord, Saving,
         SessionTypeOK, Copies, Checkpoints, Tokens
<1>8. SettledMessagesStay'
      BY DEF SessionInv, SettledMessagesStay, CopiesHold, LoneSave, Placed,
         Restore, Enter, Goto, Carry, Busy, Idle, memory, disk, counts, Verifies,
         Loaded, Clean, Checkpoint, Conversation, EvidenceRecord, Saving,
         SessionTypeOK
<1>9. ContinuationKept'
      BY DEF SessionInv, ContinuationKept, TokenCarried, LoneSave, LoneOnly,
         Restore, Enter, Goto, Carry, Busy, Idle, memory, disk, counts, Verifies,
         Loaded, Clean, Checkpoint, Conversation, EvidenceRecord, Saving,
         SessionTypeOK, Copies, Checkpoints, Tokens
<1>10. QED
      BY <1>1, <1>2, <1>3, <1>4, <1>5, <1>6, <1>7, <1>8, <1>9 DEF SessionInv

\* What is inserted has the settled messages.
LEMMA InsertKeeps ==
    ASSUME SessionInv, SessionTypeOK', NEW c \in Clients, Insert(c)
    PROVE  SessionInv'
<1>1. Placed'
      BY DEF SessionInv, Placed, Insert, Goto, disk, counts, SessionTypeOK
<1>2. LoneOnly'
      BY DEF SessionInv, LoneOnly, Insert, Goto, disk, counts, SessionTypeOK
<1>3. CopiesHold'
      BY DEF SessionInv, CopiesHold, SettledMessagesStay, LoneOnly, Insert, Goto,
         disk, counts, Clean, SessionTypeOK
<1>4. LoneSave'
      BY DEF SessionInv, LoneSave, LoneOnly, Placed, Insert, Goto, disk, counts,
         Clean, Checkpoint, Conversation, EvidenceRecord, Saving, SessionTypeOK,
         Copies, Checkpoints, Tokens
<1>5. SettledQuiet'
      BY DEF SessionInv, SettledQuiet, LoneOnly, Insert, Goto, disk, counts,
         SessionTypeOK
<1>6. TokenCarried'
      BY DEF SessionInv, TokenCarried, LoneOnly, ContinuationKept, Placed, Insert,
         Goto, disk, counts, Verifies, SessionTypeOK, Copies, Checkpoints, Tokens
<1>7. AloneAppendRepairs'
      BY DEF SessionInv, AloneAppendRepairs, LoneSave, SettledQuiet, Placed,
         Insert, Goto, disk, counts, Verifies, Clean, Checkpoint, Conversation,
         EvidenceRecord, Saving, SessionTypeOK, Copies, Checkpoints, Tokens
<1>8. SettledMessagesStay'
      BY DEF SessionInv, SettledMessagesStay, CopiesHold, LoneSave, Placed,
         Insert, Goto, disk, counts, Clean, Checkpoint, Conversation,
         EvidenceRecord, Saving, SessionTypeOK
<1>9. ContinuationKept'
      BY DEF SessionInv, ContinuationKept, TokenCarried, LoneSave, LoneOnly,
         Insert, Goto, disk, counts, Verifies, Clean, Checkpoint, Conversation,
         EvidenceRecord, Saving, SessionTypeOK, Copies, Checkpoints, Tokens
<1>10. QED
      BY <1>1, <1>2, <1>3, <1>4, <1>5, <1>6, <1>7, <1>8, <1>9 DEF SessionInv

\* A second load, with the same promise as the first.
LEMMA HydrateKeeps ==
    ASSUME SessionInv, SessionTypeOK', NEW c \in Clients, Hydrate(c)
    PROVE  SessionInv'
<1>1. Placed'
      BY DEF SessionInv, Placed, Hydrate, Goto, Carry, Done, disk, counts,
         Verifies, Loaded, NoCopy, SessionTypeOK
<1>2. LoneOnly'
      BY DEF SessionInv, LoneOnly, Hydrate, Goto, Carry, Done, disk, counts,
         Verifies, Loaded, NoCopy, SessionTypeOK
<1>3. CopiesHold'
      BY DEF SessionInv, CopiesHold, SettledMessagesStay, LoneOnly, Hydrate, Goto,
         Carry, Done, disk, counts, Verifies, Loaded, Clean, NoCopy, SessionTypeOK
<1>4. LoneSave'
      BY DEF SessionInv, LoneSave, LoneOnly, Placed, Hydrate, Goto, Carry, Done,
         disk, counts, Verifies, Loaded, Clean, NoCopy, Checkpoint, Conversation,
         EvidenceRecord, Saving, SessionTypeOK, Copies, Checkpoints, Tokens
<1>5. SettledQuiet'
      BY DEF SessionInv, SettledQuiet, LoneOnly, Hydrate, Goto, Carry, Done, disk,
         counts, Verifies, Loaded, NoCopy, SessionTypeOK
<1>6. TokenCarried'
      BY DEF SessionInv, TokenCarried, LoneOnly, ContinuationKept, Placed,
         Hydrate, Goto, Carry, Done, disk, counts, Verifies, Loaded, NoCopy,
         SessionTypeOK, Copies, Checkpoints, Tokens
<1>7. AloneAppendRepairs'
      BY DEF SessionInv, AloneAppendRepairs, LoneSave, SettledQuiet, Placed,
         Hydrate, Goto, Carry, Done, disk, counts, Verifies, Loaded, Clean,
         NoCopy, Checkpoint, Conversation, EvidenceRecord, Saving, SessionTypeOK,
         Copies, Checkpoints, Tokens
<1>8. SettledMessagesStay'
      BY DEF SessionInv, SettledMessagesStay, CopiesHold, LoneSave, Placed,
         Hydrate, Goto, Carry, Done, disk, counts, Verifies, Loaded, Clean,
         NoCopy, Checkpoint, Conversation, EvidenceRecord, Saving, SessionTypeOK
<1>9. ContinuationKept'
      BY DEF SessionInv, ContinuationKept, TokenCarried, LoneSave, LoneOnly,
         Hydrate, Goto, Carry, Done, disk, counts, Verifies, Loaded, Clean,
         NoCopy, Checkpoint, Conversation, EvidenceRecord, Saving, SessionTypeOK,
         Copies, Checkpoints, Tokens
<1>10. QED
      BY <1>1, <1>2, <1>3, <1>4, <1>5, <1>6, <1>7, <1>8, <1>9 DEF SessionInv

\* Only the cache changes.
LEMMA FillCacheKeeps ==
    ASSUME SessionInv, SessionTypeOK', NEW c \in Clients, FillCache(c)
    PROVE  SessionInv'
<1>1. Placed'
      BY DEF SessionInv, Placed, FillCache, Goto, Carry, Done, disk, counts,
         NoCopy, Checkpoint, SessionTypeOK
<1>2. LoneOnly'
      BY DEF SessionInv, LoneOnly, FillCache, Goto, Carry, Done, disk, counts,
         NoCopy, Checkpoint, SessionTypeOK
<1>3. CopiesHold'
      BY DEF SessionInv, CopiesHold, SettledMessagesStay, LoneOnly, FillCache,
         Goto, Carry, Done, disk, counts, Clean, NoCopy, Checkpoint, SessionTypeOK
<1>4. LoneSave'
      BY DEF SessionInv, LoneSave, LoneOnly, Placed, FillCache, Goto, Carry, Done,
         disk, counts, Clean, NoCopy, Checkpoint, Conversation, EvidenceRecord,
         Saving, SessionTypeOK, Copies, Checkpoints, Tokens
<1>5. SettledQuiet'
      BY DEF SessionInv, SettledQuiet, LoneOnly, FillCache, Goto, Carry, Done,
         disk, counts, NoCopy, Checkpoint, SessionTypeOK
<1>6. TokenCarried'
      BY DEF SessionInv, TokenCarried, LoneOnly, ContinuationKept, Placed,
         FillCache, Goto, Carry, Done, disk, counts, Verifies, NoCopy, Checkpoint,
         SessionTypeOK, Copies, Checkpoints, Tokens
<1>7. AloneAppendRepairs'
      BY DEF SessionInv, AloneAppendRepairs, LoneSave, SettledQuiet, Placed,
         FillCache, Goto, Carry, Done, disk, counts, Verifies, Clean, NoCopy,
         Checkpoint, Conversation, EvidenceRecord, Saving, SessionTypeOK, Copies,
         Checkpoints, Tokens
<1>8. SettledMessagesStay'
      BY DEF SessionInv, SettledMessagesStay, CopiesHold, LoneSave, Placed,
         FillCache, Goto, Carry, Done, disk, counts, Clean, NoCopy, Checkpoint,
         Conversation, EvidenceRecord, Saving, SessionTypeOK
<1>9. ContinuationKept'
      BY DEF SessionInv, ContinuationKept, TokenCarried, LoneSave, LoneOnly,
         FillCache, Goto, Carry, Done, disk, counts, Verifies, Clean, NoCopy,
         Checkpoint, Conversation, EvidenceRecord, Saving, SessionTypeOK, Copies,
         Checkpoints, Tokens
<1>10. QED
      BY <1>1, <1>2, <1>3, <1>4, <1>5, <1>6, <1>7, <1>8, <1>9 DEF SessionInv

\* A copy for the cache, of a checkpoint that loads.
LEMMA MissCacheKeeps ==
    ASSUME SessionInv, SessionTypeOK', NEW c \in Clients, MissCache(c)
    PROVE  SessionInv'
<1>1. Placed'
      BY DEF SessionInv, Placed, MissCache, Enter, Goto, Carry, Busy, Idle,
         memory, disk, counts, Verifies, Loaded, SessionTypeOK
<1>2. LoneOnly'
      BY DEF SessionInv, LoneOnly, MissCache, Enter, Goto, Carry, Busy, Idle,
         memory, disk, counts, Verifies, Loaded, SessionTypeOK
<1>3. CopiesHold'
      BY DEF SessionInv, CopiesHold, SettledMessagesStay, LoneOnly, MissCache,
         Enter, Goto, Carry, Busy, Idle, memory, disk, counts, Verifies, Loaded,
         Clean, SessionTypeOK
<1>4. LoneSave'
      BY DEF SessionInv, LoneSave, LoneOnly, Placed, MissCache, Enter, Goto,
         Carry, Busy, Idle, memory, disk, counts, Verifies, Loaded, Clean,
         Checkpoint, Conversation, EvidenceRecord, Saving, SessionTypeOK, Copies,
         Checkpoints, Tokens
<1>5. SettledQuiet'
      BY DEF SessionInv, SettledQuiet, LoneOnly, MissCache, Enter, Goto, Carry,
         Busy, Idle, memory, disk, counts, Verifies, Loaded, SessionTypeOK
<1>6. TokenCarried'
      BY DEF SessionInv, TokenCarried, LoneOnly, ContinuationKept, Placed,
         MissCache, Enter, Goto, Carry, Busy, Idle, memory, disk, counts,
         Verifies, Loaded, SessionTypeOK, Copies, Checkpoints, Tokens
<1>7. AloneAppendRepairs'
      BY DEF SessionInv, AloneAppendRepairs, LoneSave, SettledQuiet, Placed,
         MissCache, Enter, Goto, Carry, Busy, Idle, memory, disk, counts,
         Verifies, Loaded, Clean, Checkpoint, Conversation, EvidenceRecord,
         Saving, SessionTypeOK, Copies, Checkpoints, Tokens
<1>8. SettledMessagesStay'
      BY DEF SessionInv, SettledMessagesStay, CopiesHold, LoneSave, Placed,
         MissCache, Enter, Goto, Carry, Busy, Idle, memory, disk, counts,
         Verifies, Loaded, Clean, Checkpoint, Conversation, EvidenceRecord,
         Saving, SessionTypeOK
<1>9. ContinuationKept'
      BY DEF SessionInv, ContinuationKept, TokenCarried, LoneSave, LoneOnly,
         MissCache, Enter, Goto, Carry, Busy, Idle, memory, disk, counts,
         Verifies, Loaded, Clean, Checkpoint, Conversation, EvidenceRecord,
         Saving, SessionTypeOK, Copies, Checkpoints, Tokens
<1>10. QED
      BY <1>1, <1>2, <1>3, <1>4, <1>5, <1>6, <1>7, <1>8, <1>9 DEF SessionInv

\* A bind takes the checkpoint as it is, and gives up the old token.
LEMMA BindKeeps ==
    ASSUME SessionInv, SessionTypeOK', NEW c \in Clients, Bind(c)
    PROVE  SessionInv'
<1>1. Placed'
      BY DEF SessionInv, Placed, Bind, Enter, Goto, Carry, Busy, Idle, memory,
         disk, Verifies, Loaded, SessionTypeOK
<1>2. LoneOnly'
      BY DEF SessionInv, LoneOnly, Bind, Enter, Goto, Carry, Busy, Idle, memory,
         disk, Verifies, Loaded, SessionTypeOK
<1>3. CopiesHold'
      BY DEF SessionInv, CopiesHold, SettledMessagesStay, LoneOnly, Bind, Enter,
         Goto, Carry, Busy, Idle, memory, disk, Verifies, Loaded, Clean,
         SessionTypeOK
<1>4. LoneSave'
      BY DEF SessionInv, LoneSave, LoneOnly, Placed, Bind, Enter, Goto, Carry,
         Busy, Idle, memory, disk, Verifies, Loaded, Clean, Checkpoint,
         Conversation, EvidenceRecord, Saving, SessionTypeOK, Copies, Checkpoints,
         Tokens
<1>5. SettledQuiet'
      BY DEF SessionInv, SettledQuiet, LoneOnly, Bind, Enter, Goto, Carry, Busy,
         Idle, memory, disk, Verifies, Loaded, SessionTypeOK
<1>6. TokenCarried'
      BY DEF SessionInv, TokenCarried, LoneOnly, ContinuationKept, Placed, Bind,
         Enter, Goto, Carry, Busy, Idle, memory, disk, Verifies, Loaded,
         SessionTypeOK, Copies, Checkpoints, Tokens
<1>7. AloneAppendRepairs'
      BY DEF SessionInv, AloneAppendRepairs, LoneSave, SettledQuiet, Placed, Bind,
         Enter, Goto, Carry, Busy, Idle, memory, disk, Verifies, Loaded, Clean,
         Checkpoint, Conversation, EvidenceRecord, Saving, SessionTypeOK, Copies,
         Checkpoints, Tokens
<1>8. SettledMessagesStay'
      BY DEF SessionInv, SettledMessagesStay, CopiesHold, LoneSave, Placed, Bind,
         Enter, Goto, Carry, Busy, Idle, memory, disk, Verifies, Loaded, Clean,
         Checkpoint, Conversation, EvidenceRecord, Saving, SessionTypeOK
<1>9. ContinuationKept'
      BY DEF SessionInv, ContinuationKept, TokenCarried, LoneSave, LoneOnly, Bind,
         Enter, Goto, Carry, Busy, Idle, memory, disk, Verifies, Loaded, Clean,
         Checkpoint, Conversation, EvidenceRecord, Saving, SessionTypeOK, Copies,
         Checkpoints, Tokens
<1>10. QED
      BY <1>1, <1>2, <1>3, <1>4, <1>5, <1>6, <1>7, <1>8, <1>9 DEF SessionInv

\* A snapshot starts where no checkpoint is, so that no token is bound and nothing
\* is settled.
LEMMA NamedSnapshotKeeps ==
    ASSUME SessionInv, SessionTypeOK', NEW c \in Clients, NamedSnapshot(c)
    PROVE  SessionInv'
<1>1. Placed'
      BY DEF SessionInv, Placed, NamedSnapshot, Enter, Goto, Carry, Busy, Idle,
         memory, disk, counts, SessionTypeOK
<1>2. LoneOnly'
      BY DEF SessionInv, LoneOnly, NamedSnapshot, Enter, Goto, Carry, Busy, Idle,
         memory, disk, counts, SessionTypeOK
<1>3. CopiesHold'
      BY DEF SessionInv, CopiesHold, SettledMessagesStay, LoneOnly, NamedSnapshot,
         Enter, Goto, Carry, Busy, Idle, memory, disk, counts, Clean,
         SessionTypeOK
<1>4. LoneSave'
      BY DEF SessionInv, LoneSave, LoneOnly, Placed, NamedSnapshot, Enter, Goto,
         Carry, Busy, Idle, memory, disk, counts, Clean, Checkpoint, Conversation,
         EvidenceRecord, Saving, SessionTypeOK, Copies, Checkpoints, Tokens
<1>5. SettledQuiet'
      BY DEF SessionInv, SettledQuiet, LoneOnly, AloneAppendRepairs,
         NamedSnapshot, Enter, Goto, Carry, Busy, Idle, memory, disk, counts,
         Verifies, Clean, Conversation, SessionTypeOK
<1>6. TokenCarried'
      BY DEF SessionInv, TokenCarried, LoneOnly, ContinuationKept, Placed,
         NamedSnapshot, Enter, Goto, Carry, Busy, Idle, memory, disk, counts,
         Verifies, SessionTypeOK, Copies, Checkpoints, Tokens
<1>7. AloneAppendRepairs'
      BY DEF SessionInv, AloneAppendRepairs, LoneSave, SettledQuiet, Placed,
         NamedSnapshot, Enter, Goto, Carry, Busy, Idle, memory, disk, counts,
         Verifies, Clean, Checkpoint, Conversation, EvidenceRecord, Saving,
         SessionTypeOK, Copies, Checkpoints, Tokens
<1>8. SettledMessagesStay'
      BY DEF SessionInv, SettledMessagesStay, CopiesHold, LoneSave, Placed,
         NamedSnapshot, Enter, Goto, Carry, Busy, Idle, memory, disk, counts,
         Clean, Checkpoint, Conversation, EvidenceRecord, Saving, SessionTypeOK
<1>9. ContinuationKept'
      BY DEF SessionInv, ContinuationKept, TokenCarried, LoneSave, LoneOnly,
         NamedSnapshot, Enter, Goto, Carry, Busy, Idle, memory, disk, counts,
         Verifies, Clean, Checkpoint, Conversation, EvidenceRecord, Saving,
         SessionTypeOK, Copies, Checkpoints, Tokens
<1>10. QED
      BY <1>1, <1>2, <1>3, <1>4, <1>5, <1>6, <1>7, <1>8, <1>9 DEF SessionInv

\* A snapshot copies the history in memory, which has the settled messages.
LEMMA SnapshotHistoryKeeps ==
    ASSUME SessionInv, SessionTypeOK', NEW c \in Clients, SnapshotHistory(c)
    PROVE  SessionInv'
<1>1. Placed'
      BY DEF SessionInv, Placed, SnapshotHistory, Done, NoCopy, Goto, Carry,
         memory, disk, counts, SessionTypeOK
<1>2. LoneOnly'
      BY DEF SessionInv, LoneOnly, SnapshotHistory, Done, NoCopy, Goto, Carry,
         memory, disk, counts, SessionTypeOK
<1>3. CopiesHold'
      BY DEF SessionInv, CopiesHold, SettledMessagesStay, LoneOnly, SnapshotHistory,
         Done, NoCopy, Goto, Carry, memory, disk, counts, Clean,
         SessionTypeOK
<1>4. LoneSave'
      BY DEF SessionInv, LoneSave, LoneOnly, Placed, SnapshotHistory, Done, NoCopy, Goto,
         Carry, memory, disk, counts, Clean, Checkpoint, Conversation,
         EvidenceRecord, Saving, SessionTypeOK, Copies, Checkpoints, Tokens
<1>5. SettledQuiet'
      BY DEF SessionInv, SettledQuiet, LoneOnly, AloneAppendRepairs,
         SnapshotHistory, Done, NoCopy, Goto, Carry, memory, disk, counts,
         Verifies, Clean, Conversation, SessionTypeOK
<1>6. TokenCarried'
      BY DEF SessionInv, TokenCarried, LoneOnly, ContinuationKept, Placed,
         SnapshotHistory, Done, NoCopy, Goto, Carry, memory, disk, counts,
         Verifies, SessionTypeOK, Copies, Checkpoints, Tokens
<1>7. AloneAppendRepairs'
      BY DEF SessionInv, AloneAppendRepairs, LoneSave, SettledQuiet, Placed,
         SnapshotHistory, Done, NoCopy, Goto, Carry, memory, disk, counts,
         Verifies, Clean, Checkpoint, Conversation, EvidenceRecord, Saving,
         SessionTypeOK, Copies, Checkpoints, Tokens
<1>8. SettledMessagesStay'
      BY DEF SessionInv, SettledMessagesStay, CopiesHold, LoneSave, Placed,
         SnapshotHistory, Done, NoCopy, Goto, Carry, memory, disk, counts,
         Clean, Checkpoint, Conversation, EvidenceRecord, Saving, SessionTypeOK
<1>9. ContinuationKept'
      BY DEF SessionInv, ContinuationKept, TokenCarried, LoneSave, LoneOnly,
         SnapshotHistory, Done, NoCopy, Goto, Carry, memory, disk, counts,
         Verifies, Clean, Checkpoint, Conversation, EvidenceRecord, Saving,
         SessionTypeOK, Copies, Checkpoints, Tokens
<1>10. QED
      BY <1>1, <1>2, <1>3, <1>4, <1>5, <1>6, <1>7, <1>8, <1>9 DEF SessionInv

\* The items it adds leave the copied history alone.
LEMMA SnapshotItemsKeeps ==
    ASSUME SessionInv, SessionTypeOK', NEW c \in Clients, SnapshotItems(c)
    PROVE  SessionInv'
<1>1. Placed'
      BY DEF SessionInv, Placed, SnapshotItems, Goto, Carry,
         memory, disk, counts, SessionTypeOK
<1>2. LoneOnly'
      BY DEF SessionInv, LoneOnly, SnapshotItems, Goto, Carry,
         memory, disk, counts, SessionTypeOK
<1>3. CopiesHold'
      BY DEF SessionInv, CopiesHold, SettledMessagesStay, LoneOnly, SnapshotItems,
         Goto, Carry, memory, disk, counts, Clean,
         SessionTypeOK
<1>4. LoneSave'
      BY DEF SessionInv, LoneSave, LoneOnly, Placed, SnapshotItems, Goto,
         Carry, memory, disk, counts, Clean, Checkpoint, Conversation,
         EvidenceRecord, Saving, SessionTypeOK, Copies, Checkpoints, Tokens
<1>5. SettledQuiet'
      BY DEF SessionInv, SettledQuiet, LoneOnly, AloneAppendRepairs,
         SnapshotItems, Goto, Carry, memory, disk, counts,
         Verifies, Clean, Conversation, SessionTypeOK
<1>6. TokenCarried'
      BY DEF SessionInv, TokenCarried, LoneOnly, ContinuationKept, Placed,
         SnapshotItems, Goto, Carry, memory, disk, counts,
         Verifies, SessionTypeOK, Copies, Checkpoints, Tokens
<1>7. AloneAppendRepairs'
      BY DEF SessionInv, AloneAppendRepairs, LoneSave, SettledQuiet, Placed,
         SnapshotItems, Goto, Carry, memory, disk, counts,
         Verifies, Clean, Checkpoint, Conversation, EvidenceRecord, Saving,
         SessionTypeOK, Copies, Checkpoints, Tokens
<1>8. SettledMessagesStay'
      BY DEF SessionInv, SettledMessagesStay, CopiesHold, LoneSave, Placed,
         SnapshotItems, Goto, Carry, memory, disk, counts,
         Clean, Checkpoint, Conversation, EvidenceRecord, Saving, SessionTypeOK
<1>9. ContinuationKept'
      BY DEF SessionInv, ContinuationKept, TokenCarried, LoneSave, LoneOnly,
         SnapshotItems, Goto, Carry, memory, disk, counts,
         Verifies, Clean, Checkpoint, Conversation, EvidenceRecord, Saving,
         SessionTypeOK, Copies, Checkpoints, Tokens
<1>10. QED
      BY <1>1, <1>2, <1>3, <1>4, <1>5, <1>6, <1>7, <1>8, <1>9 DEF SessionInv

\* Memory goes; of the files only those being written may be cut off.
LEMMA RestartKeeps ==
    ASSUME SessionInv, SessionTypeOK', Restart
    PROVE  SessionInv'
<1>1. Placed'
      BY DEF SessionInv, Placed, Restart, Busy, At, NoCopy, Checkpoint,
         Conversation, EvidenceRecord, SessionTypeOK
<1>2. LoneOnly'
      BY DEF SessionInv, LoneOnly, Restart, Busy, At, NoCopy, Checkpoint,
         Conversation, EvidenceRecord, SessionTypeOK
<1>3. CopiesHold'
      BY DEF SessionInv, CopiesHold, SettledMessagesStay, LoneOnly, Restart, Busy,
         At, Clean, NoCopy, Checkpoint, Conversation, EvidenceRecord,
         SessionTypeOK
<1>4. LoneSave'
      BY DEF SessionInv, LoneSave, LoneOnly, Placed, Restart, Busy, At, Clean,
         NoCopy, Checkpoint, Conversation, EvidenceRecord, Saving, SessionTypeOK,
         Copies, Checkpoints, Tokens
<1>5. SettledQuiet'
      BY DEF SessionInv, SettledQuiet, LoneOnly, Restart, Busy, At, NoCopy,
         Checkpoint, Conversation, EvidenceRecord, SessionTypeOK
<1>6. TokenCarried'
      BY DEF SessionInv, TokenCarried, LoneOnly, ContinuationKept, Placed,
         Restart, Busy, At, Verifies, NoCopy, Checkpoint, Conversation,
         EvidenceRecord, SessionTypeOK, Copies, Checkpoints, Tokens
<1>7. AloneAppendRepairs'
      BY DEF SessionInv, AloneAppendRepairs, LoneSave, SettledQuiet, Placed,
         Restart, Busy, At, Verifies, Clean, NoCopy, Checkpoint, Conversation,
         EvidenceRecord, Saving, SessionTypeOK, Copies, Checkpoints, Tokens
<1>8. SettledMessagesStay'
      BY DEF SessionInv, SettledMessagesStay, CopiesHold, LoneSave, Placed,
         Restart, Busy, At, Clean, NoCopy, Checkpoint, Conversation,
         EvidenceRecord, Saving, SessionTypeOK
<1>9. ContinuationKept'
      BY DEF SessionInv, ContinuationKept, TokenCarried, LoneSave, LoneOnly,
         Restart, Busy, At, Verifies, Clean, NoCopy, Checkpoint, Conversation,
         EvidenceRecord, Saving, SessionTypeOK, Copies, Checkpoints, Tokens
<1>10. QED
      BY <1>1, <1>2, <1>3, <1>4, <1>5, <1>6, <1>7, <1>8, <1>9 DEF SessionInv

\* Every step preserves the invariant.
LEMMA InvStep == SessionInv /\ [SessionNext]_sessionVars => SessionInv'
<1> SUFFICES ASSUME SessionInv, [SessionNext]_sessionVars PROVE SessionInv'
    OBVIOUS
<1>1. SessionTypeOK'
      BY TypeStep DEF SessionInv
<1>2. ASSUME NEW c \in Clients, ClientStep(c) PROVE SessionInv'
      BY <1>1, <1>2, PushKeeps, SaveConversationKeeps, PushItemKeeps,
         LoadPreviousKeeps, WriteCheckpointKeeps, WriteEvidenceKeeps,
         WriteCacheKeeps, WriteFailsKeeps, RestoreKeeps, InsertKeeps,
         HydrateKeeps, FillCacheKeeps, MissCacheKeeps, BindKeeps,
         NamedSnapshotKeeps, SnapshotHistoryKeeps, SnapshotItemsKeeps
      DEF ClientStep
<1>3. CASE Restart
      BY <1>1, <1>3, RestartKeeps
<1>4. CASE UNCHANGED sessionVars
      BY <1>1, <1>4 DEF sessionVars, SessionInv, Placed, LoneOnly, CopiesHold,
         LoneSave, SettledQuiet, TokenCarried, AloneAppendRepairs,
         SettledMessagesStay, ContinuationKept, Verifies
<1>5. QED
      BY <1>2, <1>3, <1>4 DEF SessionNext

\* The inductive invariant holds for any clients and bounds.
THEOREM SessionInvariant == SessionSpec => []SessionInv
BY InvInit, InvStep, PTL DEF SessionSpec

\* An append without company repairs the files, for any clients, overlaps, failed
\* writes and restarts before it.
THEOREM AppendsRepair == SessionSpec => []AloneAppendRepairs
BY SessionInvariant, PTL DEF SessionInv

\* Settled messages are never lost but by an append that starts from the saved
\* conversation, and a continuation survives what has no company, for any clients,
\* overlaps, failed writes and restarts.
THEOREM SettledStateIsKept == SessionSpec => []SettledStateStays
<1>1. SessionInv => SettledStateStays
      BY DEF SessionInv, SettledStateStays
<1>2. QED
      BY <1>1, SessionInvariant, PTL

-----------------------------------------------------------------------------
(* Remote sessions *)

\* A token, with "none" for the subject of none.
TokenRecs == [sub : Subjects \cup {"none"}, jti : Int, exp : Int]
\* The bridge's entry of a session.
EntryRecs == [there : BOOLEAN, running : BOOLEAN, buffered : Nat, token : TokenRecs]
\* What a client carries from await to await.
PeerRecs == [at : {"idle", "checked", "ingest"} \cup InBridge, token : TokenRecs,
             copy : EntryRecs, stale : BOOLEAN]

\* The tokens, the entry and what the clients carry are well-formed.
RemoteShapes ==
    /\ clock \in 0 .. MaxTime /\ issues \in 0 .. MaxTokens /\ lives \in 0 .. MaxRestarts
    /\ tokens \subseteq TokenRecs /\ \A t \in tokens : t.sub \in Subjects /\ t.jti \in 0 .. clock
    /\ entry \in EntryRecs
    /\ peer \in [Peers -> PeerRecs]
    /\ starts \in Seq([jti : Int, stale : BOOLEAN])

\* The token of a client between the check of the jti and the start is consumed,
\* and by nobody else.
MayStart(p) ==
    /\ peer[p].token \in tokens /\ ~peer[p].stale
    /\ peer[p].at = "starting" =>
          /\ peer[p].token.jti \in consumed
          /\ \A i \in DOMAIN starts : starts[i].jti # peer[p].token.jti
          /\ \A q \in Peers \ {p} : peer[q].at = "starting" =>
                                      peer[q].token.jti # peer[p].token.jti

\* Starts and the tokens they consumed.
StartsHeld ==
    /\ \A p \in Peers : peer[p].at \in {"checked", "starting"} => MayStart(p)
    /\ \A i \in DOMAIN starts : starts[i].jti \in consumed
    /\ OneStartPerToken

\* The current record of the rotation is none of the replaced ones.
RotationHeld == record \notin replaced /\ (record = NoToken => replaced = {})

\* The entry that runs has a token that was issued and consumed.
EntryHeld == entry.running => entry.token \in tokens /\ entry.token.jti \in consumed

\* Between the change of the entry and the end of the write of its status.
Persisting == {"persist", "write"}

\* Unless operations overlapped one client at a time is writing the status, and
\* what it copied is the entry still.
StatusHeld ==
    ~tangled =>
       /\ \A p, q \in Peers : peer[p].at \in Persisting /\ peer[q].at \in Persisting => p = q
       /\ \A p \in Peers : peer[p].at = "write" => peer[p].copy = entry
       /\ (\A p \in Peers : peer[p].at \notin Persisting) => statusRow = entry

\* The inductive invariant of remote sessions.
RemoteInv == RemoteShapes /\ StartsHeld /\ RotationHeld /\ EntryHeld /\ StatusHeld

\* A client at rest has a well-formed record.
LEMMA QuietIsPeer ==
    /\ NoToken \in TokenRecs /\ Down \in EntryRecs /\ Quiet \in PeerRecs
    /\ Quiet.at = "idle" /\ Down.running = FALSE /\ Down.there = FALSE
BY DEF NoToken, Down, Quiet, TokenRecs, EntryRecs, PeerRecs

\* A bridge without a session satisfies the invariant.
LEMMA RemoteInitInv == RemoteInit => RemoteInv
<1> SUFFICES ASSUME RemoteInit PROVE RemoteInv
  OBVIOUS
<1>1. RemoteShapes
  BY RemoteConstants, QuietIsPeer DEF RemoteInit, RemoteShapes
<1>2. StartsHeld
  BY QuietIsPeer DEF RemoteInit, StartsHeld, OneStartPerToken
<1>3. EntryHeld
  BY QuietIsPeer DEF RemoteInit, EntryHeld
<1>4. RotationHeld /\ StatusHeld
  BY QuietIsPeer DEF RemoteInit, RotationHeld, StatusHeld, Persisting
<1> QED
  BY <1>1, <1>2, <1>3, <1>4 DEF RemoteInv

\* The others are where they were.
PeersStay(p) == \A q \in Peers \ {p} : peer'[q] = peer[q]

\* A token that is issued.
LEMMA IssuedToken ==
    ASSUME RemoteShapes, NEW sub \in Subjects
    PROVE  [sub |-> sub, jti |-> clock, exp |-> (clock + TokenTtl) \div Second] \in TokenRecs
<1>1. (clock + TokenTtl) \div Second \in Int /\ clock \in Int
  BY RemoteConstants DEF RemoteShapes
<1> QED
  BY <1>1 DEF TokenRecs

\* An entry with one message more is well-formed.
LEMMA CountedEntry ==
    ASSUME NEW e \in EntryRecs
    PROVE  [e EXCEPT !.buffered = e.buffered + 1] \in EntryRecs
<1> DEFINE b == e.buffered + 1
<1>1. b \in Nat
  BY DEF EntryRecs
<1> HIDE DEF b
<1>2. [e EXCEPT !.buffered = b] \in EntryRecs
  BY <1>1 DEF EntryRecs
<1> QED
  BY <1>2 DEF b

\* Every step leaves well-formed tokens, entries and clients.
LEMMA RemoteShapesStep == RemoteShapes /\ [RemoteNext]_remoteVars => RemoteShapes'
<1> SUFFICES ASSUME RemoteShapes, [RemoteNext]_remoteVars PROVE RemoteShapes'
  OBVIOUS
<1> USE RemoteConstants DEF RemoteShapes
<1>1. CASE RemoteTick
  BY <1>1 DEF RemoteTick
<1>2. CASE RestartRunner
  BY <1>2, QuietIsPeer DEF RestartRunner
<1>3. ASSUME NEW sub \in Subjects, IssueToken(sub) PROVE RemoteShapes'
  <2> DEFINE tok == [sub |-> sub, jti |-> clock, exp |-> (clock + TokenTtl) \div Second]
  <2>1. tok \in TokenRecs /\ tok.sub = sub /\ tok.jti = clock
    BY IssuedToken
  <2>2. /\ issues < MaxTokens /\ issues' = issues + 1
        /\ tokens' = tokens \cup {tok} \/ UNCHANGED tokens
        /\ UNCHANGED <<clock, entry, peer, lives, starts>>
    BY <1>3 DEF IssueToken
  <2> HIDE DEF tok
  <2> QED
    BY <2>1, <2>2
<1>4. ASSUME NEW p \in Peers, NEW tok \in tokens, Present(p, tok) PROVE RemoteShapes'
  <2> DEFINE j == [peer[p] EXCEPT !.at = "checked", !.token = tok, !.stale = tok \in replaced]
  <2>1. peer[p] \in PeerRecs /\ tok \in TokenRecs /\ (tok \in replaced) \in BOOLEAN
    OBVIOUS
  <2>2. j \in PeerRecs
    BY <2>1 DEF PeerRecs
  <2>3. peer' = [peer EXCEPT ![p] = j] /\ UNCHANGED <<clock, issues, lives, tokens, entry, starts>>
    BY <1>4 DEF Present
  <2> HIDE DEF j
  <2> QED
    BY <2>2, <2>3
<1>5. ASSUME NEW p \in Peers, ConsumeJti(p) PROVE RemoteShapes'
  <2>1. peer' \in [Peers -> PeerRecs]
    <3>1. peer[p] \in PeerRecs /\ [peer[p] EXCEPT !.at = "starting"] \in PeerRecs
      BY DEF PeerRecs, InBridge
    <3>2. \/ peer' = [peer EXCEPT ![p] = Quiet]
          \/ peer' = [peer EXCEPT ![p] = [peer[p] EXCEPT !.at = "starting"]]
      BY <1>5 DEF ConsumeJti
    <3> QED
      BY <3>1, <3>2, QuietIsPeer
  <2> QED
    BY <1>5, <2>1 DEF ConsumeJti
<1>6. ASSUME NEW p \in Peers, StartBridge(p) PROVE RemoteShapes'
  <2>1. peer[p] \in PeerRecs /\ peer[p].token \in TokenRecs
    BY DEF PeerRecs
  <2>2. peer' \in [Peers -> PeerRecs]
    <3>1. [peer[p] EXCEPT !.at = "persist"] \in PeerRecs
      BY <2>1 DEF PeerRecs, InBridge
    <3>2. peer' = [peer EXCEPT ![p] = [peer[p] EXCEPT !.at = "persist"]]
      BY <1>6 DEF StartBridge
    <3> QED
      BY <3>1, <3>2
  <2>3. entry' \in EntryRecs
    <3>1. entry' = [there |-> TRUE, running |-> TRUE, buffered |-> 0, token |-> peer[p].token]
      BY <1>6 DEF StartBridge
    <3> QED
      BY <2>1, <3>1 DEF EntryRecs
  <2>4. starts' \in Seq([jti : Int, stale : BOOLEAN])
    <3>1. starts' = Append(starts, [jti |-> peer[p].token.jti, stale |-> peer[p].stale])
      BY <1>6 DEF StartBridge
    <3>2. [jti |-> peer[p].token.jti, stale |-> peer[p].stale] \in [jti : Int, stale : BOOLEAN]
      BY <2>1 DEF PeerRecs, TokenRecs
    <3> QED
      BY <3>1, <3>2
  <2>5. UNCHANGED <<clock, issues, lives, tokens>>
    BY <1>6 DEF StartBridge
  <2> QED
    BY <2>2, <2>3, <2>4, <2>5
<1>7. ASSUME NEW p \in Peers, StopBridge(p) \/ AdmitEnvelope(p) \/ CountEnvelope(p)
      PROVE  RemoteShapes'
  <2>1. peer[p] \in PeerRecs
    OBVIOUS
  <2>2. peer' \in [Peers -> PeerRecs]
    <3>1. /\ [peer[p] EXCEPT !.at = "persist"] \in PeerRecs
          /\ [peer[p] EXCEPT !.at = "ingest"] \in PeerRecs
      BY <2>1 DEF PeerRecs, InBridge
    <3>2. \/ peer' = [peer EXCEPT ![p] = [peer[p] EXCEPT !.at = "persist"]]
          \/ peer' = [peer EXCEPT ![p] = [peer[p] EXCEPT !.at = "ingest"]]
      BY <1>7 DEF StopBridge, AdmitEnvelope, CountEnvelope
    <3> QED
      BY <3>1, <3>2
  <2>3. entry' \in EntryRecs
    <3>1. [entry EXCEPT !.running = FALSE] \in EntryRecs
      BY DEF EntryRecs
    <3>2. [entry EXCEPT !.buffered = entry.buffered + 1] \in EntryRecs
      BY CountedEntry
    <3>3. \/ entry' = entry \/ entry' = [entry EXCEPT !.running = FALSE]
          \/ entry' = [entry EXCEPT !.buffered = entry.buffered + 1]
      BY <1>7 DEF StopBridge, AdmitEnvelope, CountEnvelope
    <3> QED
      BY <3>1, <3>2, <3>3
  <2>4. UNCHANGED <<clock, issues, lives, tokens, starts>>
    BY <1>7 DEF StopBridge, AdmitEnvelope, CountEnvelope
  <2> QED
    BY <2>2, <2>3, <2>4
<1>8. ASSUME NEW p \in Peers, ReadStatus(p) \/ WriteStatus(p) \/ WriteStatusFails(p)
      PROVE  RemoteShapes'
  <2>1. peer' \in [Peers -> PeerRecs]
    <3>1. [peer[p] EXCEPT !.at = "write", !.copy = entry] \in PeerRecs
      BY DEF PeerRecs, InBridge
    <3>2. \/ peer' = [peer EXCEPT ![p] = [peer[p] EXCEPT !.at = "write", !.copy = entry]]
          \/ peer' = [peer EXCEPT ![p] = Quiet]
      BY <1>8 DEF ReadStatus, WriteStatus, WriteStatusFails
    <3> QED
      BY <3>1, <3>2, QuietIsPeer
  <2>2. UNCHANGED <<clock, issues, lives, tokens, starts, entry>>
    BY <1>8 DEF ReadStatus, WriteStatus, WriteStatusFails
  <2> QED
    BY <2>1, <2>2
<1>9. CASE UNCHANGED remoteVars
  BY <1>9 DEF remoteVars
<1> QED
  BY <1>1, <1>2, <1>3, <1>4, <1>5, <1>6, <1>7, <1>8, <1>9 DEF RemoteNext

\* What every step that is not one of the clients leaves alone.
LEMMA RemoteStartsStep ==
    ASSUME RemoteInv, [RemoteNext]_remoteVars, RemoteShapes'
    PROVE  StartsHeld'
<1> USE DEF RemoteInv
<1>0. /\ peer \in [Peers -> PeerRecs] /\ starts \in Seq([jti : Int, stale : BOOLEAN])
      /\ \A p \in Peers : peer[p] \in PeerRecs
  BY DEF RemoteShapes
<1>1. ASSUME UNCHANGED <<peer, consumed, starts>>, tokens \subseteq tokens' PROVE StartsHeld'
  BY <1>1 DEF StartsHeld, MayStart, OneStartPerToken
<1>2. CASE RemoteTick \/ UNCHANGED remoteVars \/ \E sub \in Subjects : IssueToken(sub)
  BY <1>1, <1>2 DEF RemoteTick, remoteVars, IssueToken
<1>3. CASE RestartRunner
  BY <1>3, QuietIsPeer DEF RestartRunner, StartsHeld, OneStartPerToken
<1>4. ASSUME NEW p \in Peers, PeersStay(p), UNCHANGED <<consumed, starts, tokens>>,
             peer'[p].at \notin {"checked", "starting"}
      PROVE  StartsHeld'
  BY <1>4 DEF StartsHeld, MayStart, OneStartPerToken, PeersStay
<1>5. ASSUME NEW p \in Peers, NEW tok \in tokens, Present(p, tok) PROVE StartsHeld'
  <2>1. /\ record \in {NoToken, tok} /\ UNCHANGED <<consumed, starts, tokens>>
        /\ peer' = [peer EXCEPT ![p] = [@ EXCEPT !.at = "checked", !.token = tok,
                                             !.stale = tok \in replaced]]
    BY <1>5 DEF Present
  <2>2. tok \notin replaced
    BY <2>1 DEF RotationHeld
  <2>3. peer'[p].at = "checked" /\ peer'[p].token = tok /\ ~peer'[p].stale
    <3> DEFINE j == [peer[p] EXCEPT !.at = "checked", !.token = tok,
                                    !.stale = tok \in replaced]
    <3>1. peer'[p] = j
      BY <1>0, <2>1
    <3>2. j.at = "checked" /\ j.token = tok
      BY <1>0 DEF PeerRecs
    <3>3. j.stale = (tok \in replaced)
      BY <1>0 DEF PeerRecs
    <3> HIDE DEF j
    <3> QED
      BY <2>2, <3>1, <3>2, <3>3
  <2>4. PeersStay(p)
    BY <1>0, <2>1 DEF PeersStay
  <2> QED
    BY <2>1, <2>3, <2>4 DEF StartsHeld, MayStart, OneStartPerToken, PeersStay
<1>6. ASSUME NEW p \in Peers, ConsumeJti(p) PROVE StartsHeld'
  <2>1. peer[p].at = "checked" /\ UNCHANGED <<starts, tokens>> /\ PeersStay(p)
    BY <1>0, <1>6 DEF ConsumeJti, PeersStay
  <2>2. CASE peer[p].token.jti \in consumed
    <3>1. peer'[p] = Quiet /\ UNCHANGED consumed
      BY <1>0, <1>6, <2>2 DEF ConsumeJti
    <3> QED
      BY <1>4, <2>1, <3>1, QuietIsPeer
  <2>3. CASE peer[p].token.jti \notin consumed
    <3>1. /\ peer' = [peer EXCEPT ![p].at = "starting"]
          /\ consumed' = consumed \cup {peer[p].token.jti}
      BY <1>6, <2>3 DEF ConsumeJti
    <3>2. /\ peer'[p].at = "starting" /\ peer'[p].token = peer[p].token
          /\ peer'[p].stale = peer[p].stale
      BY <1>0, <3>1 DEF PeerRecs
    <3>3. MayStart(p)'
      BY <2>1, <2>3, <3>1, <3>2 DEF StartsHeld, MayStart, PeersStay
    <3>4. ASSUME NEW q \in Peers \ {p}, peer[q].at \in {"checked", "starting"}
          PROVE  MayStart(q)'
      BY <2>1, <2>3, <3>1, <3>2, <3>4 DEF StartsHeld, MayStart, PeersStay
    <3> QED
      BY <2>1, <3>1, <3>3, <3>4 DEF StartsHeld, OneStartPerToken, PeersStay
  <2> QED
    BY <2>2, <2>3
<1>7. ASSUME NEW p \in Peers, StartBridge(p) PROVE StartsHeld'
  <2> DEFINE new == [jti |-> peer[p].token.jti, stale |-> peer[p].stale]
  <2>1. /\ peer[p].at = "starting" /\ UNCHANGED <<consumed, tokens>>
        /\ starts' = Append(starts, new) /\ peer' = [peer EXCEPT ![p].at = "persist"]
    BY <1>7 DEF StartBridge
  <2>2. PeersStay(p) /\ peer'[p].at = "persist"
    BY <1>0, <2>1 DEF PeersStay, PeerRecs
  <2>3. new.jti = peer[p].token.jti /\ new.stale = peer[p].stale
    OBVIOUS
  <2>4. /\ DOMAIN starts = 1 .. Len(starts) /\ DOMAIN starts' = 1 .. Len(starts) + 1
        /\ Len(starts) \in Nat /\ starts'[Len(starts) + 1] = new
        /\ \A i \in 1 .. Len(starts) : starts'[i] = starts[i]
    BY <1>0, <2>1, new \in [jti : Int, stale : BOOLEAN] DEF PeerRecs, TokenRecs
  <2>5. \A i \in DOMAIN starts' : i \in DOMAIN starts \/ i = Len(starts) + 1
    BY <2>4
  <2>6. \A i \in DOMAIN starts : starts'[i] = starts[i] /\ starts[i].jti # new.jti
    BY <2>1, <2>3, <2>4 DEF StartsHeld, MayStart
  <2>7. ~new.stale /\ new.jti \in consumed
    BY <2>1, <2>3 DEF StartsHeld, MayStart
  <2> HIDE DEF new
  <2>8. OneStartPerToken' /\ \A i \in DOMAIN starts' : starts'[i].jti \in consumed'
    BY <2>1, <2>4, <2>5, <2>6, <2>7 DEF StartsHeld, OneStartPerToken
  <2>9. ASSUME NEW q \in Peers, peer'[q].at \in {"checked", "starting"} PROVE MayStart(q)'
    <3>1. q # p /\ peer'[q] = peer[q] /\ MayStart(q)
      BY <2>2, <2>9 DEF StartsHeld, PeersStay
    <3>2. peer[q].at = "starting" => \A i \in DOMAIN starts' : starts'[i].jti # peer[q].token.jti
      <4>1. peer[q].at = "starting" => new.jti # peer[q].token.jti
        BY <2>1, <2>3, <3>1 DEF MayStart
      <4> QED
        BY <2>4, <2>5, <2>6, <3>1, <4>1 DEF MayStart
    <3> QED
      BY <2>1, <2>2, <3>1, <3>2 DEF MayStart, PeersStay
  <2> QED
    BY <2>8, <2>9 DEF StartsHeld
<1>8. ASSUME NEW p \in Peers, StopBridge(p) \/ AdmitEnvelope(p) \/ CountEnvelope(p)
      PROVE  StartsHeld'
  <2>1. \E a \in {"persist", "ingest"} : peer' = [peer EXCEPT ![p].at = a]
    BY <1>8 DEF StopBridge, AdmitEnvelope, CountEnvelope
  <2>2. UNCHANGED <<consumed, starts, tokens>>
    BY <1>8 DEF StopBridge, AdmitEnvelope, CountEnvelope
  <2>3. PeersStay(p) /\ peer'[p].at \in {"persist", "ingest"}
    BY <1>0, <2>1 DEF PeersStay, PeerRecs
  <2> QED
    BY <1>4, <2>2, <2>3
<1>9. ASSUME NEW p \in Peers, ReadStatus(p) \/ WriteStatus(p) \/ WriteStatusFails(p)
      PROVE  StartsHeld'
  <2>1. \/ peer' = [peer EXCEPT ![p] = [peer[p] EXCEPT !.at = "write", !.copy = entry]]
        \/ peer' = [peer EXCEPT ![p] = Quiet]
    BY <1>9 DEF ReadStatus, WriteStatus, WriteStatusFails
  <2>2. UNCHANGED <<consumed, starts, tokens>>
    BY <1>9 DEF ReadStatus, WriteStatus, WriteStatusFails
  <2>3. PeersStay(p) /\ peer'[p].at \in {"write", "idle"}
    BY <1>0, <2>1, QuietIsPeer DEF PeersStay, PeerRecs
  <2> QED
    BY <1>4, <2>2, <2>3
<1> QED
  BY <1>2, <1>3, <1>5, <1>6, <1>7, <1>8, <1>9 DEF RemoteNext

\* Every step keeps the rotation of the tokens.
LEMMA RotationStep == ASSUME RemoteInv, [RemoteNext]_remoteVars PROVE RotationHeld'
<1> USE DEF RemoteInv
<1>1. ASSUME NEW sub \in Subjects, IssueToken(sub) PROVE RotationHeld'
  <2> DEFINE tok == [sub |-> sub, jti |-> clock, exp |-> (clock + TokenTtl) \div Second]
  <2>1. /\ record' = tok
        /\ replaced' = (IF record = NoToken THEN replaced ELSE replaced \cup {record}) \ {tok}
    BY <1>1 DEF IssueToken
  <2>2. tok.jti = clock /\ clock # -1 /\ NoToken.jti = -1
    BY RemoteConstants DEF RemoteShapes, NoToken
  <2> HIDE DEF tok
  <2> QED
    BY <2>1, <2>2 DEF RotationHeld
<1>2. CASE RestartRunner
  BY <1>2 DEF RestartRunner, RotationHeld
<1>3. CASE UNCHANGED <<record, replaced>>
  BY <1>3 DEF RotationHeld
<1>4. ASSUME NEW p \in Peers,
             \/ \E tok \in tokens : Present(p, tok)
             \/ ConsumeJti(p) \/ StartBridge(p) \/ StopBridge(p)
             \/ AdmitEnvelope(p) \/ CountEnvelope(p)
             \/ ReadStatus(p) \/ WriteStatus(p) \/ WriteStatusFails(p)
      PROVE  UNCHANGED <<record, replaced>>
  BY <1>4 DEF Present, ConsumeJti, StartBridge, StopBridge, AdmitEnvelope, CountEnvelope,
              ReadStatus, WriteStatus, WriteStatusFails
<1>5. RemoteTick \/ UNCHANGED remoteVars => UNCHANGED <<record, replaced>>
  BY DEF RemoteTick, remoteVars
<1> QED
  BY <1>1, <1>2, <1>3, <1>4, <1>5 DEF RemoteNext

\* Every step keeps the entry bound to a consumed token.
LEMMA EntryStep == ASSUME RemoteInv, [RemoteNext]_remoteVars PROVE EntryHeld'
<1> USE DEF RemoteInv
<1>0. entry \in EntryRecs
  BY DEF RemoteShapes
<1>1. ASSUME NEW p \in Peers, StartBridge(p) PROVE EntryHeld'
  <2>1. /\ peer[p].at = "starting" /\ UNCHANGED <<tokens, consumed>>
        /\ entry' = [there |-> TRUE, running |-> TRUE, buffered |-> 0, token |-> peer[p].token]
    BY <1>1 DEF StartBridge
  <2>2. peer[p].token \in tokens /\ peer[p].token.jti \in consumed
    BY <2>1 DEF StartsHeld, MayStart
  <2> QED
    BY <2>1, <2>2 DEF EntryHeld
<1>2. CASE RestartRunner
  BY <1>2, QuietIsPeer DEF RestartRunner, EntryHeld
<1>3. ASSUME entry'.token = entry.token, entry'.running => entry.running,
             tokens \subseteq tokens', consumed \subseteq consumed'
      PROVE  EntryHeld'
  BY <1>3 DEF EntryHeld
<1>4. ASSUME NEW p \in Peers, StopBridge(p) \/ CountEnvelope(p) PROVE EntryHeld'
  <2>1. CASE StopBridge(p)
    <3>1. UNCHANGED <<tokens, consumed>> /\ entry' = [entry EXCEPT !.running = FALSE]
      BY <2>1 DEF StopBridge
    <3>2. entry'.token = entry.token /\ ~entry'.running
      BY <1>0, <3>1 DEF EntryRecs
    <3> QED
      BY <1>3, <3>1, <3>2
  <2>2. CASE CountEnvelope(p)
    <3>1. UNCHANGED <<tokens, consumed>> /\ entry' = [entry EXCEPT !.buffered = @ + 1]
      BY <2>2 DEF CountEnvelope
    <3>2. entry'.token = entry.token /\ entry'.running = entry.running
      BY <1>0, <3>1 DEF EntryRecs
    <3> QED
      BY <1>3, <3>1, <3>2
  <2> QED
    BY <1>4, <2>1, <2>2
<1>5. ASSUME NEW p \in Peers,
             \/ \E tok \in tokens : Present(p, tok)
             \/ ConsumeJti(p) \/ AdmitEnvelope(p)
             \/ ReadStatus(p) \/ WriteStatus(p) \/ WriteStatusFails(p)
      PROVE  EntryHeld'
  <2>1. UNCHANGED <<entry, tokens>> /\ consumed \subseteq consumed'
    BY <1>5 DEF Present, ConsumeJti, AdmitEnvelope, ReadStatus, WriteStatus, WriteStatusFails
  <2> QED
    BY <1>3, <2>1
<1>6. CASE RemoteTick \/ UNCHANGED remoteVars \/ \E sub \in Subjects : IssueToken(sub)
  <2>1. UNCHANGED <<entry, consumed>> /\ tokens \subseteq tokens'
    BY <1>6 DEF RemoteTick, remoteVars, IssueToken
  <2> QED
    BY <1>3, <2>1
<1> QED
  BY <1>1, <1>2, <1>4, <1>5, <1>6 DEF RemoteNext

\* Every step keeps what is known of the status row.
LEMMA StatusStep == ASSUME RemoteInv, [RemoteNext]_remoteVars PROVE StatusHeld'
<1> USE DEF RemoteInv
<1>0. peer \in [Peers -> PeerRecs] /\ \A p \in Peers : peer[p] \in PeerRecs
  BY DEF RemoteShapes
\* An operation that changes the entry and goes on to write the status.
<1>1. ASSUME NEW p \in Peers, peer' = [peer EXCEPT ![p].at = "persist"],
             tangled' = (tangled \/ Tangles(p))
      PROVE  StatusHeld'
  <2>1. PeersStay(p) /\ peer'[p].at = "persist"
    BY <1>0, <1>1 DEF PeersStay, PeerRecs
  <2>2. ~tangled' => \A q \in Peers \ {p} : peer[q].at \notin Persisting
    BY <1>1 DEF Tangles, InBridge, Persisting
  <2> QED
    BY <2>1, <2>2 DEF StatusHeld, PeersStay, Persisting
\* A step of a client that is not writing the status, before and after.
<1>2. ASSUME NEW p \in Peers, PeersStay(p), UNCHANGED <<entry, statusRow, tangled>>,
             peer[p].at \notin Persisting, peer'[p].at \notin Persisting
      PROVE  StatusHeld'
  BY <1>2 DEF StatusHeld, PeersStay, Persisting
<1>3. ASSUME NEW p \in Peers, StartBridge(p) \/ StopBridge(p) \/ CountEnvelope(p)
      PROVE  StatusHeld'
  <2>1. peer' = [peer EXCEPT ![p].at = "persist"] /\ tangled' = (tangled \/ Tangles(p))
    BY <1>3 DEF StartBridge, StopBridge, CountEnvelope
  <2> QED
    BY <1>1, <2>1
<1>4. ASSUME NEW p \in Peers, NEW tok \in tokens, Present(p, tok) PROVE StatusHeld'
  <2>1. /\ UNCHANGED <<entry, statusRow, tangled>> /\ peer[p].at = "idle" /\ PeersStay(p)
        /\ peer'[p].at = "checked"
    BY <1>0, <1>4 DEF Present, PeersStay, PeerRecs
  <2> QED
    BY <1>2, <2>1 DEF Persisting
<1>5. ASSUME NEW p \in Peers, ConsumeJti(p) PROVE StatusHeld'
  <2>1. /\ UNCHANGED <<entry, statusRow, tangled>> /\ peer[p].at = "checked" /\ PeersStay(p)
        /\ peer'[p].at \in {"idle", "starting"}
    BY <1>0, <1>5, QuietIsPeer DEF ConsumeJti, PeersStay, PeerRecs
  <2> QED
    BY <1>2, <2>1 DEF Persisting
<1>6. ASSUME NEW p \in Peers, AdmitEnvelope(p) PROVE StatusHeld'
  <2>1. /\ UNCHANGED <<entry, statusRow, tangled>> /\ peer[p].at = "idle" /\ PeersStay(p)
        /\ peer'[p].at = "ingest"
    BY <1>0, <1>6 DEF AdmitEnvelope, PeersStay, PeerRecs
  <2> QED
    BY <1>2, <2>1 DEF Persisting
<1>7. ASSUME NEW p \in Peers, ReadStatus(p) PROVE StatusHeld'
  <2>1. /\ UNCHANGED <<entry, statusRow, tangled>> /\ peer[p].at = "persist" /\ PeersStay(p)
        /\ peer'[p].at = "write" /\ peer'[p].copy = entry
    BY <1>0, <1>7 DEF ReadStatus, PeersStay, PeerRecs
  <2> QED
    BY <2>1 DEF StatusHeld, Persisting, PeersStay
<1>8. ASSUME NEW p \in Peers, WriteStatus(p) PROVE StatusHeld'
  <2>1. /\ UNCHANGED <<entry, tangled>> /\ peer[p].at = "write" /\ PeersStay(p)
        /\ peer'[p].at = "idle" /\ statusRow' = peer[p].copy
    BY <1>0, <1>8, QuietIsPeer DEF WriteStatus, PeersStay
  <2> QED
    BY <2>1 DEF StatusHeld, Persisting, PeersStay
<1>9. (\E p \in Peers : WriteStatusFails(p)) \/ RestartRunner => tangled'
  BY DEF WriteStatusFails, RestartRunner
<1>10. CASE tangled'
  BY <1>10 DEF StatusHeld
<1>11. CASE RemoteTick \/ UNCHANGED remoteVars \/ \E sub \in Subjects : IssueToken(sub)
  BY <1>11 DEF RemoteTick, remoteVars, IssueToken, StatusHeld
<1> QED
  BY <1>3, <1>4, <1>5, <1>6, <1>7, <1>8, <1>9, <1>10, <1>11 DEF RemoteNext

\* The inductive invariant holds of every run of the remote sessions.
THEOREM RemoteInvariant == RemoteSpec => []RemoteInv
<1>1. RemoteInv /\ [RemoteNext]_remoteVars => RemoteInv'
  <2> SUFFICES ASSUME RemoteInv, [RemoteNext]_remoteVars PROVE RemoteInv'
    OBVIOUS
  <2>1. RemoteShapes'
    BY RemoteShapesStep DEF RemoteInv
  <2> QED
    BY <2>1, RemoteStartsStep, RotationStep, EntryStep, StatusStep DEF RemoteInv
<1> QED
  BY <1>1, RemoteInitInv, PTL DEF RemoteSpec

\* Tokens, entries and clients stay well-formed through restarts of the bridge.
THEOREM RemoteTypes == RemoteSpec => []RemoteTypeOK
<1>1. RemoteInv => RemoteTypeOK
  BY DEF RemoteInv, RemoteShapes, PeerRecs, EntryHeld, RemoteTypeOK
<1> QED
  BY <1>1, RemoteInvariant, PTL

\* Between two restarts no two bridges start with one jti, whatever clients race for it,
\* and none with a token that was replaced when it was presented (OneStartPerToken).
THEOREM TokensStartOnce == RemoteSpec => []OneStartPerToken
<1>1. RemoteInv => OneStartPerToken
  BY DEF RemoteInv, StartsHeld
<1> QED
  BY <1>1, RemoteInvariant, PTL

\* The status row of the bridge says what the entry says once nobody writes it, unless
\* operations overlapped (StatusRowCurrent).
THEOREM StatusRowIsCurrent == RemoteSpec => []StatusRowCurrent
<1>1. RemoteInv => StatusRowCurrent
  BY DEF RemoteInv, StatusHeld, StatusRowCurrent, Persisting, InBridge
<1> QED
  BY <1>1, RemoteInvariant, PTL
==============================================================================
