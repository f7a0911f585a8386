---------------------------- MODULE SessionStore ----------------------------
(***************************************************************************)
(* One session of the session store (session/store.rs, checkpoint.rs,      *)
(* runtime.rs, context_cache.rs): its history, context items and cache in  *)
(* memory, and three files: the saved conversation, the checkpoint, and    *)
(* the checkpoint's evidence record.                                       *)
(*                                                                         *)
(* Any number of clients append, restore, bind a continuation, take a named *)
(* snapshot and read the cache at the same time.  A step is one lock's      *)
(* critical section or one file written; `load` reads two files in one     *)
(* step, which loses nothing: what a save changes between the two reads    *)
(* makes it fail as a save seen half done does.  A write may fail and the  *)
(* process may stop, both with the file cut off.                           *)
(*                                                                         *)
(* Messages are numbered in the order they are pushed, and a history is    *)
(* the set of its messages: every history lists them in that order.        *)
(***************************************************************************)
EXTENDS Naturals, FiniteSets

CONSTANTS Clients,       \* callers of the store
          MaxMessages,   \* bound: messages pushed
          MaxBinds,      \* bound: continuations bound
          MaxFaults      \* bound: failed writes and restarts

ASSUME SessionBounds == MaxMessages \in Nat /\ MaxBinds \in Nat /\ MaxFaults \in Nat

VARIABLES live, mem,     \* `inner`: is the session in memory, and its history
          items,         \* `context_items`: the messages that have one
          cache,         \* `context_cache`: the checkpoint it was built from
          saved,         \* .ontoloop-sessions/<id>.json
          ckpt,          \* the checkpoint file
          evid,          \* the evidence file
          pc, op, copy,  \* a client's place, its operation, and what it carries
          pushed, binds, faults,
          alone,         \* history: running operations that have had no company
          settled,       \* history: the last one was an append that ran alone
          safe,          \* history: messages a settled append left in the files
          token          \* history: the token bound by a bind that ran alone

sessionVars == <<live, mem, items, cache, saved, ckpt, evid, pc, op, copy,
                 pushed, binds, faults, alone, settled, safe, token>>

Message == [id : 1 .. MaxMessages, text : BOOLEAN]
Tokens  == 0 .. MaxBinds                  \* 0: no continuation

\* clean_history: user and assistant messages, no tool messages.
Clean(h) == { m \in h : m.text }

\* The message at message_index.
Newest(h) == { m \in h : \A n \in h : n.id <= m.id }

Files == {"none", "torn", "whole"}
NoCopy == [hist |-> {}, items |-> {}, cont |-> 0]
Checkpoint(file, r) == [file |-> file, hist |-> r.hist, items |-> r.items, cont |-> r.cont]
Conversation(file, h) == [file |-> file, hist |-> h]
EvidenceRecord(file, h) == [file |-> file, ref |-> h]

\* An evidence_ref names the history it was made for (a time and a digest);
\* `load` succeeds when the evidence record has the checkpoint's reference.
Verifies == ckpt.file = "whole" /\ evid.file = "whole" /\ evid.ref = ckpt.hist

\* What `load` returns when it succeeds.
Loaded == [hist |-> ckpt.hist, items |-> ckpt.items, cont |-> ckpt.cont]

Idle(c) == pc[c] = "idle"
At(place) == { c \in Clients : pc[c] = place }
Busy    == { c \in Clients : pc[c] # "idle" }

-----------------------------------------------------------------------------
SessionInit ==
    /\ live = FALSE /\ mem = {} /\ items = {} /\ cache = Checkpoint("none", NoCopy)
    /\ saved = Conversation("none", {})
    /\ ckpt = Checkpoint("none", NoCopy) /\ evid = EvidenceRecord("none", {})
    /\ pc = [c \in Clients |-> "idle"]
    /\ op = [c \in Clients |-> "none"]
    /\ copy = [c \in Clients |-> NoCopy]
    /\ pushed = 0 /\ binds = 0 /\ faults = 0
    /\ alone = {} /\ settled = FALSE /\ safe = {} /\ token = 0

Goto(c, place) == pc' = [pc EXCEPT ![c] = place]
Carry(c, r)    == copy' = [copy EXCEPT ![c] = r]

\* c returns.
Done(c) ==
    /\ Goto(c, "idle")
    /\ op' = [op EXCEPT ![c] = "none"]
    /\ Carry(c, NoCopy)

\* c starts an operation; whoever is running has company from now on.
Enter(c, what, place) ==
    /\ Idle(c)
    /\ op' = [op EXCEPT ![c] = what]
    /\ Goto(c, place)
    /\ alone' = IF Busy = {} THEN {c} ELSE {}
    /\ token' = IF Busy = {} /\ what # "bind" THEN token ELSE 0

disk   == <<saved, ckpt, evid>>
memory == <<live, mem, items, cache>>
counts == <<pushed, binds, faults>>

-----------------------------------------------------------------------------
(* append_message *)

\* Mutant: a session that is not in memory starts empty.
PushFresh(c) ==
    /\ pushed < MaxMessages
    /\ Enter(c, "append", "save")
    /\ \E text \in BOOLEAN :
          mem' = (IF live THEN mem ELSE {}) \cup {[id |-> pushed + 1, text |-> text]}
    /\ live' = TRUE
    /\ Carry(c, [NoCopy EXCEPT !.hist = mem'])
    /\ pushed' = pushed + 1
    /\ settled' = FALSE
    /\ safe' = IF live THEN safe ELSE safe \cap saved.hist
    /\ UNCHANGED <<items, cache, disk, binds, faults>>

\* Under the write lock of `inner`: a session that is not in memory starts from
\* the saved conversation, not from the checkpoint.
Push(c) ==
    /\ pushed < MaxMessages
    /\ Enter(c, "append", "save")
    /\ \E text \in BOOLEAN :
          mem' = (IF live THEN mem ELSE saved.hist) \cup {[id |-> pushed + 1, text |-> text]}
    /\ live' = TRUE
    /\ Carry(c, [NoCopy EXCEPT !.hist = mem'])
    /\ pushed' = pushed + 1
    /\ settled' = FALSE
    /\ safe' = IF live THEN safe ELSE safe \cap saved.hist
    /\ UNCHANGED <<items, cache, disk, binds, faults>>

\* Writes the snapshot taken under the lock, unless it has no conversation.
SaveConversation(c) ==
    /\ pc[c] = "save"
    /\ saved' = IF Clean(copy[c].hist) = {} THEN saved
                ELSE Conversation("whole", Clean(copy[c].hist))
    /\ Goto(c, "item")
    /\ UNCHANGED <<memory, ckpt, evid, op, copy, counts, alone, settled, safe, token>>

\* The message's context item: its own is the one that the snapshot's newest
\* message brings.  (The drain above 64 items is out of the bounds.)
PushItem(c) ==
    /\ pc[c] = "item"
    /\ items' = items \cup Newest(copy[c].hist)
    /\ Carry(c, [copy[c] EXCEPT !.items = items'])
    /\ Goto(c, "load")
    /\ UNCHANGED <<live, mem, cache, disk, op, counts, alone, settled, safe, token>>

-----------------------------------------------------------------------------
(* update_history, and save *)

\* The continuation is the previous checkpoint's; a checkpoint that does not
\* load counts as none.
LoadPrevious(c) ==
    /\ pc[c] = "load"
    /\ Carry(c, [copy[c] EXCEPT !.cont = IF Verifies THEN ckpt.cont ELSE 0])
    /\ Goto(c, "ckpt")
    /\ UNCHANGED <<memory, disk, op, counts, alone, settled, safe, token>>

WriteCheckpoint(c) ==
    /\ pc[c] = "ckpt"
    /\ ckpt' = Checkpoint("whole", copy[c])
    /\ Goto(c, "evid")
    /\ settled' = FALSE
    /\ UNCHANGED <<memory, saved, evid, op, copy, counts, alone, safe, token>>

\* Mutant: an evidence record that exists is kept.
WriteEvidenceOnce(c) ==
    /\ pc[c] = "evid"
    /\ evid' = IF evid.file = "whole" THEN evid ELSE EvidenceRecord("whole", copy[c].hist)
    /\ IF op[c] = "append" THEN Goto(c, "cache") /\ UNCHANGED <<op, copy>> ELSE Done(c)
    /\ token' = IF op[c] = "bind" /\ c \in alone THEN copy[c].cont ELSE token
    /\ UNCHANGED <<memory, saved, ckpt, counts, alone, settled, safe>>

\* An append goes on to the cache; a bind and a snapshot are done.
WriteEvidence(c) ==
    /\ pc[c] = "evid"
    /\ evid' = EvidenceRecord("whole", copy[c].hist)
    /\ IF op[c] = "append" THEN Goto(c, "cache") /\ UNCHANGED <<op, copy>> ELSE Done(c)
    /\ token' = IF op[c] = "bind" /\ c \in alone THEN copy[c].cont ELSE token
    /\ UNCHANGED <<memory, saved, ckpt, counts, alone, settled, safe>>

WriteCache(c) ==
    /\ pc[c] = "cache"
    /\ cache' = Checkpoint("whole", copy[c])
    /\ Done(c)
    /\ settled' = (c \in alone)
    /\ safe' = IF c \in alone THEN mem ELSE safe
    /\ UNCHANGED <<live, mem, items, disk, counts, alone, token>>

\* A write fails, before or after it has truncated its file.  The saved
\* conversation's error is ignored, the other two end the operation.
WriteFails(c) ==
    /\ faults < MaxFaults
    /\ faults' = faults + 1
    /\ \/ /\ pc[c] = "save" /\ Clean(copy[c].hist) # {}
          /\ saved' \in {saved, Conversation("torn", {})}
          /\ Goto(c, "item") /\ UNCHANGED <<ckpt, evid, op, copy>>
       \/ /\ pc[c] = "ckpt" /\ ckpt' \in {ckpt, Checkpoint("torn", NoCopy)}
          /\ Done(c) /\ UNCHANGED <<saved, evid>>
       \/ /\ pc[c] = "evid" /\ evid' \in {evid, EvidenceRecord("torn", {})}
          /\ Done(c) /\ UNCHANGED <<saved, ckpt>>
    /\ alone' = {} /\ token' = 0 /\ settled' = FALSE
    /\ UNCHANGED <<memory, pushed, binds, safe>>

-----------------------------------------------------------------------------
(* history, load_from_checkpoint *)

\* restore_session: history() does it for a session that is not in memory,
\* load_from_checkpoint for any; a checkpoint that does not load changes nothing.
Restore(c) ==
    /\ Verifies
    /\ Enter(c, "restore", "insert")
    /\ Carry(c, Loaded)
    /\ UNCHANGED <<memory, disk, counts, settled, safe>>

\* The insertion replaces whatever the session has become meanwhile.
Insert(c) ==
    /\ pc[c] = "insert"
    /\ live' = TRUE /\ mem' = copy[c].hist
    /\ Goto(c, "hydrate")
    /\ settled' = FALSE
    /\ UNCHANGED <<items, cache, disk, op, copy, counts, alone, safe, token>>

\* hydrate_context_items_from_checkpoint loads once more, sets the items, then
\* the cache.
Hydrate(c) ==
    /\ pc[c] = "hydrate"
    /\ IF Verifies
       THEN Carry(c, Loaded) /\ items' = ckpt.items /\ Goto(c, "fill") /\ UNCHANGED op
       ELSE Done(c) /\ UNCHANGED items
    /\ settled' = FALSE
    /\ UNCHANGED <<live, mem, cache, disk, counts, alone, safe, token>>

FillCache(c) ==
    /\ pc[c] = "fill"
    /\ cache' = Checkpoint("whole", copy[c])
    /\ Done(c)
    /\ settled' = FALSE
    /\ UNCHANGED <<live, mem, items, disk, counts, alone, safe, token>>

\* context_cache_bundle: a miss loads the checkpoint, then inserts.
MissCache(c) ==
    /\ cache.file = "none" /\ Verifies
    /\ Enter(c, "read", "fill")
    /\ Carry(c, Loaded)
    /\ UNCHANGED <<memory, disk, counts, settled, safe>>

-----------------------------------------------------------------------------
(* bind_continuation, named_snapshot *)

\* annotate_continuation: the checkpoint as loaded, with another token and the
\* same evidence_ref.  The cache is not told.
Bind(c) ==
    /\ binds < MaxBinds /\ Verifies
    /\ Enter(c, "bind", "ckpt")
    /\ Carry(c, [Loaded EXCEPT !.cont = binds + 1])
    /\ binds' = binds + 1
    /\ UNCHANGED <<memory, disk, pushed, faults, settled, safe>>

\* A named snapshot finds no checkpoint and makes one of the session in memory.
NamedSnapshot(c) ==
    /\ ckpt.file = "none"
    /\ Enter(c, "snapshot", "history")
    /\ UNCHANGED <<memory, disk, copy, counts, settled, safe>>

\* The history, under the read lock of `inner`: without a session there is
\* nothing to save.
SnapshotHistory(c) ==
    /\ pc[c] = "history"
    /\ IF live THEN /\ Carry(c, [NoCopy EXCEPT !.hist = mem])
                    /\ Goto(c, "items") /\ UNCHANGED op
               ELSE Done(c)
    /\ UNCHANGED <<memory, disk, counts, alone, settled, safe, token>>

\* The items, under the read lock of `context_items`, which may by now be of a
\* later history.
SnapshotItems(c) ==
    /\ pc[c] = "items"
    /\ Carry(c, [copy[c] EXCEPT !.items = items])
    /\ Goto(c, "load")
    /\ UNCHANGED <<memory, disk, op, counts, alone, settled, safe, token>>

-----------------------------------------------------------------------------
\* The process stops, files being written may be cut off, and it starts again.
Restart ==
    /\ faults < MaxFaults
    /\ faults' = faults + 1
    /\ saved' \in {saved} \cup { Conversation("torn", {}) : c \in At("save") }
    /\ ckpt' \in {ckpt} \cup { Checkpoint("torn", NoCopy) : c \in At("ckpt") }
    /\ evid' \in {evid} \cup { EvidenceRecord("torn", {}) : c \in At("evid") }
    /\ live' = FALSE /\ mem' = {} /\ items' = {} /\ cache' = Checkpoint("none", NoCopy)
    /\ pc' = [c \in Clients |-> "idle"]
    /\ op' = [c \in Clients |-> "none"]
    /\ copy' = [c \in Clients |-> NoCopy]
    /\ token' = IF Busy = {} THEN token ELSE 0
    /\ alone' = {} /\ settled' = FALSE
    /\ UNCHANGED <<pushed, binds, safe>>

ClientStep(c) ==
    \/ Push(c) \/ SaveConversation(c) \/ PushItem(c) \/ LoadPrevious(c)
    \/ WriteCheckpoint(c) \/ WriteEvidence(c) \/ WriteCache(c) \/ WriteFails(c)
    \/ Restore(c) \/ Insert(c) \/ Hydrate(c) \/ FillCache(c) \/ MissCache(c)
    \/ Bind(c) \/ NamedSnapshot(c) \/ SnapshotHistory(c) \/ SnapshotItems(c)

SessionNext == (\E c \in Clients : ClientStep(c)) \/ Restart

SessionSpec == SessionInit /\ [][SessionNext]_sessionVars

-----------------------------------------------------------------------------
(* Properties. *)

Places == {"idle", "save", "item", "load", "ckpt", "evid", "cache",
           "insert", "hydrate", "fill", "history", "items"}
Ops    == {"none", "append", "restore", "read", "bind", "snapshot"}

\* Histories made of pushed messages, and the records that hold them.
Histories   == SUBSET { m \in Message : m.id <= pushed }
Copies      == [hist : Histories, items : Histories, cont : Tokens]
Checkpoints == [file : Files, hist : Histories, items : Histories, cont : Tokens]

\* Shapes; every message in memory, in a file or in a copy has been pushed.
SessionTypeOK ==
    /\ live \in BOOLEAN /\ mem \in Histories /\ items \in Histories
    /\ cache \in Checkpoints /\ ckpt \in Checkpoints
    /\ saved \in [file : Files, hist : Histories]
    /\ evid \in [file : Files, ref : Histories]
    /\ pc \in [Clients -> Places] /\ op \in [Clients -> Ops]
    /\ copy \in [Clients -> Copies]
    /\ pushed \in 0 .. MaxMessages /\ binds \in Tokens /\ faults \in 0 .. MaxFaults
    /\ alone \subseteq Clients /\ settled \in BOOLEAN
    /\ safe \in Histories /\ token \in Tokens

\* An append that ran alone repairs what overlapping saves, failed writes and
\* restarts left behind: the checkpoint verifies again, and memory, items and
\* cache are what it holds.
AloneAppendRepairs ==
    settled => /\ Verifies /\ ckpt.hist = mem /\ ckpt.items = items
               /\ cache = ckpt
               /\ Clean(mem) # {} => saved = Conversation("whole", Clean(mem))

\* A message that an append which ran alone has left in the files stays: whatever
\* appends, restores, binds and snapshots overlap and wherever the process stops,
\* it is in memory, in the checkpoint and, if it is not a tool message, in the
\* saved conversation.  The exceptions are the code's own: an append that is the
\* first operation after a restart starts from the saved conversation, which has
\* no tool messages, and nothing at all when its last write was cut off.
SettledMessagesStay ==
    /\ live => safe \subseteq mem
    /\ ckpt.file = "whole" => safe \subseteq ckpt.hist
    /\ saved.file # "torn" => Clean(safe) \subseteq saved.hist

\* A continuation bound without company survives every append and restart that
\* has no company either: no save forgets it.
ContinuationKept ==
    token # 0 => /\ ckpt.file = "whole" /\ ckpt.cont = token
                 /\ Verifies \/ \E c \in alone : pc[c] = "evid"

\* What append_message and bind_continuation have settled stays: the messages and
\* the continuation, through overlaps, failed writes and restarts.
SettledStateStays == SettledMessagesStay /\ ContinuationKept
=============================================================================
