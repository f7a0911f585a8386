---------------------------- MODULE EvidenceChain ----------------------------
(***************************************************************************)
(* The stage evidence of one session and trace                             *)
(* (runtime/evidence_ledger.rs): a chain of records that writers append    *)
(* through the state store with no lock around the read of the latest      *)
(* record and the write of the next.                                       *)
(*                                                                         *)
(* A record hash is modelled by what it digests: the previous hash, the     *)
(* time stamp and the payload, here the writer.                            *)
(***************************************************************************)
EXTENDS Naturals, Sequences, FiniteSets, SequencesExt

CONSTANTS Writers,        \* tasks that append stages
          MaxAppends,     \* bound: calls of append_stage
          MaxClock,       \* bound: the last millisecond
          FirstSeq        \* EVIDENCE_SEQ when the trace begins

\* The sequence number is part of a key that is sorted as a string: SeqRank
\* covers numbers of one and two digits.
ASSUME ChainConstants == FirstSeq \in 1 .. 98 /\ MaxAppends \in 0 .. 98 - FirstSeq
                         /\ MaxClock \in Nat

VARIABLES now,            \* current_time_ms
          seq,            \* EVIDENCE_SEQ
          appends,        \* calls of append_stage so far
          stored,         \* the records under evidence:stage:<session>:<trace>:
          writer,         \* what each writer is doing, with its locals
          audits,         \* prev_hash_mismatch rows
          contended       \* history: two appends were under way at once

chainVars == <<now, seq, appends, stored, writer, audits, contended>>

GenesisHash == <<>>
NoHash      == <<"none">>
NoAppend    == [at |-> "idle", time |-> 0, given |-> NoHash, prev |-> NoHash]

StageHash(prev, time, payload) == <<prev, time, payload>>

-----------------------------------------------------------------------------
\* The place of ":<seq>:" among the keys of one millisecond, two characters of
\* base 11: the colon that ends a short number sorts after every digit.
SeqRank(n) == IF n < 10 THEN 11 * n + 10 ELSE 11 * (n \div 10) + (n % 10)

\* list_stage_records: the keys in the order of the strings, then a stable sort
\* by created_at_ms.
ListedBefore(a, b) ==
    a.time < b.time \/ (a.time = b.time /\ SeqRank(a.seq) < SeqRank(b.seq))

ListStageRecords ==
    CHOOSE s \in SetToSeqs(stored) :
        \A i, j \in DOMAIN s : i < j => ListedBefore(s[i], s[j])

\* Mutant: the first record of the list.
LatestHashFirst ==
    IF stored = {} THEN {GenesisHash}
    ELSE { r.hash : r \in { q \in stored : \A p \in stored : ~ListedBefore(p, q) } }

\* The hash of the latest_stage_record, or "genesis": a set of one.
LatestHash ==
    IF stored = {} THEN {GenesisHash}
    ELSE { r.hash : r \in { q \in stored : \A p \in stored : ~ListedBefore(q, p) } }

\* verify_stage_chain: every record names the hash of the one listed before it,
\* and has the hash of its own content.
VerifyStageChain ==
    LET records == ListStageRecords
    IN \A i \in DOMAIN records :
           /\ records[i].prev = IF i = 1 THEN GenesisHash ELSE records[i - 1].hash
           /\ records[i].hash = StageHash(records[i].prev, records[i].time, records[i].body)

-----------------------------------------------------------------------------
ChainInit ==
    /\ now = 0 /\ seq = FirstSeq /\ appends = 0
    /\ stored = {} /\ audits = 0 /\ contended = FALSE
    /\ writer = [w \in Writers |-> NoAppend]

Tick ==
    /\ now < MaxClock
    /\ now' = now + 1
    /\ UNCHANGED <<seq, appends, stored, writer, audits, contended>>

\* append_stage up to its first await: the time stamp is taken before the
\* latest record is read.  A caller may name the hash it expects.
BeginAppend(w) ==
    /\ writer[w].at = "idle" /\ appends < MaxAppends
    /\ \E given \in {NoHash, GenesisHash, <<"unknown">>} \cup { r.hash : r \in stored } :
          writer' = [writer EXCEPT ![w] = [at |-> "read", time |-> now, given |-> given,
                                           prev |-> NoHash]]
    /\ appends' = appends + 1
    /\ contended' = (contended \/ \E v \in Writers : writer[v].at # "idle")
    /\ UNCHANGED <<now, seq, stored, audits>>

\* The read of the latest record.  An expectation that does not match it is
\* audited, and the append refused.
ReadLatest(w) ==
    /\ writer[w].at = "read"
    /\ \E expected \in LatestHash :
          \/ /\ writer[w].given \in {NoHash, expected}
             /\ writer' = [writer EXCEPT ![w] = [at |-> "write", time |-> writer[w].time,
                                                 given |-> NoHash, prev |-> expected]]
             /\ UNCHANGED audits
          \/ /\ writer[w].given \notin {NoHash, expected}
             /\ writer' = [writer EXCEPT ![w] = NoAppend]
             /\ audits' = audits + 1
    /\ UNCHANGED <<now, seq, appends, stored, contended>>

StageRecord(w) ==
    [time |-> writer[w].time, seq |-> seq, prev |-> writer[w].prev, body |-> w,
     hash |-> StageHash(writer[w].prev, writer[w].time, w)]

\* Mutant: the key ends with the stage, and concurrent writers share it.
PutRecordOver(w) ==
    /\ writer[w].at = "write"
    /\ seq' = seq + 1
    /\ stored' = { r \in stored : <<r.time, r.prev>> # <<writer[w].time, writer[w].prev>> }
                 \cup {StageRecord(w)}
    /\ writer' = [writer EXCEPT ![w] = NoAppend]
    /\ UNCHANGED <<now, appends, audits, contended>>

\* The record is stored under a key of its own.
PutRecord(w) ==
    /\ writer[w].at = "write"
    /\ seq' = seq + 1
    /\ stored' = stored \cup {StageRecord(w)}
    /\ writer' = [writer EXCEPT ![w] = NoAppend]
    /\ UNCHANGED <<now, appends, audits, contended>>

\* The store fails: the listing, or the upsert after its number was taken.
AppendAborted(w) ==
    /\ writer[w].at # "idle"
    /\ seq' = IF writer[w].at = "write" THEN seq + 1 ELSE seq
    /\ writer' = [writer EXCEPT ![w] = NoAppend]
    /\ UNCHANGED <<now, appends, stored, audits, contended>>

ChainNext ==
    \/ Tick
    \/ \E w \in Writers : BeginAppend(w) \/ ReadLatest(w) \/ PutRecord(w) \/ AppendAborted(w)

ChainSpec == ChainInit /\ [][ChainNext]_chainVars

-----------------------------------------------------------------------------
(* Properties. *)

\* Shapes; no two records share a key.
ChainTypeOK ==
    /\ now \in 0 .. MaxClock /\ appends \in 0 .. MaxAppends
    /\ seq \in Nat /\ seq >= FirstSeq /\ audits \in Nat
    /\ DOMAIN writer = Writers
    /\ \A w \in Writers : writer[w].at \in {"idle", "read", "write"}
    /\ \A a, b \in stored : a.time = b.time /\ a.seq = b.seq => a = b

\* The keys of two records of one millisecond sort against their order: a
\* sequence number got a digit more.
KeysOutOfOrder ==
    \E a, b \in stored : /\ a.time = b.time /\ a.seq < b.seq
                         /\ SeqRank(a.seq) > SeqRank(b.seq)

\* verify_stage_chain accepts what append_stage wrote, whatever failed or was
\* refused, unless two appends overlapped (both then hang on one record, or the
\* one with the older time stamp is listed first) or a sequence number gained a
\* digit within one millisecond.
ChainVerifies == contended \/ KeysOutOfOrder \/ VerifyStageChain

\* The ledger is a WORM log: whatever overlaps or fails, a stored record stays as
\* it is, and each one hangs on "genesis" or on a record stored before it: neither
\* a refused expectation nor a race leaves one that leads nowhere.
Worm == INSTANCE WormLog WITH log <- stored, Root <- GenesisHash
WormLedger == Worm!LogSpec
=============================================================================
