------------------------------- MODULE WormLog -------------------------------
(***************************************************************************)
(* What an evidence ledger promises (runtime/evidence_ledger.rs calls it    *)
(* WORM, write once and read many): records are added one at a time, each  *)
(* hanging on the root or on one that is already there, and nothing that    *)
(* was added is changed or removed.                                        *)
(***************************************************************************)
CONSTANT Root             \* the hash the first record names

VARIABLE log              \* a set of records with the fields prev and hash

LogInit == log = {}

AddRecord(r) ==
    /\ r \notin log
    /\ r.prev = Root \/ \E p \in log : p.hash = r.prev
    /\ log' = log \cup {r}

LogNext == \E r \in log' : AddRecord(r)

LogSpec == LogInit /\ [][LogNext]_log
=============================================================================
