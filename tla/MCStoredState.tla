----------------------------- MODULE MCStoredState -----------------------------
(***************************************************************************)
(* The components that keep rows, files and records, for TLC: a swarm's     *)
(* audit trail, the session store, the plugin registry, remote sessions,    *)
(* the supermemory queue, the patch review queue, the flow map, the         *)
(* evidence ledger and the store behind a mirror.  They share no state, so  *)
(* a behaviour is one of one of them: `store` says of which, the others     *)
(* stay as they began.                                                      *)
(***************************************************************************)
EXTENDS SwarmWorkflow, SessionStore, PluginLifecycle, RemoteSession, SupermemoryQueue,
        PatchReview, FlowState, EvidenceChain, StateMirror

CONSTANTS c1, c2, o1, o2, p1, p2, a1, a2, r1, r2, u1, u2, w1, w2

VARIABLE store

MCInit ==
    /\ store \in {"swarm", "session", "plugin", "remote", "queue", "review", "flow", "chain",
                  "mirror"}
    /\ SwarmInit /\ SessionInit /\ PluginInit /\ RemoteInit
    /\ QueueInit /\ ReviewInit /\ FlowInit /\ ChainInit /\ MirrorInit
    /\ store # "mirror" =>
          kind = "plain" /\ mode = "none" /\ pref = "Postgres" /\ ~sampled /\ ~window

\* The state of all components but c is left alone.
Rest(c) ==
    /\ store = c
    /\ c # "swarm"   => UNCHANGED swarmVars
    /\ c # "session" => UNCHANGED sessionVars
    /\ c # "plugin"  => UNCHANGED pluginVars
    /\ c # "remote"  => UNCHANGED remoteVars
    /\ c # "queue"   => UNCHANGED queueVars
    /\ c # "review"  => UNCHANGED reviewVars
    /\ c # "flow"    => UNCHANGED flowVars
    /\ c # "chain"   => UNCHANGED chainVars
    /\ c # "mirror"  => UNCHANGED mirrorVars
    /\ UNCHANGED store

MCNext ==
    \/ Rest("swarm")   /\ SwarmNext
    \/ Rest("session") /\ SessionNext
    \/ Rest("plugin")  /\ PluginNext
    \/ Rest("remote")  /\ RemoteNext
    \/ Rest("queue")   /\ QueueNext
    \/ Rest("review")  /\ ReviewNext
    \/ Rest("flow")    /\ FlowNext
    \/ Rest("chain")   /\ ChainNext
    \/ Rest("mirror")  /\ MirrorNext

mcVars == <<store, swarmVars, sessionVars, pluginVars, remoteVars, queueVars, reviewVars,
            flowVars, chainVars, mirrorVars>>

MCSpec == MCInit /\ [][MCNext]_mcVars

-----------------------------------------------------------------------------
(* Properties of several components. *)

\* The types of all components: no operation leaves a row, a file or a counter it
\* cannot read back.
StoredTypesOK ==
    /\ SwarmTypeOK /\ SessionTypeOK /\ PluginTypeOK /\ RemoteTypeOK
    /\ QueueTypeOK /\ ReviewTypeOK /\ FlowTypeOK /\ ChainTypeOK /\ MirrorTypeOK

\* What the store says is what the process has: the plugin's row and index, the
\* status row of the bridge and the views of the flow map, once an operation that
\* nothing overlapped has gone through, whatever failed or crashed before.
RowsFollowState == StoredFollowsRecord /\ StatusRowCurrent /\ ViewsFollowMap
================================================================================
