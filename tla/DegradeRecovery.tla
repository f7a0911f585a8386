---------------------------- MODULE DegradeRecovery ----------------------------
(***************************************************************************)
(* Degrade profiles, failover records and recovery of one session          *)
(* (src/runtime/mod.rs): the runtime degrades a session when a provider or *)
(* an MCP call fails or its queue is congested, an operator degrades and   *)
(* recovers it, and execute refuses the calls the active profile forbids.  *)
(*                                                                         *)
(* The store holds two things: one row for the active profile, which every *)
(* degrade overwrites, and failover rows keyed by the time of the write,   *)
(* so that two writes of one millisecond share a row.  apply and recover   *)
(* are sequences of store calls with no lock; a step is one store call,    *)
(* and either sequence may stop after any of them (a store error, or the   *)
(* caller's timeout).  Recovery plans and events are written and never     *)
(* read, and are left out, and so is the self-heal drill, which is a       *)
(* degrade followed by a recover of the same actor.                        *)
(***************************************************************************)
EXTENDS Integers, FiniteSetsExt

CONSTANTS
    Actors,     \* concurrent calls of execute, swarms and operator commands
    LastStart,  \* bound: the last time at which a degrade or recovery begins
    Horizon,    \* bound: the clock stops when every profile has expired
    Life        \* the lifetime of each kind of profile that expires

Kinds == {"Normal", "ProviderFallback", "McpConservative", "ReadOnly", "QueueThrottle",
          "ManualTakeover"}

\* Only the manual takeover has no expires_at_ms.
Expiring == Kinds \ {"ManualTakeover"}

ASSUME DegradeAssumption ==
    /\ LastStart \in Nat
    /\ Horizon \in Nat
    /\ Life \in [Expiring -> Nat \ {0}]
    /\ \A k \in Expiring : LastStart + Life[k] <= Horizon

Never == -1     \* expires_at_ms: None
NoTime == -1    \* no failover record
NoRow == [started |-> NoTime, recovered |-> TRUE]

Times == 0..Horizon

Capabilities == {"provider", "mcp", "tool"}

VARIABLES
    now,        \* current_time_ms()
    active,     \* the row runtime:degrade:{session}:active
    failover,   \* the rows runtime:failover:{session}:{time}
    actor,      \* where each actor is
    takeover,   \* history: an operator's manual takeover no operator has ended
    disturbed   \* history: two sequences of writes overlapped, or one stopped half way

vars == <<now, active, failover, actor, takeover, disturbed>>

Cleared == [kind |-> "cleared", since |-> NoTime, until |-> NoTime]

Resting == [at |-> "rest", kind |-> "cleared", operator |-> FALSE, time |-> NoTime,
            found |-> NoTime]

\* The stages of apply_degrade_profile and of recover_from_degrade.
Writing == {"activating", "recording", "listing", "marking", "clearing"}

-----------------------------------------------------------------------------
(* The active profile and what it allows *)

\* active_degrade_profile: the row parses as a profile and has not expired.
Active == active # Cleared /\ (active.until = Never \/ active.until > now)

\* The flags of degrade_profile_from_kind; no profile forbids provider calls.
ReadOnlyMode == {"ReadOnly", "ManualTakeover"}
NoMcpCalls == {"McpConservative", "ReadOnly", "ManualTakeover"}

\* The gate of execute; a call in flight is an actor at its capability.
Allows(c) ==
    Active => /\ c = "provider" \/ active.kind \notin ReadOnlyMode
              /\ c = "mcp" => active.kind \notin NoMcpCalls

\* A profile that outlives its fault.
ProfileLasting(kind, time) ==
    [kind |-> kind, since |-> time, until |-> Never]

Profile(kind, time) ==
    [kind |-> kind, since |-> time,
     until |-> IF kind \in Expiring THEN time + Life[kind] ELSE Never]

-----------------------------------------------------------------------------
Init ==
    /\ now = 0
    /\ active = Cleared
    /\ failover = [t \in Times |-> NoRow]
    /\ actor = [a \in Actors |-> Resting]
    /\ takeover = FALSE
    /\ disturbed = FALSE

Tick ==
    /\ now + 1 \in Times
    /\ now' = now + 1
    /\ UNCHANGED <<active, failover, actor, takeover, disturbed>>

Rests(a) == actor' = [actor EXCEPT ![a] = Resting]

Becomes(a, stage) == actor' = [actor EXCEPT ![a].at = stage]

\* A sequence of writes begins while another one is under way.
Overlaps(a) == \E b \in Actors \ {a} : actor[b].at \in Writing

-----------------------------------------------------------------------------
(* apply_degrade_profile *)

Degrade(a, kind, operator) ==
    /\ now <= LastStart
    /\ actor' = [actor EXCEPT ![a] =
            [at |-> "activating", kind |-> kind, operator |-> operator, time |-> now,
             found |-> NoTime]]
    /\ disturbed' = (disturbed \/ Overlaps(a))
    /\ UNCHANGED <<now, active, failover, takeover>>

\* ops degrade and ops chaos.
OperatorDegrades(a, kind) ==
    actor[a].at = "rest" /\ Degrade(a, kind, TRUE)

\* execute_swarm has more tasks than four times its parallel agents.
QueueCongested(a) ==
    actor[a].at = "rest" /\ Degrade(a, "QueueThrottle", FALSE)

WriteProfile(a) ==
    /\ actor[a].at = "activating"
    /\ active' = Profile(actor[a].kind, actor[a].time)
    /\ takeover' = IF actor[a].operator THEN actor[a].kind = "ManualTakeover" ELSE takeover
    /\ Becomes(a, "recording")
    /\ UNCHANGED <<now, failover, disturbed>>

WriteFailover(a) ==
    /\ actor[a].at = "recording"
    /\ failover' = [failover EXCEPT ![actor[a].time] =
            [started |-> actor[a].time, recovered |-> FALSE]]
    /\ Rests(a)
    /\ UNCHANGED <<now, active, takeover, disturbed>>

-----------------------------------------------------------------------------
(* The calls that execute admits *)

Admit(a, c) ==
    /\ actor[a].at = "rest"
    /\ Allows(c)
    /\ Becomes(a, c)
    /\ UNCHANGED <<now, active, failover, takeover, disturbed>>

CallEnds(a) ==
    /\ actor[a].at \in Capabilities
    /\ Rests(a)
    /\ UNCHANGED <<now, active, failover, takeover, disturbed>>

\* The profile was read before the call; the failure degrades whatever is active now.
ProviderFails(a) ==
    actor[a].at = "provider" /\ Degrade(a, "ProviderFallback", FALSE)

McpFails(a) ==
    actor[a].at = "mcp" /\ Degrade(a, "McpConservative", FALSE)

-----------------------------------------------------------------------------
(* recover_from_degrade *)

BeginRecover(a) ==
    /\ actor[a].at = "rest"
    /\ Active
    /\ now <= LastStart
    /\ actor' = [actor EXCEPT ![a] = [Resting EXCEPT !.at = "listing", !.time = now]]
    /\ disturbed' = (disturbed \/ Overlaps(a))
    /\ UNCHANGED <<now, active, failover, takeover>>

Open == {t \in Times : ~failover[t].recovered}

\* Takes the record that started first.
LatestFirst == IF Open = {} THEN NoTime ELSE Min({failover[t].started : t \in Open})

\* The open record that started last, if there is one.
Latest == IF Open = {} THEN NoTime ELSE Max({failover[t].started : t \in Open})

ListFailovers(a) ==
    /\ actor[a].at = "listing"
    /\ actor' = [actor EXCEPT ![a] =
            [Resting EXCEPT !.at = IF Open = {} THEN "clearing" ELSE "marking",
                            !.time = actor[a].time, !.found = Latest]]
    /\ UNCHANGED <<now, active, failover, takeover, disturbed>>

\* The record is stored under the time of the recovery, not under its own.
WriteRecovered(a) ==
    /\ actor[a].at = "marking"
    /\ failover' = [failover EXCEPT ![actor[a].time] =
            [started |-> actor[a].found, recovered |-> TRUE]]
    /\ Becomes(a, "clearing")
    /\ UNCHANGED <<now, active, takeover, disturbed>>

Clear(a) ==
    /\ actor[a].at = "clearing"
    /\ active' = Cleared
    /\ takeover' = FALSE
    /\ Rests(a)
    /\ UNCHANGED <<now, failover, disturbed>>

\* A store error or a dropped caller between two writes.
Stops(a) ==
    /\ actor[a].at \in Writing
    /\ Rests(a)
    /\ disturbed' = TRUE
    /\ UNCHANGED <<now, active, failover, takeover>>

-----------------------------------------------------------------------------
Acts(a) ==
    \/ \E k \in Kinds : OperatorDegrades(a, k)
    \/ QueueCongested(a)
    \/ \E c \in Capabilities : Admit(a, c)
    \/ CallEnds(a) \/ ProviderFails(a) \/ McpFails(a)
    \/ WriteProfile(a) \/ WriteFailover(a)
    \/ BeginRecover(a) \/ ListFailovers(a) \/ WriteRecovered(a) \/ Clear(a) \/ Stops(a)

Next == Tick \/ \E a \in Actors : Acts(a)

Spec == Init /\ [][Next]_vars

\* Time passes, and a sequence of writes that has begun goes on or stops.
Proceeds(a) ==
    \/ WriteProfile(a) \/ WriteFailover(a) \/ ListFailovers(a) \/ WriteRecovered(a)
    \/ Clear(a) \/ Stops(a)

FairSpec == Spec /\ WF_vars(Tick) /\ \A a \in Actors : WF_vars(Proceeds(a))

-----------------------------------------------------------------------------
Moments == Times \cup {NoTime}

\* The types of the state; a stored failover record has a start.
TypeOK ==
    /\ now \in Times
    /\ active \in [kind : Kinds \cup {"cleared"}, since : Moments, until : Moments]
    /\ failover \in [Times -> [started : Times, recovered : BOOLEAN] \cup {NoRow}]
    /\ actor \in [Actors -> [at : Writing \cup Capabilities \cup {"rest"},
                             kind : Kinds \cup {"cleared"}, operator : BOOLEAN,
                             time : Moments, found : Moments]]
    /\ takeover \in BOOLEAN
    /\ disturbed \in BOOLEAN

(***************************************************************************)
(* A recovery marks the failover of the profile it clears, unless two      *)
(* sequences of writes have overlapped or one has stopped half way.        *)
(* Earlier failovers stay open in the store and must not be taken instead. *)
(***************************************************************************)
RecoversWhatItClears ==
    ~disturbed => \A a \in Actors : actor[a].at \in {"marking", "clearing"} =>
        active.since = actor[a].found

(***************************************************************************)
(* A session does not stay degraded: again and again MCP calls are allowed *)
(* or the profile is a manual takeover, whatever the degrades and          *)
(* recoveries overwrite.                                                   *)
(***************************************************************************)
ServiceReturns ==
    []<>(Allows("mcp") \/ active.kind = "ManualTakeover")

(***************************************************************************)
(* The recovery plan of a manual takeover: resume only after manual        *)
(* approval.  No tool or MCP call is admitted between an operator's manual *)
(* takeover and an operator's recovery or other profile.  The code breaks  *)
(* it: a failing provider call replaces the takeover by its own profile.   *)
(***************************************************************************)
ResumeOnlyAfterApproval ==
    [][\A a \in Actors : Admit(a, "tool") \/ Admit(a, "mcp") => ~takeover]_vars
=============================================================================
