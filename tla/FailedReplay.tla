---------------------------- MODULE FailedReplay ----------------------------
(***************************************************************************)
(* POST /executions/:id/replay, replayFailedExecution: read the execution, *)
(* check that it failed, save a ReplayHistory row, set the execution to    *)
(* queued and add a job for its event.  Each await is a step; nothing      *)
(* holds the execution between the check and the reset.                    *)
(***************************************************************************)
EXTENDS EngineStore

CONSTANT Replays \* replay requests

VARIABLE replay \* replay request -> how far it got, and its execution

replayVars == <<replay>>

ReplayPc == {"idle", "checked", "logged", "reset", "enqueued",
             "rejected", "error", "lost"}

ReplayTypeOK == replay \in [Replays -> [pc: ReplayPc, exec: Nat]]

ReplayInit == replay = [p \in Replays |-> [pc |-> "idle", exec |-> 0]]

Replaying(p) == replay[p].pc \in {"checked", "logged", "reset"}

Advance(p, pc) == replay' = [replay EXCEPT ![p].pc = pc]

ReplayedEvent(p) == executions[replay[p].exec].event

\* findById and the status check, for an execution the caller names.
CheckFailed(p, x) ==
    /\ replay[p].pc = "idle"
    /\ tenantActive
    /\ replay' = [replay EXCEPT ![p] =
                    [pc |-> IF executions[x].status = "failed" THEN "checked"
                                                               ELSE "rejected",
                     exec |-> x]]
    /\ UNCHANGED storeVars

\* The event is there (nothing deletes events); the history row is saved.
SaveHistory(p) ==
    /\ replay[p].pc = "checked"
    /\ Advance(p, "logged")
    /\ UNCHANGED storeVars

\* The reason is required and its body is not validated, so ReplayHistory's
\* schema is the first to look at it: a 500, and nothing was changed.
RefuseReason(p) ==
    /\ replay[p].pc = "checked"
    /\ Advance(p, "error")
    /\ UNCHANGED storeVars

\* Mutant: the status of a new webhook event, which executions do not have.
ResetToPending(p) ==
    /\ replay[p].pc = "logged"
    /\ CompleteExecution(replay[p].exec, "pending")
    /\ Advance(p, "reset")
    /\ UNCHANGED <<adminVars, events, queueVars, mishaps>>

ResetExecution(p) ==
    /\ replay[p].pc = "logged"
    /\ CompleteExecution(replay[p].exec, "queued")
    /\ Advance(p, "reset")
    /\ UNCHANGED <<adminVars, events, queueVars, mishaps>>

Requeue(p) ==
    /\ replay[p].pc = "reset"
    /\ AddJob(ReplayedEvent(p), "replay")
    /\ Advance(p, "enqueued")
    /\ UNCHANGED <<adminVars, events, executions, mishaps>>

\* A database call or Queue.add rejects; nothing is undone.
ReplayFault(p) ==
    /\ \/ replay[p].pc \in {"checked", "logged"} /\ Suffer("dbFault")
          /\ UNCHANGED queueVars
       \/ replay[p].pc = "reset" /\ Suffer("queueFault")
          /\ (AddJob(ReplayedEvent(p), "replay") \/ UNCHANGED queueVars)
    /\ Advance(p, "error")
    /\ UNCHANGED <<adminVars, events, executions>>

ReplayNext ==
    \E p \in Replays :
        \/ \E x \in DOMAIN executions : CheckFailed(p, x)
        \/ SaveHistory(p) \/ RefuseReason(p) \/ ResetExecution(p) \/ Requeue(p) \/ ReplayFault(p)

=============================================================================
