---------------------------- MODULE MCPeerQueueLive ----------------------------
(* The liveness of PeerQueue under two fsync policies in one run: a behaviour    *)
(* keeps the policy it starts with, and each policy has failures of its own.     *)
EXTENDS Naturals, Sequences, Functions

CONSTANTS Writers, CheckpointEvery

VARIABLES policy, pending, open, writes, needCkpt, synced, token, pc, step, want, target,
          stale, batch, stored, cached, torn, hole, alt, base, nops, answered, taken,
          nfault, ncrash

AnyFault == {"open", "write", "shortwrite", "fsync", "checkpoint", "dirsync"}

A == INSTANCE PeerQueue WITH Policy <- "always", MaxOps <- 2, MaxBatch <- 1, Faults <- {"fsync"},
         MaxFaults <- 1, Crashes <- {"kill"}, MaxCrashes <- 1
E == INSTANCE PeerQueue WITH Policy <- "everysec", MaxOps <- 2, MaxBatch <- 2, Faults <- AnyFault,
         MaxFaults <- 2, Crashes <- {}, MaxCrashes <- 0

vars == <<policy, A!vars>>

\* The step of the policy that this behaviour has.
Under(always, everysec) ==
    /\ UNCHANGED policy
    /\ \/ policy = "always" /\ always
       \/ policy = "everysec" /\ everysec

Init == policy \in {"always", "everysec"} /\ A!Init
Next == Under(A!Next, E!Next)

\* The fairness of PeerQueue.  Under always the peer, too, is one that answers.
FairSpec ==
    /\ Init /\ [][Next]_vars
    /\ \A c \in A!Caller : /\ WF_vars(Under(A!Checkpoint(c), E!Checkpoint(c)))
                           /\ SF_vars(Under(A!Sync(c), E!Sync(c)))
    /\ SF_vars(Under(A!SyncAll, E!SyncAll))
    /\ SF_vars(Under(A!Wake \/ A!PeekBatch, E!Wake \/ E!PeekBatch))
    /\ SF_vars(Under(A!AckN, E!AckN))
    /\ SF_vars(Under(A!Deliver, FALSE))

\* README.md:376, "The queue is fsynced as db.fsync says": under everysec a queued
\* write reaches the disk with no further write, also one whose append failed, unless
\* the peer takes it or the process dies first (syncAll).
EventuallyOnDisk ==
    \A op \in 1..2 :
        (policy = "everysec" /\ E!Up /\ op \in Range(pending))
            ~> (~E!Up \/ op \in taken \/ \A f \in E!Survivors : op \in Range(E!Replay(f).ops))

\* README.md:377, "A peer that cannot be reached is retried until it comes back": the
\* queue drains to a peer that can be reached (run, deliver, signal).
QueueDrains == (policy = "always" /\ pending # <<>>) ~> (pending = <<>>)
================================================================================
