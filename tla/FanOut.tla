------------------------------- MODULE FanOut --------------------------------
(***************************************************************************)
(* One fan-out of the workflow engine (pkg/runtime): the branch goroutines *)
(* of a router, the semaphore that bounds them, the collector that joins   *)
(* them, and the durable checkpoint from which a later invocation of the   *)
(* same router resumes after a human pause, a failure, a cancellation or   *)
(* the death of the process.                                               *)
(*                                                                         *)
(* A branch's path through the workflow is unrolled: Prog[b] lists the     *)
(* kinds of the nodes it visits, loop iterations included, and a cursor is *)
(* a position in it.  Position End(b) is the convergence node.             *)
(* A host runs at most one invocation of a run at a time (the run's lock,  *)
(* or its lease: see RunDelivery).                                         *)
(***************************************************************************)
EXTENDS Naturals, Sequences, FiniteSets

CONSTANTS
    Branches,        \* the branches of the router
    None,            \* no branch
    Saver,           \* the coalescing saver's goroutine
    Prog,            \* Prog[b]: the kinds of the nodes branch b visits
    MaxParallel,     \* max_parallel_branches
    WaitAll,         \* TRUE: the convergence node awaits all, FALSE: best_effort
    Coalesce,        \* TRUE: loop crossings ride the save window
    Faults,          \* the disturbances the instance admits
    MaxInvocations   \* bound on how often the router is entered

\* "work" is a node an executor runs; "loop" is one whose outgoing edge is a
\* loop or foreach crossing; "human" a gate; "wait"/"emit" the event nodes.
Kinds == {"work", "loop", "human", "wait", "emit"}

FaultKinds == {"fail", "budget", "panic", "undecided", "invalid", "timeout",
               "wedge", "cancel", "crash", "store"}

ASSUME BranchesAssumption ==
    /\ IsFiniteSet(Branches)
    /\ None \notin Branches
    /\ Saver \notin Branches
    /\ Saver # None

ASSUME ProgAssumption == Prog \in [Branches -> Seq(Kinds)]

ASSUME ParametersAssumption ==
    /\ MaxParallel \in Nat \ {0}
    /\ MaxInvocations \in Nat
    /\ {WaitAll, Coalesce} \subseteq BOOLEAN
    /\ Faults \subseteq FaultKinds

VARIABLES
    doc,        \* the run document: status, parallel checkpoint, fired event,
                \* whether the checkpoint carries the pause's interaction id
    mem,        \* parallelExecutionState.cp
    retired,    \* parallelExecutionState.retired
    turn,       \* the resume barrier: whose turn, armed, its channel closed
    dirty,      \* a loop crossing is not yet written (dirtyGen > writtenGen), and
                \* whether the saver has been kicked for it
    lock,       \* the holder of saveMu
    snap,       \* the snapshot each holder is about to write
    branch,     \* each branch goroutine: pc, position, result, answers, gate
    held,       \* the branches that hold a semaphore slot
    fired,      \* the run's event registry: the event has been emitted
    ctxDone,    \* branchCtx is cancelled
    parentDone, \* the run's own context is cancelled
    phase,      \* the trunk: collecting, retiring, settling, over
    collected,  \* the branches whose result the collector has
    verdict,    \* what the fan-out returns
    answers,    \* the gates an operator has answered (history)
    entered     \* how often the router has been entered

vars == <<doc, mem, retired, turn, dirty, lock, snap, branch, held, fired,
          ctxDone, parentDone, phase, collected, verdict, answers, entered>>

\* "failed" and "undecided" keep a checkpoint to resume from, under an ordinary
\* code or FailureAmbiguousEffect; "ended" is a plain `failed`, which nothing
\* resumes.
Statuses == {"running", "paused", "failed", "undecided", "ended", "joined"}

PCs == {"start", "turn", "slot", "run", "exec", "parked", "wake", "advance",
        "pausing", "saveNext", "saveResumed", "saveDone", "saveCut",
        "savePark", "saveSpend", "saveDrop", "cut", "spend", "drop", "leave",
        "panicked", "sent"}

Results == {"none", "ok", "fail", "budget", "paused", "deferred", "cancelled",
            "undecided", "panic"}

Phases == {"collect", "retire", "flush", "settle", "over", "claimed", "down"}

Verdicts == {"none", "undecided", "cut", "paused", "failed", "joined"}

End(b)     == Len(Prog[b]) + 1
Node(b, p) == Prog[b][p]
IsGate(b, p) == p \in 1 .. Len(Prog[b]) /\ Node(b, p) = "human"

\* store.ParallelCheckpoint: every branch's cursor and completion, the one
\* pending interaction, whether it has an id (its question was asked) and
\* whether its answer is recorded on the branch (ResumeAnswered).
Checkpoints ==
    [cur: [Branches -> Nat], done: SUBSET Branches,
     pending: Branches \cup {None}, asked: BOOLEAN, answered: BOOLEAN]

FreshInvocation ==
    [cur |-> [b \in Branches |-> 1], done |-> {}, pending |-> None,
     asked |-> FALSE, answered |-> FALSE]

FreshBranch == [pc |-> "start", pos |-> 1, res |-> "none", ans |-> FALSE,
                gate |-> FALSE]

Unlocked == [w \in Branches \cup {Saver} |-> FreshInvocation]

-----------------------------------------------------------------------------
(* Helpers.                                                                *)

At(b, pc)     == branch[b].pc = pc
GoTo(b, pc)   == branch' = [branch EXCEPT ![b].pc = pc]
LeaveWith(b, pc, res) == branch' = [branch EXCEPT ![b].pc = pc, ![b].res = res]

Fault(f) == f \in Faults

\* captureBase: an answered pending branch goes first.
TurnOf(cp) ==
    IF cp.pending # None /\ cp.answered
    THEN [of |-> cp.pending, armed |-> TRUE, closed |-> FALSE]
    ELSE [of |-> None, armed |-> FALSE, closed |-> FALSE]

\* Mutant: the barrier is left to the branch that reaches its successor.
KeepWaiters(b) == UNCHANGED turn

\* releaseResumeWaiters
ReleaseWaiters(b) ==
    turn' = IF turn.of = b /\ turn.armed
            THEN [turn EXCEPT !.armed = FALSE, !.closed = TRUE]
            ELSE turn

\* Mutant: writers do not exclude each other.
TakeNoLock(w) == lock' = w

\* saveMu: taken for the update, the snapshot and the write that follows.
TakeLock(w) == lock = None /\ lock' = w

\* The update of the in-memory checkpoint and the snapshot taken of it.
Snapshot(w, cp) == mem' = cp /\ snap' = [snap EXCEPT ![w] = cp]

\* Mutant: a sibling's write leaves the pause's interaction out.
StoredWithoutPointer(cp) ==
    [doc EXCEPT !.cp = cp, !.fired = fired, !.ptr = FALSE]

\* SaveCheckpoint: the pointer lands only while the run is paused, the events
\* are read after the snapshot.  A store may refuse the write.
Stored(cp) ==
    [doc EXCEPT !.cp = cp, !.fired = fired,
                !.ptr = cp.asked /\ doc.status = "paused"]

Save(w) ==
    \/ doc' = Stored(snap[w]) /\ dirty' = "clean"
    \/ Fault("store") /\ UNCHANGED <<doc, dirty>>

Unlock(w) == lock' = None /\ snap' = [snap EXCEPT ![w] = FreshInvocation]

\* updateBranch / branchCheckpointFromState: the entry written for a branch
\* carries its cursor and no answers.
WithCursor(cp, b, p) ==
    [cp EXCEPT !.cur[b] = p,
               !.answered = IF cp.pending = b THEN FALSE ELSE cp.answered]

ClearPending(cp) ==
    [cp EXCEPT !.pending = None, !.asked = FALSE, !.answered = FALSE]

trunkVars == <<phase, collected, verdict, parentDone, entered>>

-----------------------------------------------------------------------------
(* A branch goroutine up to the execBranch loop.                           *)

\* waitResumeTurn, on entry: the answered branch and the completed ones pass.
WaitTurn(b) ==
    /\ At(b, "start")
    /\ GoTo(b, IF ~turn.armed \/ turn.of = b \/ b \in mem.done
               THEN "slot" ELSE "turn")
    /\ UNCHANGED <<doc, mem, retired, turn, dirty, lock, snap, held, fired,
                   ctxDone, answers, trunkVars>>

\* waitResumeTurn, parked: the barrier closes or the fan-out is cancelled.
PassTurn(b) ==
    /\ At(b, "turn")
    /\ \/ turn.closed /\ GoTo(b, "slot")
       \/ ctxDone /\ LeaveWith(b, "leave", "cancelled")
    /\ UNCHANGED <<doc, mem, retired, turn, dirty, lock, snap, held, fired,
                   ctxDone, answers, trunkVars>>

\* Mutant: the branch starts behind the node its cursor names.
CursorOfSuccessor(b) == mem.cur[b] + 1

\* execBranch, initBranchResult: the branch goes on where its checkpoint says.
CursorOf(b) == mem.cur[b]

\* branchSlot.acquire, then the head of execBranch: the cursor and the answers
\* are read, and a completed branch returns at once.
AcquireSlot(b) ==
    /\ At(b, "slot")
    /\ \/ /\ Cardinality(held) < MaxParallel
          /\ held' = held \cup {b}
          /\ branch' = [branch EXCEPT ![b] =
                [@ EXCEPT !.pos = CursorOf(b),
                          !.ans = mem.pending = b /\ mem.answered,
                          !.pc  = IF b \in mem.done THEN "leave" ELSE "run",
                          !.res = IF b \in mem.done THEN "ok" ELSE "none"]]
       \/ ctxDone /\ LeaveWith(b, "leave", "cancelled") /\ UNCHANGED held
    /\ UNCHANGED <<doc, mem, retired, turn, dirty, lock, snap, fired, ctxDone,
                   answers, trunkVars>>

-----------------------------------------------------------------------------
(* The execBranch loop.  Every pass first looks at the branch's context.   *)

ObserveCancel(b) ==
    /\ At(b, "run")
    /\ ctxDone
    /\ LeaveWith(b, "cut", "cancelled")
    /\ UNCHANGED <<doc, mem, retired, turn, dirty, lock, snap, held, fired,
                   ctxDone, answers, trunkVars>>

\* checkPreExecBudget refuses the node.
RefuseBudget(b) ==
    /\ Fault("budget")
    /\ At(b, "run")
    /\ ~ctxDone
    /\ branch[b].pos < End(b)
    /\ LeaveWith(b, "spend", "budget")
    /\ UNCHANGED <<doc, mem, retired, turn, dirty, lock, snap, held, fired,
                   ctxDone, answers, trunkVars>>

\* The convergence node is reached: the completion is written at once.
CompleteBranch(b) ==
    /\ At(b, "run")
    /\ ~ctxDone
    /\ branch[b].pos = End(b)
    /\ lock = None
    /\ IF retired
       THEN LeaveWith(b, "spend", "ok") /\ UNCHANGED <<mem, lock, snap>>
       ELSE /\ TakeLock(b)
            /\ Snapshot(b, [WithCursor(mem, b, End(b)) EXCEPT !.done = @ \cup {b}])
            /\ LeaveWith(b, "saveDone", "ok")
    /\ UNCHANGED <<doc, retired, turn, dirty, held, fired, ctxDone, answers,
                   trunkVars>>

\* executeNodeForBranch hands the node to its executor.
StartNode(b) ==
    /\ At(b, "run")
    /\ ~ctxDone
    /\ branch[b].pos < End(b)
    /\ Node(b, branch[b].pos) \in {"work", "loop"}
    /\ GoTo(b, "exec")
    /\ UNCHANGED <<doc, mem, retired, turn, dirty, lock, snap, held, fired,
                   ctxDone, answers, trunkVars>>

\* The executor returns an output.
NodeReturns(b) ==
    /\ At(b, "exec")
    /\ GoTo(b, "advance")
    /\ UNCHANGED <<doc, mem, retired, turn, dirty, lock, snap, held, fired,
                   ctxDone, answers, trunkVars>>

\* The executor returns an error: a cut once the branch's context has ended,
\* unless the effect of the call is undecided.
NodeFails(b) ==
    /\ At(b, "exec")
    /\ \/ Fault("fail") /\ ~ctxDone /\ LeaveWith(b, "spend", "fail")
       \/ ctxDone /\ LeaveWith(b, "cut", "cancelled")
       \/ Fault("undecided") /\ LeaveWith(b, "spend", "undecided")
    /\ UNCHANGED <<doc, mem, retired, turn, dirty, lock, snap, held, fired,
                   ctxDone, answers, trunkVars>>

\* emitEvent: the registry is sticky.
EmitEvent(b) ==
    /\ At(b, "run")
    /\ ~ctxDone
    /\ branch[b].pos < End(b)
    /\ Node(b, branch[b].pos) = "emit"
    /\ fired' = TRUE
    /\ GoTo(b, "advance")
    /\ UNCHANGED <<doc, mem, retired, turn, dirty, lock, snap, held, ctxDone,
                   answers, trunkVars>>

\* Mutant: the slot is held while the branch is parked.
ParkOnSlot(b) ==
    /\ At(b, "run")
    /\ ~ctxDone
    /\ branch[b].pos < End(b)
    /\ Node(b, branch[b].pos) = "wait"
    /\ GoTo(b, "parked")
    /\ UNCHANGED <<doc, mem, retired, turn, dirty, lock, snap, held, fired,
                   ctxDone, answers, trunkVars>>

\* A wait node gives its slot back before it parks.
ParkOnEvent(b) ==
    /\ At(b, "run")
    /\ ~ctxDone
    /\ branch[b].pos < End(b)
    /\ Node(b, branch[b].pos) = "wait"
    /\ held' = held \ {b}
    /\ GoTo(b, "parked")
    /\ UNCHANGED <<doc, mem, retired, turn, dirty, lock, snap, fired, ctxDone,
                   answers, trunkVars>>

\* awaitEvent returns: the event, the timeout or the cancellation.
AwaitEvent(b) ==
    /\ At(b, "parked")
    /\ \/ fired /\ GoTo(b, "wake")
       \/ Fault("timeout") /\ LeaveWith(b, "spend", "fail")
       \/ ctxDone /\ LeaveWith(b, "cut", "cancelled")
    /\ UNCHANGED <<doc, mem, retired, turn, dirty, lock, snap, held, fired,
                   ctxDone, answers, trunkVars>>

ReacquireSlot(b) ==
    /\ At(b, "wake")
    /\ \/ /\ Cardinality(held) < MaxParallel
          /\ held' = held \cup {b}
          /\ GoTo(b, "advance")
       \/ ctxDone /\ LeaveWith(b, "cut", "cancelled") /\ UNCHANGED held
    /\ UNCHANGED <<doc, mem, retired, turn, dirty, lock, snap, fired, ctxDone,
                   answers, trunkVars>>

\* The output exceeds the budget, or its artifact or its edge is refused.
RefuseOutput(b) ==
    \/ Fault("budget") /\ LeaveWith(b, "spend", "budget")
    \/ Fault("fail") /\ ~retired /\ LeaveWith(b, "spend", "fail")

\* After the output: an abandoned branch stops, the artifact write or the edge
\* selection may fail, and the cursor moves.  A crossing of a loop is a
\* restart boundary, a linear edge is not.
Advance(b) ==
    LET next == branch[b].pos + 1
        moved == [branch EXCEPT ![b].pos = next]
    IN /\ At(b, "advance")
       /\ ~branch[b].gate
       /\ \/ /\ retired
             /\ LeaveWith(b, "cut", "cancelled")
             /\ UNCHANGED <<mem, dirty, lock, snap>>
          \/ RefuseOutput(b) /\ UNCHANGED <<mem, dirty, lock, snap>>
          \/ /\ Node(b, branch[b].pos) # "loop"
             /\ ~retired
             /\ branch' = [moved EXCEPT ![b].pc = "run"]
             /\ UNCHANGED <<mem, dirty, lock, snap>>
          \/ /\ Node(b, branch[b].pos) = "loop"
             /\ ~retired
             /\ Coalesce
             /\ lock = None
             /\ mem' = WithCursor(mem, b, next)
             /\ dirty' = "kicked"
             /\ branch' = [moved EXCEPT ![b].pc = "run"]
             /\ UNCHANGED <<lock, snap>>
          \/ /\ Node(b, branch[b].pos) = "loop"
             /\ ~retired
             /\ ~Coalesce
             /\ TakeLock(b)
             /\ Snapshot(b, WithCursor(mem, b, next))
             /\ branch' = [moved EXCEPT ![b].pc = "saveNext"]
             /\ UNCHANGED dirty
       /\ UNCHANGED <<doc, retired, turn, held, fired, ctxDone, answers,
                      trunkVars>>

-----------------------------------------------------------------------------
(* Human gates inside a branch.                                            *)

\* Mutant: the consumed answer stays, and answers the next gate as well.
ConsumeAnswerTwice(b) ==
    /\ At(b, "run")
    /\ ~ctxDone
    /\ IsGate(b, branch[b].pos)
    /\ branch[b].ans
    /\ branch' = [branch EXCEPT ![b].gate = TRUE, ![b].pc = "advance"]
    /\ UNCHANGED <<doc, mem, retired, turn, dirty, lock, snap, held, fired,
                   ctxDone, answers, trunkVars>>

\* The branch resumes on its recorded answer.
ConsumeAnswer(b) ==
    /\ At(b, "run")
    /\ ~ctxDone
    /\ IsGate(b, branch[b].pos)
    /\ branch[b].ans
    /\ branch' = [branch EXCEPT ![b].ans = FALSE, ![b].gate = TRUE,
                                ![b].pc = "advance"]
    /\ UNCHANGED <<doc, mem, retired, turn, dirty, lock, snap, held, fired,
                   ctxDone, answers, trunkVars>>

\* checkpointResumedBranch: the successor's cursor and the end of the pending
\* interaction are one snapshot.
AdvanceGate(b) ==
    /\ At(b, "advance")
    /\ branch[b].gate
    /\ \/ /\ retired
          /\ LeaveWith(b, "cut", "cancelled")
          /\ UNCHANGED <<mem, lock, snap, turn>>
       \/ RefuseOutput(b) /\ UNCHANGED <<mem, lock, snap, turn>>
       \/ /\ ~retired
          /\ TakeLock(b)
          /\ LET moved == WithCursor(mem, b, branch[b].pos + 1)
             IN Snapshot(b, IF turn.of = b THEN ClearPending(moved) ELSE moved)
          /\ turn' = IF turn.of = b
                     THEN [turn EXCEPT !.of = None, !.armed = FALSE]
                     ELSE turn
          /\ branch' = [branch EXCEPT ![b].pos = @ + 1,
                                      ![b].pc = "saveResumed"]
    /\ UNCHANGED <<doc, retired, dirty, held, fired, ctxDone, answers,
                   trunkVars>>

\* Mutant: every gate is elected.
ElectedAnyway(b) == TRUE

\* One interaction at a time.
Elected(b) == mem.pending \in {None, b}

\* beginPause, on a gate with no answer or with one its schema refuses.
ReachGate(b) ==
    LET parked == WithCursor(mem, b, branch[b].pos)
    IN /\ At(b, "run")
       /\ ~ctxDone
       /\ IsGate(b, branch[b].pos)
       /\ branch[b].ans => Fault("invalid")
       /\ lock = None
       /\ \/ /\ retired
             /\ branch' = [branch EXCEPT ![b].pc = "spend", ![b].res = "deferred",
                                         ![b].ans = FALSE]
             /\ UNCHANGED <<mem, lock, snap>>
          \/ /\ ~retired
             /\ ~Elected(b)
             /\ TakeLock(b)
             /\ Snapshot(b, parked)
             /\ branch' = [branch EXCEPT ![b].pc = "savePark",
                                         ![b].res = "deferred", ![b].ans = FALSE]
          \/ /\ ~retired
             /\ Elected(b)
             /\ TakeLock(b)
             /\ Snapshot(b, [parked EXCEPT !.pending = b, !.asked = TRUE,
                                           !.answered = FALSE])
             /\ branch' = [branch EXCEPT ![b].pc = "pausing", ![b].ans = FALSE]
       /\ UNCHANGED <<doc, retired, turn, dirty, held, fired, ctxDone, answers,
                      trunkVars>>

\* WriteInteraction and PauseRun; a refused write gives the election back.
PauseRun(b) ==
    /\ At(b, "pausing")
    /\ \/ /\ doc' = [doc EXCEPT !.status = "paused", !.cp = snap[b],
                                !.fired = fired, !.ptr = TRUE]
          /\ dirty' = "clean"
          /\ LeaveWith(b, "spend", "paused")
          /\ UNCHANGED mem
       \/ /\ Fault("store")
          /\ mem' = ClearPending(mem)
          /\ LeaveWith(b, "spend", "fail")
          /\ UNCHANGED <<doc, dirty>>
    /\ Unlock(b)
    /\ UNCHANGED <<retired, turn, held, fired, ctxDone, answers, trunkVars>>

-----------------------------------------------------------------------------
(* The durable writes that end a step of a branch.                         *)

\* Where a branch goes once its write is done.  saveResumed has landed the
\* successor cursor and closes the resume barrier.
AfterSave == [saveNext  |-> "run",   saveResumed |-> "run",
              saveDone  |-> "spend", savePark    |-> "spend",
              saveCut   |-> "spend", saveSpend   |-> "drop",
              saveDrop  |-> "leave"]

SaveBranch(b) ==
    /\ branch[b].pc \in DOMAIN AfterSave
    /\ Save(b)
    /\ Unlock(b)
    /\ turn' = IF At(b, "saveResumed") THEN [turn EXCEPT !.closed = TRUE]
                                       ELSE turn
    /\ branch' = [branch EXCEPT ![b].pc = AfterSave[@],
                     ![b].gate = @ /\ ~At(b, "saveResumed")]
    /\ UNCHANGED <<mem, retired, held, fired, ctxDone, answers, trunkVars>>

\* Mutant: an abandoned branch may still write its cursor.
CheckpointLate(b) ==
    /\ At(b, "cut")
    /\ TakeLock(b)
    /\ Snapshot(b, WithCursor(mem, b, branch[b].pos))
    /\ GoTo(b, "saveCut")
    /\ UNCHANGED <<doc, retired, turn, dirty, held, fired, ctxDone, answers,
                   trunkVars>>

\* The deferred checkpoint of a cancelled branch: its cursor, once.
CheckpointCut(b) ==
    /\ At(b, "cut")
    /\ lock = None
    /\ IF retired
       THEN GoTo(b, "spend") /\ UNCHANGED <<mem, lock, snap>>
       ELSE /\ TakeLock(b)
            /\ Snapshot(b, WithCursor(mem, b, branch[b].pos))
            /\ GoTo(b, "saveCut")
    /\ UNCHANGED <<doc, retired, turn, dirty, held, fired, ctxDone, answers,
                   trunkVars>>

\* persistBranchSpend: what the branch has spent and no cursor of its has
\* carried to the store is written with the checkpoint as it stands.
PersistSpend(b) ==
    /\ At(b, "spend")
    /\ \/ GoTo(b, "drop") /\ UNCHANGED <<mem, lock, snap>>
       \/ /\ ~retired
          /\ TakeLock(b)
          /\ Snapshot(b, mem)
          /\ GoTo(b, "saveSpend")
    /\ UNCHANGED <<doc, retired, turn, dirty, held, fired, ctxDone, answers,
                   trunkVars>>

\* abandonBranchResume: a branch that consumed its answer and failed before
\* its successor's cursor gives the gate back.
AbandonResume(b) ==
    /\ At(b, "drop")
    /\ IF /\ branch[b].gate
          /\ branch[b].res # "panic"
          /\ ~retired
          /\ mem.pending = b
       THEN /\ TakeLock(b)
            /\ Snapshot(b, ClearPending(WithCursor(mem, b, branch[b].pos)))
            /\ GoTo(b, "saveDrop")
       ELSE GoTo(b, "leave") /\ UNCHANGED <<mem, lock, snap>>
    /\ UNCHANGED <<doc, retired, turn, dirty, held, fired, ctxDone, answers,
                   trunkVars>>

\* A panic unwinds the branch through the same defers, with no error recorded:
\* it writes its spend, keeps its gate and gives its slot back.
Panic(b) ==
    /\ Fault("panic")
    /\ branch[b].pc \in {"run", "exec", "advance"}
    /\ LeaveWith(b, "spend", "panic")
    /\ UNCHANGED <<doc, mem, retired, turn, dirty, lock, snap, held, fired,
                   ctxDone, answers, trunkVars>>

\* The recovery opens the barrier before it cancels the siblings.
Recover(b) ==
    /\ At(b, "leave")
    /\ branch[b].res = "panic"
    /\ ReleaseWaiters(b)
    /\ held' = held \ {b}
    /\ GoTo(b, "panicked")
    /\ UNCHANGED <<doc, mem, retired, dirty, lock, snap, fired, ctxDone,
                   answers, trunkVars>>

\* The launcher: cancel the siblings, open the barrier, send the result.
CancelsSiblings(res) ==
    \/ res \in {"paused", "budget", "panic"}
    \/ res # "ok" /\ WaitAll

Deliver(b) ==
    /\ At(b, IF branch[b].res = "panic" THEN "panicked" ELSE "leave")
    /\ ctxDone' = (ctxDone \/ CancelsSiblings(branch[b].res))
    /\ ReleaseWaiters(b)
    /\ held' = held \ {b}
    /\ GoTo(b, "sent")
    /\ UNCHANGED <<doc, mem, retired, dirty, lock, snap, fired, answers,
                   trunkVars>>

-----------------------------------------------------------------------------
(* The coalescing saver, the collector and the trunk.                      *)

\* saverLoop: the window that a kick opened closes.  A refused write waits for
\* the next kick.  The loop stops with the invocation and the run's context.
SaverWrites ==
    /\ dirty = "kicked"
    /\ ~retired
    /\ ~parentDone
    /\ TakeLock(Saver)
    /\ Snapshot(Saver, mem)
    /\ dirty' = "unwritten"
    /\ UNCHANGED <<doc, retired, turn, branch, held, fired, ctxDone, answers,
                   trunkVars>>

SaverLands ==
    /\ lock = Saver
    /\ Save(Saver)
    /\ Unlock(Saver)
    /\ UNCHANGED <<mem, retired, turn, branch, held, fired, ctxDone, answers,
                   trunkVars>>

\* The run's context ends: an operator's cancel, a drain, a lost heartbeat.
ContextEnds ==
    /\ Fault("cancel")
    /\ phase = "collect"
    /\ ~parentDone
    /\ parentDone' = TRUE
    /\ ctxDone' = TRUE
    /\ UNCHANGED <<doc, mem, retired, turn, dirty, lock, snap, branch, held,
                   fired, phase, collected, verdict, answers, entered>>

CollectResult(b) ==
    /\ phase = "collect"
    /\ At(b, "sent")
    /\ b \notin collected
    /\ collected' = collected \cup {b}
    /\ UNCHANGED <<doc, mem, retired, turn, dirty, lock, snap, branch, held,
                   fired, ctxDone, parentDone, phase, verdict, answers, entered>>

\* Mutants: the run's own cancellation outranks an undecided branch; a stopped
\* branch is no failure of the join.
RulingCancelFirst(settled) ==
    LET res == {branch[b].res : b \in settled}
    IN IF parentDone THEN "cut"
       ELSE IF settled # Branches \/ "undecided" \in res THEN "undecided"
       ELSE IF "paused" \in res THEN "paused"
       ELSE IF WaitAll /\ res # {"ok"} THEN "failed"
       ELSE "joined"

RulingStoppedIsOk(settled) ==
    LET res == {branch[b].res : b \in settled}
    IN IF settled # Branches \/ "undecided" \in res THEN "undecided"
       ELSE IF parentDone THEN "cut"
       ELSE IF "paused" \in res THEN "paused"
       ELSE IF WaitAll /\ ~(res \subseteq {"ok", "cancelled", "deferred"})
            THEN "failed"
       ELSE "joined"

\* collectBranches, pausedBranchError and the convergence's await strategy: an
\* undecided branch outranks the run's own cancellation, which outranks a
\* pause, which outranks the join.
Ruling(settled) ==
    LET res == {branch[b].res : b \in settled}
    IN IF settled # Branches \/ "undecided" \in res THEN "undecided"
       ELSE IF parentDone THEN "cut"
       ELSE IF "paused" \in res THEN "paused"
       ELSE IF WaitAll /\ res # {"ok"} THEN "failed"
       ELSE "joined"

\* Every result is in, or the grace after a cancellation has passed: results
\* already sent are drained and the other branches are abandoned.
EndCollect ==
    /\ phase = "collect"
    /\ \/ collected = Branches /\ UNCHANGED collected
       \/ /\ Fault("wedge")
          /\ ctxDone
          /\ collected # Branches
          /\ collected' = {b \in Branches : At(b, "sent")}
    /\ verdict' = Ruling(collected')
    /\ phase' = "retire"
    /\ UNCHANGED <<doc, mem, retired, turn, dirty, lock, snap, branch, held,
                   fired, ctxDone, parentDone, answers, entered>>

\* retire: first the flag, then, past whatever write is in flight, the flush.
Retire ==
    /\ phase = "retire"
    /\ retired' = TRUE
    /\ phase' = "flush"
    /\ UNCHANGED <<doc, mem, turn, dirty, lock, snap, branch, held, fired,
                   ctxDone, parentDone, collected, verdict, answers, entered>>

Flush ==
    /\ phase = "flush"
    /\ lock = None
    /\ \/ dirty # "clean" /\ doc' = Stored(mem) /\ dirty' = "clean"
       \/ (Fault("store") \/ dirty = "clean") /\ UNCHANGED <<doc, dirty>>
    /\ phase' = "settle"
    /\ UNCHANGED <<mem, retired, turn, lock, snap, branch, held, fired, ctxDone,
                   parentDone, collected, verdict, answers, entered>>

\* failRunErrWithCheckpoint: the failure with its checkpoint.
Recorded ==
    [status |-> IF verdict = "undecided" THEN "undecided" ELSE "failed",
     cp |-> mem, fired |-> fired, ptr |-> FALSE]

\* A store may refuse the failure: it honours the ended context that a cut is
\* written on, or it fails.  A refusal, even of a write that landed, is
\* followed by a plain `failed`, and if that is refused too the document stays
\* as it is and the caller is told (unpersisted).
Unrecorded ==
    \/ verdict = "cut" /\ doc' = doc
    \/ /\ Fault("store")
       /\ doc' \in {doc, [doc EXCEPT !.status = "ended"],
                    [Recorded EXCEPT !.status = "ended"]}

\* The trunk acts on what the fan-out returned: a pause is already durable, a
\* failure or a cut is written with the checkpoint, a join goes on.
Settle ==
    /\ phase = "settle"
    /\ CASE verdict = "paused" -> doc' = doc
         [] verdict = "joined" -> doc' = [doc EXCEPT !.status = "joined"]
         [] OTHER -> doc' = Recorded \/ Unrecorded
    /\ phase' = "over"
    /\ UNCHANGED <<mem, retired, turn, dirty, lock, snap, branch, held, fired,
                   ctxDone, parentDone, collected, verdict, answers, entered>>

\* reconcileOrphans, or the sweeper: a run left running that nobody holds is
\* recorded as failed, resumable.
ReconcileOrphan ==
    /\ phase = "over"
    /\ doc.status = "running"
    /\ doc' = [doc EXCEPT !.status = "failed"]
    /\ UNCHANGED <<mem, retired, turn, dirty, lock, snap, branch, held, fired,
                   ctxDone, answers, trunkVars>>

\* The process dies; a run left running is recorded as failed, resumable.
Crash ==
    /\ Fault("crash")
    /\ phase \notin {"over", "down"}
    /\ phase' = "down"
    /\ doc' = [doc EXCEPT !.status = IF @ = "running" THEN "failed" ELSE @,
                          !.ptr = @ /\ doc.status = "paused"]
    /\ UNCHANGED <<mem, retired, turn, dirty, lock, snap, branch, held, fired,
                   ctxDone, parentDone, collected, verdict, answers, entered>>

-----------------------------------------------------------------------------
(* The next invocation of the router, from the durable checkpoint.         *)

\* Mutant: the registry starts empty.
ForgetEvents == fired' = FALSE

\* newRunEvents, restored from the checkpoint.
RestoreEvents == fired' = doc.fired

EnterRouter(cp) ==
    /\ mem' = cp
    /\ turn' = TurnOf(cp)
    /\ branch' = [b \in Branches |-> FreshBranch]
    /\ RestoreEvents
    /\ held' = {}
    /\ collected' = {}
    /\ verdict' = "none"
    /\ phase' = "collect"
    /\ entered' = entered + 1
    /\ lock' = None
    /\ snap' = Unlocked
    /\ retired' = FALSE
    /\ dirty' = "clean"
    /\ ctxDone' = FALSE
    /\ parentDone' = FALSE

Stopped == phase \in {"over", "down"} /\ entered < MaxInvocations

Gate(cp) == <<cp.pending, cp.cur[cp.pending]>>

\* resumeParallelPause on the local host: the answer is recorded while the run
\* is still paused, then the pause is claimed.
RecordAnswer ==
    /\ Stopped
    /\ doc.status = "paused"
    /\ doc.cp.pending # None
    /\ ~doc.cp.answered
    /\ doc' = [doc EXCEPT !.cp.answered = TRUE]
    /\ answers' = answers \cup {Gate(doc.cp)}
    /\ UNCHANGED <<mem, retired, turn, dirty, lock, snap, branch, held, fired,
                   ctxDone, trunkVars>>

ClaimAnswered ==
    /\ Stopped
    /\ doc.status = "paused"
    /\ doc.cp.answered
    /\ doc' = [doc EXCEPT !.status = "running", !.ptr = FALSE]
    /\ EnterRouter(doc.cp)
    /\ UNCHANGED answers

\* The same resume by a delivery, which claims first and then writes.
ClaimFirst ==
    /\ Stopped
    /\ doc.status = "paused"
    /\ doc.cp.pending # None
    /\ doc' = [doc EXCEPT !.status = "running", !.ptr = FALSE]
    /\ phase' = "claimed"
    /\ UNCHANGED <<mem, retired, turn, dirty, lock, snap, branch, held, fired,
                   ctxDone, parentDone, collected, verdict, answers, entered>>

PersistAnswer ==
    LET cp == [doc.cp EXCEPT !.answered = TRUE]
    IN /\ phase = "claimed"
       /\ \/ doc' = [doc EXCEPT !.cp = cp]
          \/ Fault("store") /\ UNCHANGED doc
       /\ answers' = answers \cup {Gate(doc.cp)}
       /\ EnterRouter(cp)

\* resumeFromFailure: the router is entered again from its checkpoint.
ResumeFailed ==
    /\ Stopped
    /\ doc.status \in {"failed", "undecided"}
    /\ doc' = [doc EXCEPT !.status = "running"]
    /\ EnterRouter(doc.cp)
    /\ UNCHANGED answers

-----------------------------------------------------------------------------
Init ==
    /\ doc = [status |-> "running", cp |-> FreshInvocation, fired |-> FALSE,
              ptr |-> FALSE]
    /\ mem = FreshInvocation
    /\ turn = TurnOf(FreshInvocation)
    /\ branch = [b \in Branches |-> FreshBranch]
    /\ snap = Unlocked
    /\ lock = None
    /\ retired = FALSE /\ dirty = "clean"
    /\ held = {} /\ collected = {} /\ answers = {}
    /\ fired = FALSE /\ ctxDone = FALSE /\ parentDone = FALSE
    /\ phase = "collect"
    /\ verdict = "none"
    /\ entered = 0

\* An operator who answers every question, on either host, and resumes what
\* failed, and the ticker of the scan for orphans.
Recovery ==
    \/ RecordAnswer \/ ClaimAnswered \/ PersistAnswer
    \/ ResumeFailed \/ ReconcileOrphan

\* A goroutine an invocation left behind keeps running after its end.
BranchStep(b) ==
    \/ WaitTurn(b) \/ PassTurn(b) \/ AcquireSlot(b)
    \/ ObserveCancel(b) \/ RefuseBudget(b) \/ CompleteBranch(b)
    \/ StartNode(b) \/ NodeReturns(b) \/ NodeFails(b)
    \/ EmitEvent(b) \/ ParkOnEvent(b) \/ AwaitEvent(b) \/ ReacquireSlot(b)
    \/ Advance(b) \/ ConsumeAnswer(b) \/ AdvanceGate(b)
    \/ ReachGate(b) \/ PauseRun(b)
    \/ SaveBranch(b) \/ CheckpointCut(b) \/ PersistSpend(b)
    \/ AbandonResume(b)
    \/ Panic(b) \/ Recover(b) \/ Deliver(b)

Running == phase \notin {"down", "claimed"}

SaverStep == SaverWrites \/ SaverLands

TrunkStep ==
    \/ (\E b \in Branches : CollectResult(b))
    \/ EndCollect \/ Retire \/ Flush \/ Settle

Next ==
    \/ Running /\ ((\E b \in Branches : BranchStep(b)) \/ SaverStep \/ TrunkStep)
    \/ ContextEnds
    \/ Crash
    \/ ClaimFirst \/ Recovery

Spec == Init /\ [][Next]_vars

\* The scheduler runs every goroutine that can go on.  An executor returns,
\* unless it ignores a cancellation: then nothing but the collector's grace
\* period ends the wait for it.
Wedged(b) == Fault("wedge") /\ At(b, "exec") /\ ctxDone

Fairness ==
    /\ \A b \in Branches :
         WF_vars(Running /\ ~Wedged(b) /\ BranchStep(b))
    /\ WF_vars(Running /\ SaverStep)
    /\ WF_vars(Running /\ TrunkStep)

FairSpec == Spec /\ Fairness

\* ... and they do.
AnsweredSpec == FairSpec /\ WF_vars(Recovery)

-----------------------------------------------------------------------------
(* Properties.                                                             *)

\* Every variable stays in its range, a branch's cursor within its path.
TypeOK ==
    /\ doc \in [status: Statuses, cp: Checkpoints, fired: BOOLEAN, ptr: BOOLEAN]
    /\ mem \in Checkpoints
    /\ turn \in [of: Branches \cup {None}, armed: BOOLEAN, closed: BOOLEAN]
    /\ lock \in Branches \cup {None, Saver}
    /\ snap \in [Branches \cup {Saver} -> Checkpoints]
    /\ branch \in [Branches -> [pc: PCs, pos: Nat, res: Results, ans: BOOLEAN,
                                gate: BOOLEAN]]
    /\ \A b \in Branches : branch[b].pos \in 1 .. End(b)
    /\ held \subseteq Branches /\ collected \subseteq Branches
    /\ answers \subseteq Branches \X Nat
    /\ dirty \in {"clean", "kicked", "unwritten"}
    /\ {retired, fired, ctxDone, parentDone} \subseteq BOOLEAN
    /\ phase \in Phases /\ verdict \in Verdicts
    /\ entered \in 0 .. MaxInvocations

\* No durable write takes a branch back: while branches, the saver and the
\* trunk write the same document in any order, and across every restart, the
\* stored cursors and completions only move forward ("so an older snapshot
\* cannot win last", parallel_checkpoint.go).
DurableNeverRegresses ==
    [][/\ \A b \in Branches : doc.cp.cur[b] <= doc'.cp.cur[b]
       /\ doc.cp.done \subseteq doc'.cp.done]_doc

\* A run that waits for a human can be answered: the document names the branch
\* that asked, the branch is durably parked on that gate and is not complete,
\* and the pause pointer of the interaction is there, whatever siblings wrote
\* after the pause.
PausedIsAnswerable ==
    doc.status = "paused" =>
        /\ doc.ptr
        /\ doc.cp.pending # None
        /\ IsGate(doc.cp.pending, doc.cp.cur[doc.cp.pending])
        /\ doc.cp.pending \notin doc.cp.done

\* No human gate is passed unanswered: a stored cursor beyond a gate means an
\* operator answered that very gate of that very branch, through any number of
\* pauses, refused answers, failures and restarts.
GateNeedsAnswer ==
    \A b \in Branches : \A p \in 1 .. Len(Prog[b]) :
        Node(b, p) = "human" /\ doc.cp.cur[b] > p => <<b, p>> \in answers

\* A signal is not lost across a restart: once a stored cursor is past an emit
\* node, so that no later invocation will run it again, the event a waiting
\* sibling needs is stored as fired.
NoLostSignal ==
    \A b \in Branches : \A p \in 1 .. Len(Prog[b]) :
        Node(b, p) = "emit" /\ doc.cp.cur[b] > p => doc.fired

\* A branch whose effect is undecided stops the run: if a branch was left
\* running or returned an ambiguous effect, the invocation returns that, whatever
\* pause, cancellation or failure ran beside it, and its last write leaves
\* nothing that is driven again by itself: the undecided effect, a plain
\* `failed`, or, where the store refuses both, the document as it was, while
\* the caller is told of the effect (unpersisted).
UndecidedStops ==
    [][phase = "settle" /\ phase' = "over"
         /\ (\E b \in Branches : b \notin collected \/ branch[b].res = "undecided")
       => /\ verdict = "undecided"
          /\ \/ doc'.status \in {"undecided", "ended"}
             \/ Fault("store") /\ doc' = doc]_vars

\* The end of an invocation is final: what its abandoned branches still do
\* changes nothing in the document; only an operator's answer does, and the
\* scan that finds the run left running because its last write was refused.
EndsFinal ==
    [][phase = "over" /\ phase' = "over" =>
         \/ doc' = doc
         \/ doc' = [doc EXCEPT !.cp.answered = TRUE]
         \/ doc.status = "running" /\ doc' = [doc EXCEPT !.status = "failed"]]_vars

\* A joined fan-out under wait_all has run every branch to its end, with no
\* question left unasked or unanswered.
JoinComplete ==
    verdict = "joined" /\ WaitAll => mem.done = Branches /\ mem.pending = None

\* Every invocation of the router ends: nobody waits for ever on the resume
\* barrier, on a semaphore slot held by a parked sibling, on the save lock or
\* on an executor that ignores its cancellation, whichever branch fails,
\* panics or is cut, and when.
Settles == phase = "collect" ~> phase \in {"over", "down"}

\* A fan-out whose questions are answered joins, unless its stops use up the
\* invocations: no answer is lost between two gates, and a waiting branch gets
\* its event even where one slot serves all branches.
Joins == <>(doc.status = "joined" \/ entered = MaxInvocations)

\* The fan-out keeps the journal's promises (RunJournal): its goroutines, its
\* saver and its restarts show a reader of the document nothing but journal
\* steps.
Gates ==
    UNION {{<<b, p>> : p \in {q \in DOMAIN Prog[b] : IsGate(b, q)}} : b \in Branches}

Journal == INSTANCE RunJournal WITH
    status   <- doc.status,
    cursor   <- doc.cp.cur,
    complete <- doc.cp.done,
    question <- IF doc.status = "paused"
                THEN [gate |-> Gate(doc.cp), answered |-> doc.cp.answered]
                ELSE [gate |-> <<>>, answered |-> FALSE],
    answered <- answers

KeepsJournal == Journal!JournalSpec

=============================================================================
