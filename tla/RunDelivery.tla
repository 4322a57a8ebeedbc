----------------------------- MODULE RunDelivery -----------------------------
(***************************************************************************)
(* The life of one cloud run between the publisher, the work queue, the    *)
(* runner pods and the orphan sweeper.                                     *)
(*                                                                         *)
(* The run document is shared by everyone and every write of it is one     *)
(* atomic update.  Each publication is an attempt: attempt 1 is the launch,*)
(* the later ones are resumes.  Instants are abstracted to the order of    *)
(* attempts: queued_at is the number of the attempt that queued the run,   *)
(* and the message of attempt m was published after marker m and before    *)
(* marker m + 1, which is what store.NextQueuedAt and store.PublishAt      *)
(* arrange.  A message is delivered at most MaxDeliver times.              *)
(***************************************************************************)
EXTENDS Naturals, FiniteSets

CONSTANTS
    Runners,      \* runner pods, each serving one delivery at a time
    Nobody,       \* the run's lock is free
    Dead,         \* the lock of a pod that died, until its TTL passes
    MaxAttempts,  \* bound on the publications of the run
    MaxDeliver,   \* the queue's redelivery budget per message
    Lapses,       \* TRUE: a live pod may lose its lease (partition, pause)
    FloorHolds    \* TRUE: a lapsed engine is gone once the adoption floor and
                  \* the sweeper's floor have passed

ASSUME RunnersAssumption ==
    Nobody \notin Runners /\ Dead \notin Runners /\ Nobody # Dead

ASSUME BoundsAssumption ==
    /\ MaxAttempts \in Nat \ {0}
    /\ MaxDeliver \in Nat \ {0}
    /\ {Lapses, FloorHolds} \subseteq BOOLEAN

VARIABLES
    run,     \* the run document: status, queuedAt, failure code
    submit,  \* each attempt at the publisher: SubmitLaunch, then SubmitResume
    msg,     \* each attempt's message on the queue
    runner,  \* what each pod is doing: processOne and the engine under it
    lock,    \* the run's lease in the NATS KV bucket
    signal,  \* a cancel has written its status and not yet signalled the pods
    probe    \* what the orphan sweeper's lease probe found, before its write

vars == <<run, submit, msg, runner, lock, signal, probe>>

Attempts == 1 .. MaxAttempts
Launch   == 1

Statuses == {"queued", "running", "paused_waiting_human", "paused_operator",
             "finished", "failed", "failed_resumable", "cancelled"}

\* What admission and the store tell apart in a failure code: none, one a
\* redelivery may outlast, one it cannot change (DeliberateFailure), and among
\* these FailureAmbiguousEffect: the step may have had its remote effect.
Codes == {"none", "retryable", "deliberate", "ambiguous"}

\* A message's state; the last four are final.
MsgStates == {"unsent", "ready", "inflight", "acked", "stale", "termed", "spent"}

Phases == {"idle", "fetched", "admitted", "adopting", "starting", "resuming",
           "executing", "returned"}

\* What executeRun returns, as classifyExecResult and the parks tell it apart.
Results == {"none", "settled", "refused", "failed", "interrupted", "superseded"}

Causes == {"none", "interrupted", "cancelled"}

RunDocs == [status : Statuses, queuedAt : Attempts, code : Codes]

Submissions == [stage : {"unused", "flipped", "refused", "over"},
                prior : Statuses, priorAt : Attempts \cup {0}, priorCode : Codes]

Messages == [state : MsgStates, delivery : Nat]

Pods == [phase : Phases, msg : Attempts \cup {0}, delivery : Nat,
         resume : BOOLEAN, loaded : Statuses, result : Results, cause : Causes]

IdleRunner == [phase |-> "idle", msg |-> 0, delivery |-> 0, resume |-> FALSE,
               loaded |-> "queued", result |-> "none", cause |-> "none"]

NoSubmit == [stage |-> "unused", prior |-> "queued", priorAt |-> 0,
             priorCode |-> "none"]

-----------------------------------------------------------------------------
(* Policy predicates (store/lifecycle.go).                                 *)

CanOperatorResume(s) ==
    s \in {"failed_resumable", "cancelled", "paused_operator",
           "paused_waiting_human"}

CanBeCancelled(s) == s \notin {"finished", "failed", "cancelled"}

RunnerVerdictFromStatuses == {"running", "queued", "failed_resumable"}

-----------------------------------------------------------------------------
(* Writes of the run document (store/mongo/runs.go).                       *)

\* A status transition; only failed_resumable keeps a code that is read here.
WithStatus(status, code) ==
    [run EXCEPT !.status = status,
                !.code = IF status = "failed_resumable" THEN code ELSE "none"]

\* Mutant: the compare-and-set of a cancel does not look at the failure code.
OutcomeOnStatus(from, status, code) ==
    IF run.status \in from THEN WithStatus(status, code) ELSE run

\* UpdateRunOutcome: a compare-and-set on the status; a cancel never covers an
\* undecided effect.
OutcomeIf(from, status, code) ==
    IF run.status \in from /\ (status = "cancelled" => run.code # "ambiguous")
    THEN WithStatus(status, code) ELSE run

\* Mutant: a failure lands whatever the run's status.
FailAlways(status, code) == WithStatus(status, code)

\* failRunCheckpointed: a cancel outranks a failure, unless the failure is an
\* undecided effect, which "must stay visible even if the cancel was written
\* first".
FailCheckpointed(status, code) ==
    IF run.status = "cancelled" /\ code # "ambiguous" THEN run
    ELSE WithStatus(status, code)

\* Superseded: the run was queued again after message m was published.
Superseded(m) == run.queuedAt > m

\* transitionQueuedAttempt: only the queued attempt that m was published for.
QueuedFor(m) == run.status = "queued" /\ ~Superseded(m)

AttemptIf(m, status, code) ==
    IF QueuedFor(m) THEN WithStatus(status, code) ELSE run

-----------------------------------------------------------------------------
(* State functions of the pods.                                            *)

Executing(r) == runner[r].phase = "executing"

\* No engine other than one of r executes, or the floors do not exclude it.
Abandoned(r) ==
    FloorHolds => \A q \in Runners \ {r} : ~Executing(q)

LastDelivery(r) == runner[r].delivery >= MaxDeliver

\* A Nak: re-offered while the budget lasts.  It says nothing of a delivery
\* that the queue has already taken back.
Reoffered(r) ==
    LET m == runner[r].msg IN
    IF msg[m].state = "inflight" /\ msg[m].delivery = runner[r].delivery
    THEN [msg EXCEPT ![m].state = IF LastDelivery(r) THEN "spent" ELSE "ready"]
    ELSE msg

\* An Ack or a Term: the message is never offered again.
Ended(r, state) == [msg EXCEPT ![runner[r].msg].state = state]

\* The delivery is over: the lock is let go if it is still this pod's.
Leave(r) ==
    /\ runner' = [runner EXCEPT ![r] = IdleRunner]
    /\ lock' = IF lock = r THEN Nobody ELSE lock

\* The pod moves on; the status it last read is of no use any more.
Advance(r, phase) ==
    runner' = [runner EXCEPT ![r] = [@ EXCEPT !.phase = phase,
                                              !.loaded = "queued"]]

\* The engine is over; the runner's own steps follow, which read its result and
\* no longer the cause its context was cancelled with.
Return(r, result) ==
    runner' = [runner EXCEPT ![r] = [@ EXCEPT !.phase = "returned",
                                              !.loaded = "queued",
                                              !.cause = "none",
                                              !.result = result]]

-----------------------------------------------------------------------------
\* SubmitLaunch has written the row; its message is not published yet.
Init ==
    /\ run = [status |-> "queued", queuedAt |-> Launch, code |-> "none"]
    /\ submit = [k \in Attempts |->
                    IF k = Launch THEN [NoSubmit EXCEPT !.stage = "flipped"]
                    ELSE NoSubmit]
    /\ msg = [k \in Attempts |-> [state |-> "unsent", delivery |-> 0]]
    /\ runner = [r \in Runners |-> IdleRunner]
    /\ lock = Nobody
    /\ signal = FALSE
    /\ probe = "none"

-----------------------------------------------------------------------------
(* The publisher.                                                          *)

\* Mutant: the flip does not keep the marker it replaced.
SubmitResumeForgetsMarker(k) ==
    /\ submit[k].stage = "unused"
    /\ \A j \in Attempts : j < k => submit[j].stage # "unused"
    /\ CanOperatorResume(run.status)
    /\ submit' = [submit EXCEPT ![k] =
                     [stage |-> "flipped", prior |-> run.status,
                      priorAt |-> 0, priorCode |-> run.code]]
    /\ run' = [status |-> "queued", queuedAt |-> k, code |-> "none"]
    /\ UNCHANGED <<msg, runner, lock, probe, signal>>

\* SubmitResume: the flip to queued claims the resume and keeps what it
\* replaced.  An attempt starts once the attempts before it have started.
SubmitResume(k) ==
    /\ submit[k].stage = "unused"
    /\ \A j \in Attempts : j < k => submit[j].stage # "unused"
    /\ CanOperatorResume(run.status)
    /\ submit' = [submit EXCEPT ![k] =
                     [stage |-> "flipped", prior |-> run.status,
                      priorAt |-> run.queuedAt, priorCode |-> run.code]]
    /\ run' = [status |-> "queued", queuedAt |-> k, code |-> "none"]
    /\ UNCHANGED <<msg, runner, lock, probe, signal>>

\* The publication is confirmed.
Publish(k) ==
    /\ submit[k].stage = "flipped"
    /\ submit' = [submit EXCEPT ![k].stage = "over"]
    /\ msg' = [msg EXCEPT ![k].state = "ready"]
    /\ UNCHANGED <<run, runner, lock, probe, signal>>

\* The submission fails before its publication, or the publication reports an
\* error, possibly after the message landed.
PublishFails(k, landed) ==
    /\ submit[k].stage = "flipped"
    /\ submit' = [submit EXCEPT ![k].stage = "refused"]
    /\ msg' = IF landed THEN [msg EXCEPT ![k].state = "ready"] ELSE msg
    /\ UNCHANGED <<run, runner, lock, probe, signal>>

\* RevertQueuedFlip: what the flip replaced, while the run is queued for it.
RevertedFlip(k) ==
    IF run.status = "queued" /\ run.queuedAt = k
    THEN [status |-> submit[k].prior, queuedAt |-> submit[k].priorAt,
          code |-> submit[k].priorCode]
    ELSE run

\* Mutant: the launch's rollback does not look at the status.
FailedLaunchAlways == WithStatus("failed", "deliberate")

\* FailRunAtLaunchIf: the row ends failed while it reads queued.
FailedLaunch == OutcomeIf({"queued"}, "failed", "deliberate")

\* The deferred rollback of a submission that was not published.
Rollback(k) ==
    /\ submit[k].stage = "refused"
    /\ submit' = [submit EXCEPT ![k].stage = "over"]
    /\ run' = IF k = Launch THEN FailedLaunch ELSE RevertedFlip(k)
    /\ UNCHANGED <<msg, runner, lock, probe, signal>>

\* The server dies between the flip and the end of the submission.
PublisherDies(k) ==
    /\ submit[k].stage \in {"flipped", "refused"}
    /\ submit' = [submit EXCEPT ![k].stage = "over"]
    /\ UNCHANGED <<run, msg, runner, lock, probe, signal>>

\* CancelRunWithReason: the status first, unless the run is settled or waits on
\* an undecided effect ...
CancelRun ==
    /\ CanBeCancelled(run.status) /\ run.code # "ambiguous"
    /\ run' = WithStatus("cancelled", "none")
    /\ signal' = TRUE
    /\ UNCHANGED <<submit, msg, runner, lock, probe>>

\* ... then the signal, to the pods that serve the run by then.  It is core
\* NATS: a pod may never hear it.
SignalCancel(heard) ==
    /\ signal
    /\ heard \subseteq {r \in Runners :
                        /\ runner[r].phase \notin {"idle", "returned"}
                        /\ runner[r].cause = "none"}
    /\ signal' = FALSE
    /\ runner' = [r \in Runners |->
                     IF r \in heard THEN [runner[r] EXCEPT !.cause = "cancelled"]
                     ELSE runner[r]]
    /\ UNCHANGED <<run, submit, msg, lock, probe>>

-----------------------------------------------------------------------------
(* The runner, before the engine: Run, decodeOrTerm, processOne.           *)

Fetch(r, m) ==
    /\ runner[r].phase = "idle"
    /\ msg[m].state = "ready"
    /\ msg' = [msg EXCEPT ![m] = [state |-> "inflight",
                                  delivery |-> msg[m].delivery + 1]]
    /\ runner' = [runner EXCEPT ![r] =
                     [IdleRunner EXCEPT !.phase = "fetched", !.msg = m,
                                        !.delivery = msg[m].delivery + 1,
                                        !.resume = m # Launch]]
    /\ UNCHANGED <<run, submit, lock, probe, signal>>

\* handleAdmissionMismatch: another schema, epoch or pool.  A pool mismatch,
\* and any mismatch on the last delivery, parks the message and fails the
\* attempt it was published for, and only that one.
RejectMismatch(r, pool, code) ==
    /\ runner[r].phase = "fetched"
    /\ \/ /\ ~pool /\ ~LastDelivery(r)
          /\ msg' = Reoffered(r)
          /\ UNCHANGED run
       \/ /\ pool \/ LastDelivery(r)
          /\ msg' = Ended(r, "termed")
          /\ run' = AttemptIf(runner[r].msg, "failed_resumable", code)
    /\ Leave(r)
    /\ UNCHANGED <<submit, probe, signal>>

\* queue.Admit drops the message for good.
DropsForGood ==
    \/ run.status \in {"cancelled", "finished", "failed", "paused_waiting_human"}
    \/ run.status = "failed_resumable" /\ run.code \in {"deliberate", "ambiguous"}

\* Mutant: a superseded delivery is acked at once.
DropSupersededAtOnce(r) ==
    /\ Superseded(runner[r].msg)
    /\ msg' = Ended(r, "stale")
    /\ Leave(r)

\* supersededOutcome: dropped, but while the newer attempt is unclaimed the
\* delivery is re-offered, for that attempt's flip may yet be reverted.
DropSuperseded(r) ==
    /\ Superseded(runner[r].msg)
    /\ msg' = IF run.status = "queued" /\ ~LastDelivery(r) THEN Reoffered(r)
              ELSE Ended(r, "stale")
    /\ Leave(r)

DropSettled(r) ==
    /\ ~Superseded(runner[r].msg)
    /\ DropsForGood
    /\ msg' = Ended(r, "acked")
    /\ Leave(r)

\* A launch that reaches a run which already executed proceeds as a resume.
Proceed(r, phase) ==
    LET resumes == run.status \in {"failed_resumable", "paused_operator"} IN
    /\ ~Superseded(runner[r].msg)
    /\ ~DropsForGood
    /\ runner' = [runner EXCEPT ![r] =
                     [@ EXCEPT !.phase = phase, !.loaded = run.status,
                               !.resume = runner[r].resume \/ resumes]]
    /\ UNCHANGED <<msg, lock>>

\* resolveDeliveryPreconditions: the admission read, before the lock.
Admit(r) ==
    /\ runner[r].phase = "fetched"
    /\ DropSuperseded(r) \/ DropSettled(r) \/ Proceed(r, "admitted")
    /\ UNCHANGED <<run, submit, probe, signal>>

\* The run cannot be read, before the lock or for its adoption: re-offered on a
\* timeout, and dropped if the first read fails otherwise.
StoreUnread(r) ==
    /\ runner[r].phase \in {"fetched", "adopting"}
    /\ \/ msg' = Reoffered(r)
       \/ runner[r].phase = "fetched" /\ msg' = Ended(r, "termed")
    /\ Leave(r)
    /\ UNCHANGED <<run, submit, probe, signal>>

\* acquireRunLock fails, held by another pod or unanswered: re-offered, and
\* archived on the last delivery.  The run is not touched.
LockDeferred(r) ==
    /\ runner[r].phase = "admitted"
    /\ msg' = IF LastDelivery(r) THEN Ended(r, "termed") ELSE Reoffered(r)
    /\ Leave(r)
    /\ UNCHANGED <<run, submit, probe, signal>>

\* Mutant: the lock is taken over whoever holds it.
StealRunLock(r, read) ==
    /\ runner[r].phase = "admitted"
    /\ read => ~Superseded(runner[r].msg)
    /\ lock' = r
    /\ Advance(r, IF runner[r].loaded = "running" THEN "adopting"
                  ELSE "starting")
    /\ UNCHANGED <<run, submit, msg, probe, signal>>

\* acquireRunLock succeeds, and supersededUnderLock reads the run again, if the
\* store answers.
AcquireRunLock(r, read) ==
    /\ runner[r].phase = "admitted"
    /\ lock = Nobody
    /\ \/ /\ read /\ Superseded(runner[r].msg)
          /\ msg' = IF run.status = "queued" /\ ~LastDelivery(r)
                    THEN Reoffered(r) ELSE Ended(r, "stale")
          /\ runner' = [runner EXCEPT ![r] = IdleRunner]
          /\ UNCHANGED lock
       \/ /\ read => ~Superseded(runner[r].msg)
          /\ lock' = r
          /\ Advance(r, IF runner[r].loaded = "running" THEN "adopting"
                        ELSE "starting")
          /\ UNCHANGED msg
    /\ UNCHANGED <<run, submit, probe, signal>>

\* adoptRunningUnderLock, the document still reads running and was written
\* recently: re-offered, or left to the sweeper on the last delivery.
LeaveYoung(r) ==
    /\ runner[r].phase = "adopting"
    /\ run.status = "running"
    /\ msg' = IF LastDelivery(r) THEN Ended(r, "termed") ELSE Reoffered(r)
    /\ Leave(r)
    /\ UNCHANGED <<run, submit, probe, signal>>

\* adoptRunningUnderLock, an orphan older than the floor: promoted, and the
\* delivery goes on as a resume.
AdoptOrphan(r) ==
    /\ runner[r].phase = "adopting"
    /\ run.status = "running"
    /\ Abandoned(r)
    /\ run' = WithStatus("failed_resumable", "retryable")
    /\ runner' = [runner EXCEPT ![r] = [@ EXCEPT !.phase = "starting",
                                                 !.resume = TRUE]]
    /\ UNCHANGED <<submit, msg, lock, probe, signal>>

\* adoptRunningUnderLock, the promotion of an orphan gets no answer: the
\* delivery goes on as it is, "the engine refuses a running doc".
AdoptUnanswered(r, landed) ==
    /\ runner[r].phase = "adopting"
    /\ run.status = "running"
    /\ Abandoned(r)
    /\ run' = IF landed THEN WithStatus("failed_resumable", "retryable") ELSE run
    /\ Advance(r, "starting")
    /\ UNCHANGED <<submit, msg, lock, probe, signal>>

\* adoptRunningUnderLock, a peer moved the run: the ordinary disposition.
AdoptMoved(r) ==
    /\ runner[r].phase = "adopting"
    /\ run.status # "running"
    /\ DropSuperseded(r) \/ DropSettled(r) \/ Proceed(r, "starting")
    /\ UNCHANGED <<run, submit, probe, signal>>

-----------------------------------------------------------------------------
(* The engine: claim, execution, terminal write.                           *)

\* executeRun fails before the engine is called, or the engine before its
\* claim: an error the queue retries.  Whatever a cancelled context cuts off
\* before the claim ends here too.
FailBeforeClaim(r) ==
    /\ runner[r].phase \in {"starting", "resuming"}
    /\ Return(r, "failed")
    /\ UNCHANGED <<run, submit, msg, lock, probe, signal>>

\* The runner's own verdict on a bundle it cannot run (failUnloadableIR,
\* failBotRequiresNewerEngine): a resume still queued is left to its release.
RefuseBundle(r, status) ==
    /\ runner[r].phase = "starting"
    /\ status \in {"failed_resumable", "failed"}
    /\ run' = OutcomeIf(RunnerVerdictFromStatuses
                            \ (IF runner[r].resume THEN {"queued"} ELSE {}),
                        status, "deliberate")
    /\ Return(r, "refused")
    /\ UNCHANGED <<submit, msg, lock, probe, signal>>

\* A guard of ResumeWithHostInputs refuses deterministically, before the claim.
RefuseResume(r) ==
    /\ runner[r].phase = "resuming"
    /\ Return(r, "refused")
    /\ UNCHANGED <<run, submit, msg, lock, probe, signal>>

\* runResolveDoc: a launch claims a queued run by its status, and takes a run
\* that reads running for its own.
StartLaunch(r) ==
    /\ runner[r].phase = "starting" /\ ~runner[r].resume
    /\ runner[r].cause = "none"
    /\ \/ /\ run.status \in {"queued", "running"}
          /\ run' = WithStatus("running", "none")
          /\ Advance(r, "executing")
       \/ /\ run.status \notin {"queued", "running"}
          /\ Return(r, "failed")
          /\ UNCHANGED run
    /\ UNCHANGED <<submit, msg, lock, probe, signal>>

\* ResumeWithHostInputs reads the run and routes by its status.
LoadResume(r) ==
    /\ runner[r].phase = "starting" /\ runner[r].resume
    /\ runner[r].cause = "none"
    /\ \/ /\ run.status = "queued" /\ Superseded(runner[r].msg)
          /\ Return(r, "superseded")
       \/ /\ QueuedFor(runner[r].msg) \/ CanOperatorResume(run.status)
          /\ runner' = [runner EXCEPT ![r] = [@ EXCEPT !.phase = "resuming",
                                                       !.loaded = run.status]]
       \/ /\ run.status \in {"running", "finished", "failed"}
          /\ Return(r, "failed")
    /\ UNCHANGED <<run, submit, msg, lock, probe, signal>>

\* The statuses a resume claims from, queued only for its own attempt.
ClaimableFrom(loaded) ==
    CASE loaded = "queued" -> {"queued"}
      [] loaded = "paused_waiting_human" -> {"paused_waiting_human", "queued"}
      [] OTHER -> {"failed_resumable", "cancelled", "paused_operator", "queued"}

\* Mutant: a resume claims a queued run by its status alone.
ClaimsByStatus(r) == run.status \in ClaimableFrom(runner[r].loaded)

Claims(r) ==
    /\ run.status \in ClaimableFrom(runner[r].loaded)
    /\ run.status = "queued" => ~Superseded(runner[r].msg)

\* casResumeClaim, lostQueuedMove.
ClaimResume(r) ==
    /\ runner[r].phase = "resuming"
    /\ runner[r].cause = "none"
    /\ \/ /\ Claims(r)
          /\ run' = WithStatus("running", "none")
          /\ Advance(r, "executing")
       \/ /\ ~Claims(r)
          /\ Return(r, IF run.status = "queued" /\ Superseded(runner[r].msg)
                       THEN "superseded" ELSE "failed")
          /\ UNCHANGED run
    /\ UNCHANGED <<submit, msg, lock, probe, signal>>

\* The workflow ends, or waits for a human or an operator: the status is
\* written without a condition.
EngineSettles(r, status) ==
    /\ Executing(r)
    /\ status \in {"finished", "paused_waiting_human", "paused_operator"}
    /\ run' = WithStatus(status, "none")
    /\ Return(r, "settled")
    /\ UNCHANGED <<submit, msg, lock, probe, signal>>

\* FailRunResumable or FailRunTerminal, on a failure a redelivery may outlast,
\* on one it cannot change, or on an undecided effect, even when the run's
\* context is done (persistCtx).
EngineFails(r, status, code) ==
    /\ Executing(r)
    /\ \/ status = "failed_resumable" /\ code # "none"
       \/ status = "failed" /\ code = "deliberate"
    /\ run' = FailCheckpointed(status, code)
    /\ Return(r, IF code = "retryable" THEN "failed" ELSE "refused")
    /\ UNCHANGED <<submit, msg, lock, probe, signal>>

\* The plain status, written without a condition: a set-up that fails before
\* the first node (recordSetupOutcome), or the fallback of a failure whose
\* checkpointed write was refused (failRun, failRunErr).
EngineFailsPlainly(r, code) ==
    /\ Executing(r)
    /\ code # "none"
    /\ run' = WithStatus("failed", code)
    /\ Return(r, IF code = "retryable" THEN "failed" ELSE "refused")
    /\ UNCHANGED <<submit, msg, lock, probe, signal>>

\* The last write is refused and the document stays as it was.  A finish, an
\* operator pause and a cancel are reported all the same; a failure is reported
\* as the store's error, and an undecided effect beside it (unpersisted).
EngineUnrecorded(r, result) ==
    /\ Executing(r)
    /\ result \in {"settled", "failed", "refused"}
    /\ Return(r, result)
    /\ UNCHANGED <<run, submit, msg, lock, probe, signal>>

\* handleContextDoneWithCheckpoint, interrupted: parked for a redelivery.
EngineInterrupted(r) ==
    /\ Executing(r)
    /\ runner[r].cause = "interrupted"
    /\ run' = FailCheckpointed("failed_resumable", "retryable")
    /\ Return(r, "interrupted")
    /\ UNCHANGED <<submit, msg, lock, probe, signal>>

\* handleContextDoneWithCheckpoint, cancelled: never over a queued run, which
\* is a newer attempt.
EngineCancelled(r) ==
    /\ Executing(r)
    /\ runner[r].cause = "cancelled"
    /\ run' = OutcomeIf({"running", "paused_waiting_human", "paused_operator",
                         "failed_resumable"}, "cancelled", "none")
    /\ Return(r, "settled")
    /\ UNCHANGED <<submit, msg, lock, probe, signal>>

-----------------------------------------------------------------------------
(* The runner, after the engine.                                           *)

\* releaseRefusedResume: a resume refused before its claim goes back to the
\* status it came from.
ReleasedStatus(m) ==
    IF m # Launch /\ CanOperatorResume(submit[m].prior) THEN submit[m].prior
    ELSE "failed_resumable"

Released(r) ==
    IF runner[r].resume
    THEN AttemptIf(runner[r].msg, ReleasedStatus(runner[r].msg), "deliberate")
    ELSE run

\* A verdict the queue does not retry is acked.
AckOutcome(r) ==
    /\ runner[r].phase = "returned"
    /\ runner[r].result \in {"settled", "refused"}
    /\ run' = IF runner[r].result = "refused" THEN Released(r) ELSE run
    /\ msg' = Ended(r, "acked")
    /\ Leave(r)
    /\ UNCHANGED <<submit, probe, signal>>

\* A failure the queue retries is naked, an interruption even on the last
\* delivery; so is a failure that the dead-letter queue could not take.
NakOutcome(r, dlqDown) ==
    /\ runner[r].phase = "returned"
    /\ \/ runner[r].result = "interrupted"
       \/ runner[r].result = "failed" /\ (LastDelivery(r) => dlqDown)
    /\ msg' = Reoffered(r)
    /\ Leave(r)
    /\ UNCHANGED <<run, submit, probe, signal>>

\* parkOnDLQOnFinalDelivery.
ParkOnDLQ(r) ==
    /\ runner[r].phase = "returned"
    /\ runner[r].result = "failed"
    /\ LastDelivery(r)
    /\ run' = OutcomeIf(RunnerVerdictFromStatuses, "failed_resumable",
                        "deliberate")
    /\ msg' = Ended(r, "termed")
    /\ Leave(r)
    /\ UNCHANGED <<submit, probe, signal>>

\* supersededAfterEngine: dropped once the newer attempt is claimed or settled.
EndSuperseded(r, read) ==
    /\ runner[r].phase = "returned"
    /\ runner[r].result = "superseded"
    /\ msg' = IF ~LastDelivery(r)
                 /\ (read /\ Superseded(runner[r].msg) => run.status = "queued")
              THEN Reoffered(r) ELSE Ended(r, "stale")
    /\ Leave(r)
    /\ UNCHANGED <<run, submit, probe, signal>>

-----------------------------------------------------------------------------
(* Faults and recovery.                                                    *)

\* A drain, a failed refresh or an unwind ceiling cancels the run's context.
Interrupt(r) ==
    /\ runner[r].phase \in {"starting", "resuming", "executing"}
    /\ runner[r].cause = "none"
    /\ runner' = [runner EXCEPT ![r].cause = "interrupted"]
    /\ UNCHANGED <<run, submit, msg, lock, probe, signal>>

\* A live pod's lease passes its TTL.
LeaseLapses(r) ==
    /\ Lapses
    /\ lock = r
    /\ lock' = Nobody
    /\ UNCHANGED <<run, submit, msg, runner, probe, signal>>

\* A pod dies and a fresh one takes its place.
Crash(r) ==
    /\ runner[r].phase # "idle"
    /\ runner' = [runner EXCEPT ![r] = IdleRunner]
    /\ lock' = IF lock = r THEN Dead ELSE lock
    /\ UNCHANGED <<run, submit, msg, probe, signal>>

LockExpires ==
    /\ lock = Dead
    /\ lock' = Nobody
    /\ UNCHANGED <<run, submit, msg, runner, probe, signal>>

\* AckWait passes on a message whose pod is dead or cut off.
AckWaitPasses(m) ==
    /\ msg[m].state = "inflight"
    /\ \A r \in Runners :
          runner[r].phase # "idle" /\ runner[r].msg = m => Lapses /\ lock # r
    /\ msg' = [msg EXCEPT ![m].state =
                  IF msg[m].delivery < MaxDeliver THEN "ready" ELSE "spent"]
    /\ UNCHANGED <<run, submit, runner, lock, probe, signal>>

\* Mutant: the sweeper has no pass over running rows.
SweepProbeQueuedOnly ==
    /\ probe = "none"
    /\ lock = Nobody
    /\ run.status = "queued"
    /\ \A k \in Attempts : /\ msg[k].state \notin {"ready", "inflight"}
                           /\ submit[k].stage \in {"unused", "over"}
    /\ probe' = run.status
    /\ UNCHANGED <<run, submit, msg, runner, lock, signal>>

\* sweepOrphanRuns finds a stale row without a lease.  A queued row is stale
\* once its redelivery window is over and nothing waits on the consumer.
SweepProbe ==
    /\ probe = "none"
    /\ lock = Nobody
    /\ \/ /\ run.status = "queued"
          /\ \A k \in Attempts : /\ msg[k].state \notin {"ready", "inflight"}
                                 /\ submit[k].stage \in {"unused", "over"}
       \/ /\ run.status = "running"
          /\ FloorHolds => \A r \in Runners : ~Executing(r)
    /\ probe' = run.status
    /\ UNCHANGED <<run, submit, msg, runner, lock, signal>>

\* ... and flips it, if its status is still the one it scanned.
SweepFlip ==
    /\ probe # "none"
    /\ run' = OutcomeIf({probe}, "failed_resumable", "retryable")
    /\ probe' = "none"
    /\ UNCHANGED <<submit, msg, runner, lock, signal>>

-----------------------------------------------------------------------------
\* What a pod does with its delivery, faults aside.
Serve(r) ==
    \/ Admit(r) \/ StoreUnread(r) \/ LockDeferred(r)
    \/ \E read \in BOOLEAN : AcquireRunLock(r, read) \/ EndSuperseded(r, read)
    \/ LeaveYoung(r) \/ AdoptOrphan(r) \/ AdoptMoved(r)
    \/ FailBeforeClaim(r) \/ RefuseResume(r)
    \/ StartLaunch(r) \/ LoadResume(r) \/ ClaimResume(r)
    \/ EngineInterrupted(r) \/ EngineCancelled(r)
    \/ AckOutcome(r) \/ ParkOnDLQ(r)
    \/ \E landed \in BOOLEAN : AdoptUnanswered(r, landed)
    \/ \E dlqDown \in BOOLEAN : NakOutcome(r, dlqDown)
    \/ \E status \in Statuses : \/ RefuseBundle(r, status)
                               \/ EngineSettles(r, status)
    \/ \E code \in Codes : \/ \E status \in Statuses : EngineFails(r, status, code)
                            \/ EngineFailsPlainly(r, code)
    \/ \E result \in Results : EngineUnrecorded(r, result)
    \/ \E pool \in BOOLEAN, code \in {"none", "deliberate"} :
          RejectMismatch(r, pool, code)

\* A submission goes on to its end.
Submit(k) == Publish(k) \/ Rollback(k)

Next ==
    \/ \E k \in Attempts :
          \/ SubmitResume(k) \/ Submit(k) \/ PublisherDies(k)
          \/ \E landed \in BOOLEAN : PublishFails(k, landed)
          \/ AckWaitPasses(k)
    \/ CancelRun
    \/ \E heard \in SUBSET Runners : SignalCancel(heard)
    \/ \E r \in Runners : \/ \E m \in Attempts : Fetch(r, m)
                          \/ Serve(r) \/ Interrupt(r)
                          \/ LeaseLapses(r) \/ Crash(r)
    \/ LockExpires \/ SweepProbe \/ SweepFlip

Spec == Init /\ [][Next]_vars

\* A pod that has a delivery goes on with it, an engine returns (the run's
\* budget and the node timeouts bound it), the queue offers what is ready and
\* takes back what is abandoned, a dead pod's lease expires, a submission ends
\* and the sweeper's ticker keeps firing.
Fairness ==
    /\ \A r \in Runners : WF_vars(Serve(r))
    /\ \A k \in Attempts : /\ WF_vars(\E r \in Runners : Fetch(r, k))
                           /\ WF_vars(AckWaitPasses(k))
                           /\ WF_vars(Submit(k))
    /\ WF_vars(LockExpires) /\ WF_vars(SweepProbe) /\ WF_vars(SweepFlip)

FairSpec == Spec /\ Fairness

-----------------------------------------------------------------------------
\* Every variable has its type.
TypeOK ==
    /\ run \in RunDocs
    /\ submit \in [Attempts -> Submissions]
    /\ msg \in [Attempts -> Messages]
    /\ runner \in [Runners -> Pods]
    /\ lock \in Runners \cup {Nobody, Dead}
    /\ signal \in BOOLEAN
    /\ probe \in {"none", "queued", "running"}

\* "... so two engines never execute the same run and race on run.json"
\* (runtime/resume.go, claimForFailureResume): while no lease lapses under a
\* live pod, one engine executes.
OneExecutor ==
    \A q, r \in Runners : Executing(q) /\ Executing(r) => q = r

\* A pod takes a step of its delivery.
Steps(r) == runner'[r].phase # runner[r].phase

\* A step of r moves a queued run that belongs to a newer attempt.
TakesNewerAttempt(r) ==
    /\ Steps(r)
    /\ run.status = "queued" /\ run'.status # "queued"
    /\ run.queuedAt > runner[r].msg

\* A delivery never moves an attempt queued after its publication where the
\* store compares the marker: the claim of a resume, the release of a refused
\* one, the park of a mismatched message (store/iface.go, QueuedAttemptStore,
\* QueuedResumeReleaser, QueuedAttemptClaimer).
FencedStepsKeepNewerAttempt ==
    [][\A r \in Runners :
          \/ runner[r].phase \in {"fetched", "admitted", "adopting", "resuming"}
          \/ runner[r].phase = "starting" /\ runner[r].resume
          \/ runner[r].phase = "returned" /\ runner[r].result = "refused"
          => ~TakesNewerAttempt(r)]_vars

\* "This delivery is then the run's current one again, and an ack is forever"
\* (runner/loop.go, supersededOutcome): a delivery that was dropped as stale
\* with budget left is never the run's current one again.
StaleDropIsFinal ==
    \A m \in Attempts :
        msg[m].state = "stale" /\ msg[m].delivery < MaxDeliver => Superseded(m)

\* "An operator cancel is terminal and outranks a failure racing in behind it",
\* for the failure would win by writing last, "auto-resuming a run somebody
\* deliberately stopped" (store/mongo/runs.go, failRunCheckpointed): a cancelled
\* run is left by an operator's resume, by a resume that had read it before the
\* cancel, or by an engine that was executing it and leaves nothing a redelivery
\* would resume: its own end, a plain `failed`, or an undecided effect.  And an
\* undecided effect, whichever was written first, is not hidden by a cancel.
CancelOutranksFailure ==
    [][/\ run.status = "cancelled" /\ run'.status # "cancelled" =>
             \/ \E k \in Attempts : submit[k].stage = "unused"
                                    /\ submit'[k].stage = "flipped"
             \/ \E r \in Runners :
                   /\ Steps(r)
                   /\ \/ /\ Executing(r)
                         /\ run'.status = "failed_resumable"
                               => run'.code = "ambiguous"
                      \/ /\ runner[r].phase = "resuming"
                         /\ runner[r].loaded # "queued"
                         /\ run'.status = "running"
       /\ run.code = "ambiguous" => run'.status # "cancelled"]_vars

\* A run that reached its done node is settled (store/lifecycle.go,
\* IsFinalSuccess, CanOperatorResume, CanBeCancelled): no late
\* rollback, redelivery, park, sweep or stale engine moves a finished run.
FinishedIsFinal ==
    [][run.status = "finished" => run'.status = "finished"]_vars

\* No run is left queued or running for ever: its message is redelivered, and
\* what the queue gives up on is the sweeper's (server/queue_sweeper.go).
NeverStranded ==
    run.status \in {"queued", "running"}
        ~> run.status \notin {"queued", "running"}

\* "A park would write on the newer attempt's run" (runner/loop.go,
\* supersededOutcome; store/iface.go, QueuedAttemptStore: "a stale delivery
\* must not fail that newer attempt").
ParkKeepsNewerAttempt ==
    [][\A r \in Runners :
          runner[r].phase = "returned" /\ runner[r].result = "failed"
          => ~TakesNewerAttempt(r)]_vars
=============================================================================
