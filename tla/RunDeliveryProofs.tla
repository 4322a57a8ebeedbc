-------------------------- MODULE RunDeliveryProofs --------------------------
(***************************************************************************)
(* Proofs about RunDelivery, for every number of pods, attempts and        *)
(* deliveries: type correctness, stale drops, one engine, finished runs,   *)
(* cancels and undecided effects, and writes fenced by the attempt.        *)
(***************************************************************************)
EXTENDS RunDelivery, TLAPS

-----------------------------------------------------------------------------
(* Type correctness.                                                       *)

\* A submission that may still be rolled back knows the marker it replaced.
MarkerInv ==
    \A k \in Attempts \ {Launch} :
        submit[k].stage # "unused" => submit[k].priorAt \in Attempts

\* The launch is an attempt.
LEMMA LaunchIsAttempt == Launch \in Attempts /\ Attempts \subseteq Nat
BY BoundsAssumption DEF Launch, Attempts

\* Every conditional write of the run document leaves a well-formed document.
LEMMA DocTypes ==
    ASSUME TypeOK, NEW s \in Statuses, NEW c \in Codes
    PROVE  /\ WithStatus(s, c) \in RunDocs
           /\ \A from : OutcomeIf(from, s, c) \in RunDocs
           /\ FailCheckpointed(s, c) \in RunDocs
           /\ \A m : AttemptIf(m, s, c) \in RunDocs
<1>1. "none" \in Codes
  BY DEF Codes
<1>2. WithStatus(s, c) \in RunDocs
  BY <1>1 DEF TypeOK, RunDocs, WithStatus
<1> QED BY <1>2 DEF TypeOK, OutcomeIf, FailCheckpointed, AttemptIf

\* What becomes of a message is a message.
LEMMA MessageTypes ==
    ASSUME TypeOK, NEW r \in Runners, NEW st \in MsgStates
    PROVE  /\ Reoffered(r) \in [Attempts -> Messages]
           /\ Ended(r, st) \in [Attempts -> Messages]
BY DEF TypeOK, Messages, MsgStates, Reoffered, Ended

\* What becomes of a pod is a pod.
LEMMA PodTypes ==
    ASSUME TypeOK, NEW r \in Runners, NEW ph \in Phases, NEW res \in Results
    PROVE  /\ IdleRunner \in Pods
           /\ Advance(r, ph) => runner' \in [Runners -> Pods]
           /\ Return(r, res) => runner' \in [Runners -> Pods]
           /\ Leave(r) => /\ runner' \in [Runners -> Pods]
                          /\ lock' \in Runners \cup {Nobody, Dead}
<1>1. IdleRunner \in Pods
  BY DEF IdleRunner, Pods, Phases, Statuses, Results, Causes
<1>2. "queued" \in Statuses /\ "returned" \in Phases /\ "none" \in Causes
  BY DEF Statuses, Phases, Causes
<1>3. Advance(r, ph) => runner' \in [Runners -> Pods]
  BY <1>2 DEF TypeOK, Pods, Advance
<1>4. Return(r, res) => runner' \in [Runners -> Pods]
  BY <1>2 DEF TypeOK, Pods, Return
<1> QED BY <1>1, <1>3, <1>4 DEF TypeOK, Leave

\* The initial state is well typed.
LEMMA InitType == Init => TypeOK /\ MarkerInv
<1> SUFFICES ASSUME Init PROVE TypeOK /\ MarkerInv
  OBVIOUS
<1>1. run \in RunDocs
  BY LaunchIsAttempt DEF Init, RunDocs, Statuses, Codes
<1>2. NoSubmit \in Submissions /\ [NoSubmit EXCEPT !.stage = "flipped"] \in Submissions
  BY DEF NoSubmit, Submissions, Statuses, Codes
<1>3. submit \in [Attempts -> Submissions] /\ MarkerInv
  BY <1>2, LaunchIsAttempt DEF Init, MarkerInv, NoSubmit
<1>4. msg \in [Attempts -> Messages]
  BY DEF Init, Messages, MsgStates
<1>5. runner \in [Runners -> Pods]
  BY DEF Init, IdleRunner, Pods, Phases, Statuses, Results, Causes
<1> QED BY <1>1, <1>3, <1>4, <1>5 DEF Init, TypeOK

\* Every step keeps the state well typed.
LEMMA TypeStep == TypeOK /\ MarkerInv /\ [Next]_vars => TypeOK' /\ MarkerInv'
<1> SUFFICES ASSUME TypeOK, MarkerInv, [Next]_vars PROVE TypeOK' /\ MarkerInv'
  OBVIOUS
<1>b. /\ {"failed_resumable", "cancelled", "running", "failed"} \subseteq Statuses
      /\ {"none", "retryable", "deliberate", "ambiguous"} \subseteq Codes
      /\ {"acked", "stale", "termed"} \subseteq MsgStates
      /\ {"idle", "adopting", "starting", "resuming", "executing", "admitted",
          "returned"} \subseteq Phases
      /\ Results = {"none", "settled", "refused", "failed", "interrupted",
                    "superseded"}
      /\ Causes = {"none", "interrupted", "cancelled"}
  BY DEF Statuses, Codes, MsgStates, Phases, Results, Causes
<1>c. ASSUME NEW r \in Runners, NEW phase \in Phases,
             DropSuperseded(r) \/ DropSettled(r) \/ Proceed(r, phase)
      PROVE  /\ msg' \in [Attempts -> Messages]
             /\ runner' \in [Runners -> Pods]
             /\ lock' \in Runners \cup {Nobody, Dead}
  <2>1. CASE DropSuperseded(r)
    BY <1>b, <2>1, MessageTypes, PodTypes DEF DropSuperseded
  <2>2. CASE DropSettled(r)
    BY <1>b, <2>2, MessageTypes, PodTypes DEF DropSettled
  <2>3. CASE Proceed(r, phase)
    <3> DEFINE res == runner[r].resume \/ run.status \in
                         {"failed_resumable", "paused_operator"}
               pod == [runner[r] EXCEPT !.phase = phase, !.loaded = run.status,
                                        !.resume = res]
    <3>1. runner[r] \in Pods /\ run.status \in Statuses /\ res \in BOOLEAN
      BY DEF TypeOK, RunDocs
    <3>2. pod \in Pods
      BY <1>c, <3>1 DEF Pods
    <3>3. runner' = [runner EXCEPT ![r] = pod]
      BY <2>3 DEF Proceed
    <3> QED BY <2>3, <3>2, <3>3 DEF Proceed, TypeOK
  <2> QED BY <1>c, <2>1, <2>2, <2>3
<1>1. ASSUME NEW k \in Attempts, SubmitResume(k) PROVE TypeOK' /\ MarkerInv'
  BY <1>1, LaunchIsAttempt, SMTT(60)
     DEF SubmitResume, TypeOK, MarkerInv, RunDocs, Submissions, Statuses, Codes
<1>2. ASSUME NEW k \in Attempts, Publish(k) PROVE TypeOK' /\ MarkerInv'
  BY <1>2 DEF Publish, TypeOK, MarkerInv, Submissions, Messages, MsgStates
<1>3. ASSUME NEW k \in Attempts, NEW landed \in BOOLEAN, PublishFails(k, landed)
      PROVE TypeOK' /\ MarkerInv'
  BY <1>3
     DEF PublishFails, TypeOK, MarkerInv, Submissions, Messages, MsgStates
<1>4. ASSUME NEW k \in Attempts, Rollback(k) PROVE TypeOK' /\ MarkerInv'
  <2>1. run.status = "queued" /\ run.queuedAt = k /\ k # Launch
        => RevertedFlip(k) \in RunDocs
    BY <1>4 DEF Rollback, TypeOK, MarkerInv, RunDocs, Submissions, RevertedFlip
  <2>2. k # Launch => RevertedFlip(k) \in RunDocs
    BY <2>1 DEF TypeOK, RevertedFlip
  <2>3. FailedLaunch \in RunDocs
    BY <1>b, DocTypes DEF FailedLaunch
  <2> QED BY <1>4, <2>2, <2>3 DEF Rollback, TypeOK, MarkerInv, Submissions
<1>5. ASSUME NEW k \in Attempts, PublisherDies(k) PROVE TypeOK' /\ MarkerInv'
  BY <1>5 DEF PublisherDies, TypeOK, MarkerInv, Submissions
<1>6. ASSUME CancelRun PROVE TypeOK' /\ MarkerInv'
  BY <1>6, <1>b, DocTypes DEF CancelRun, TypeOK, MarkerInv
<1>7. ASSUME NEW heard \in SUBSET Runners, SignalCancel(heard)
      PROVE TypeOK' /\ MarkerInv'
  BY <1>7 DEF SignalCancel, TypeOK, MarkerInv, Pods, Causes
<1>8. ASSUME NEW r \in Runners, NEW m \in Attempts, Fetch(r, m)
      PROVE TypeOK' /\ MarkerInv'
  <2> DEFINE pod == [IdleRunner EXCEPT !.phase = "fetched", !.msg = m,
                                       !.delivery = msg[m].delivery + 1,
                                       !.resume = m # Launch]
  <2>1. IdleRunner \in Pods /\ msg[m] \in Messages
    BY PodTypes, <1>b DEF TypeOK
  <2>2. /\ msg[m].delivery + 1 \in Nat /\ (m # Launch) \in BOOLEAN
        /\ "fetched" \in Phases /\ "inflight" \in MsgStates
    BY <2>1 DEF Messages, Phases, MsgStates
  <2>3. pod \in Pods
    BY <2>1, <2>2 DEF Pods
  <2>4. runner' \in [Runners -> Pods]
    BY <1>8, <2>3 DEF Fetch, TypeOK
  <2>5. msg' \in [Attempts -> Messages]
    BY <1>8, <2>2 DEF Fetch, TypeOK, Messages
  <2> QED BY <1>8, <2>4, <2>5 DEF Fetch, TypeOK, MarkerInv
<1>9. ASSUME NEW r \in Runners, NEW pool \in BOOLEAN, NEW code \in {"none", "deliberate"},
             RejectMismatch(r, pool, code)
      PROVE TypeOK' /\ MarkerInv'
  BY <1>9, <1>b, DocTypes, MessageTypes, PodTypes
     DEF RejectMismatch, TypeOK, MarkerInv
<1>10. ASSUME NEW r \in Runners, Admit(r) PROVE TypeOK' /\ MarkerInv'
  BY <1>10, <1>b, <1>c DEF Admit, TypeOK, MarkerInv
<1>11. ASSUME NEW r \in Runners, StoreUnread(r) PROVE TypeOK' /\ MarkerInv'
  BY <1>11, <1>b, MessageTypes, PodTypes DEF StoreUnread, TypeOK, MarkerInv
<1>12. ASSUME NEW r \in Runners, LockDeferred(r) PROVE TypeOK' /\ MarkerInv'
  BY <1>12, <1>b, MessageTypes, PodTypes DEF LockDeferred, TypeOK, MarkerInv
<1>13. ASSUME NEW r \in Runners, NEW read \in BOOLEAN, AcquireRunLock(r, read)
      PROVE TypeOK' /\ MarkerInv'
  <2>1. CASE read /\ Superseded(runner[r].msg)
    BY <1>13, <1>b, <2>1, MessageTypes, PodTypes
       DEF AcquireRunLock, TypeOK, MarkerInv
  <2>2. CASE read => ~Superseded(runner[r].msg)
    BY <1>13, <1>b, <2>2, PodTypes DEF AcquireRunLock, TypeOK, MarkerInv
  <2> QED BY <2>1, <2>2
<1>14. ASSUME NEW r \in Runners, LeaveYoung(r) PROVE TypeOK' /\ MarkerInv'
  BY <1>14, <1>b, MessageTypes, PodTypes DEF LeaveYoung, TypeOK, MarkerInv
<1>15. ASSUME NEW r \in Runners, AdoptOrphan(r) PROVE TypeOK' /\ MarkerInv'
  <2> DEFINE pod == [runner[r] EXCEPT !.phase = "starting", !.resume = TRUE]
  <2>1. pod \in Pods
    BY <1>b DEF TypeOK, Pods
  <2>2. runner' = [runner EXCEPT ![r] = pod]
    BY <1>15 DEF AdoptOrphan
  <2> QED BY <1>15, <1>b, <2>1, <2>2, DocTypes DEF AdoptOrphan, TypeOK, MarkerInv
<1>16. ASSUME NEW r \in Runners, NEW landed \in BOOLEAN, AdoptUnanswered(r, landed)
      PROVE TypeOK' /\ MarkerInv'
  BY <1>16, <1>b, DocTypes, PodTypes DEF AdoptUnanswered, TypeOK, MarkerInv
<1>17. ASSUME NEW r \in Runners, AdoptMoved(r) PROVE TypeOK' /\ MarkerInv'
  BY <1>17, <1>b, <1>c DEF AdoptMoved, TypeOK, MarkerInv
<1>18. ASSUME NEW r \in Runners, FailBeforeClaim(r) PROVE TypeOK' /\ MarkerInv'
  BY <1>18, <1>b, PodTypes DEF FailBeforeClaim, TypeOK, MarkerInv
<1>19. ASSUME NEW r \in Runners, NEW status \in Statuses, RefuseBundle(r, status)
      PROVE TypeOK' /\ MarkerInv'
  BY <1>19, <1>b, DocTypes, PodTypes DEF RefuseBundle, TypeOK, MarkerInv
<1>20. ASSUME NEW r \in Runners, RefuseResume(r) PROVE TypeOK' /\ MarkerInv'
  BY <1>20, <1>b, PodTypes DEF RefuseResume, TypeOK, MarkerInv
<1>21. ASSUME NEW r \in Runners, StartLaunch(r) PROVE TypeOK' /\ MarkerInv'
  BY <1>21, <1>b, DocTypes, PodTypes DEF StartLaunch, TypeOK, MarkerInv
<1>22. ASSUME NEW r \in Runners, LoadResume(r) PROVE TypeOK' /\ MarkerInv'
  <2> DEFINE pod == [runner[r] EXCEPT !.phase = "resuming", !.loaded = run.status]
  <2>a. runner[r] \in Pods /\ run.status \in Statuses
    BY DEF TypeOK, RunDocs
  <2>1. pod \in Pods
    BY <1>b, <2>a DEF Pods
  <2>2. \/ runner' = [runner EXCEPT ![r] = pod]
        \/ Return(r, "superseded") \/ Return(r, "failed")
    BY <1>22 DEF LoadResume
  <2> QED BY <1>22, <1>b, <2>1, <2>2, PodTypes DEF LoadResume, TypeOK, MarkerInv
<1>23. ASSUME NEW r \in Runners, ClaimResume(r) PROVE TypeOK' /\ MarkerInv'
  BY <1>23, <1>b, DocTypes, PodTypes DEF ClaimResume, TypeOK, MarkerInv
<1>24. ASSUME NEW r \in Runners, NEW status \in Statuses, EngineSettles(r, status)
      PROVE TypeOK' /\ MarkerInv'
  BY <1>24, <1>b, DocTypes, PodTypes DEF EngineSettles, TypeOK, MarkerInv
<1>25. ASSUME NEW r \in Runners, NEW status \in Statuses, NEW code \in Codes,
             EngineFails(r, status, code)
      PROVE TypeOK' /\ MarkerInv'
  BY <1>25, <1>b, DocTypes, PodTypes DEF EngineFails, TypeOK, MarkerInv
<1>40. ASSUME NEW r \in Runners, NEW code \in Codes, EngineFailsPlainly(r, code)
      PROVE TypeOK' /\ MarkerInv'
  BY <1>40, <1>b, DocTypes, PodTypes DEF EngineFailsPlainly, TypeOK, MarkerInv
<1>41. ASSUME NEW r \in Runners, NEW result \in Results, EngineUnrecorded(r, result)
      PROVE TypeOK' /\ MarkerInv'
  BY <1>41, <1>b, PodTypes DEF EngineUnrecorded, TypeOK, MarkerInv
<1>26. ASSUME NEW r \in Runners, EngineInterrupted(r)
      PROVE TypeOK' /\ MarkerInv'
  BY <1>26, <1>b, DocTypes, PodTypes DEF EngineInterrupted, TypeOK, MarkerInv
<1>27. ASSUME NEW r \in Runners, EngineCancelled(r) PROVE TypeOK' /\ MarkerInv'
  BY <1>27, <1>b, DocTypes, PodTypes DEF EngineCancelled, TypeOK, MarkerInv
<1>28. ASSUME NEW r \in Runners, AckOutcome(r) PROVE TypeOK' /\ MarkerInv'
  <2>1. ReleasedStatus(runner[r].msg) \in Statuses
    BY DEF ReleasedStatus, CanOperatorResume, Statuses
  <2>2. Released(r) \in RunDocs
    BY <2>1, <1>b, DocTypes DEF Released, TypeOK
  <2> QED BY <1>28, <1>b, <2>2, MessageTypes, PodTypes
             DEF AckOutcome, TypeOK, MarkerInv
<1>29. ASSUME NEW r \in Runners, NEW dlqDown \in BOOLEAN, NakOutcome(r, dlqDown)
      PROVE TypeOK' /\ MarkerInv'
  BY <1>29, <1>b, MessageTypes, PodTypes DEF NakOutcome, TypeOK, MarkerInv
<1>30. ASSUME NEW r \in Runners, ParkOnDLQ(r) PROVE TypeOK' /\ MarkerInv'
  BY <1>30, <1>b, DocTypes, MessageTypes, PodTypes
     DEF ParkOnDLQ, TypeOK, MarkerInv
<1>31. ASSUME NEW r \in Runners, NEW read \in BOOLEAN, EndSuperseded(r, read)
      PROVE TypeOK' /\ MarkerInv'
  BY <1>31, <1>b, MessageTypes, PodTypes DEF EndSuperseded, TypeOK, MarkerInv
<1>32. ASSUME NEW r \in Runners, Interrupt(r) PROVE TypeOK' /\ MarkerInv'
  BY <1>32, <1>b DEF Interrupt, TypeOK, MarkerInv, Pods
<1>33. ASSUME NEW r \in Runners, LeaseLapses(r) PROVE TypeOK' /\ MarkerInv'
  BY <1>33 DEF LeaseLapses, TypeOK, MarkerInv
<1>34. ASSUME NEW r \in Runners, Crash(r) PROVE TypeOK' /\ MarkerInv'
  BY <1>34, PodTypes, <1>b DEF Crash, TypeOK, MarkerInv
<1>35. ASSUME LockExpires PROVE TypeOK' /\ MarkerInv'
  BY <1>35 DEF LockExpires, TypeOK, MarkerInv
<1>36. ASSUME NEW k \in Attempts, AckWaitPasses(k) PROVE TypeOK' /\ MarkerInv'
  BY <1>36 DEF AckWaitPasses, TypeOK, MarkerInv, Messages, MsgStates
<1>37. ASSUME SweepProbe PROVE TypeOK' /\ MarkerInv'
  BY <1>37 DEF SweepProbe, TypeOK, MarkerInv
<1>38. ASSUME SweepFlip PROVE TypeOK' /\ MarkerInv'
  BY <1>38, <1>b, DocTypes DEF SweepFlip, TypeOK, MarkerInv
<1>39. ASSUME UNCHANGED vars PROVE TypeOK' /\ MarkerInv'
  BY <1>39 DEF vars, TypeOK, MarkerInv
<1> QED BY <1>1, <1>2, <1>3, <1>4, <1>5, <1>6, <1>7, <1>8, <1>9, <1>10,
           <1>11, <1>12, <1>13, <1>14, <1>15, <1>16, <1>17, <1>18, <1>19,
           <1>20, <1>21, <1>22, <1>23, <1>24, <1>25, <1>26, <1>27, <1>28,
           <1>29, <1>30, <1>31, <1>32, <1>33, <1>34, <1>35, <1>36, <1>37,
           <1>38, <1>39, <1>40, <1>41
       DEF Next, Serve, Submit

\* Every reachable state is well typed.
THEOREM TypeCorrect == Spec => []TypeOK
<1>1. Spec => [](TypeOK /\ MarkerInv)
  BY InitType, TypeStep, PTL DEF Spec
<1> QED BY <1>1, PTL

-----------------------------------------------------------------------------
(* One engine: the lease covers everything from the adoption to the ack.   *)

Holding == {"adopting", "starting", "resuming", "executing", "returned"}

\* While no lease lapses, a pod past the lock holds it.
LockInv == \A r \in Runners : runner[r].phase \in Holding => lock = r

\* A pod that moves on under the lock, or leaves, keeps the others out.
LEMMA LockFrame ==
    ASSUME TypeOK, LockInv, NEW r \in Runners, NEW ph \in Phases,
           NEW res \in Results
    PROVE  /\ Leave(r) => LockInv'
           /\ (runner[r].phase \in Holding \/ ph \notin Holding)
              /\ Advance(r, ph) /\ lock' = lock => LockInv'
           /\ runner[r].phase \in Holding /\ Return(r, res) /\ lock' = lock
              => LockInv'
<1>1. Leave(r) => LockInv'
  BY DEF Leave, LockInv, Holding, IdleRunner, TypeOK
<1>2. (runner[r].phase \in Holding \/ ph \notin Holding)
      /\ Advance(r, ph) /\ lock' = lock => LockInv'
  BY DEF Advance, LockInv, TypeOK, Pods
<1>3. runner[r].phase \in Holding /\ Return(r, res) /\ lock' = lock => LockInv'
  BY DEF Return, LockInv, TypeOK, Pods
<1> QED BY <1>1, <1>2, <1>3

\* Every step keeps the lock with the pods that rely on it.
LEMMA LockStep ==
    Lapses = FALSE /\ TypeOK /\ LockInv /\ [Next]_vars => LockInv'
<1> SUFFICES ASSUME Lapses = FALSE, TypeOK, LockInv, [Next]_vars PROVE LockInv'
  OBVIOUS
<1>a. /\ {"adopting", "starting", "resuming", "executing", "returned"} = Holding
      /\ Holding \subseteq Phases
      /\ {"settled", "refused", "failed", "interrupted", "superseded"}
            \subseteq Results
  BY DEF Holding, Phases, Results
<1>1. ASSUME NEW k \in Attempts, SubmitResume(k) PROVE LockInv'
  BY <1>1 DEF SubmitResume, LockInv
<1>2. ASSUME NEW k \in Attempts, Publish(k) PROVE LockInv'
  BY <1>2 DEF Publish, LockInv
<1>3. ASSUME NEW k \in Attempts, NEW landed \in BOOLEAN, PublishFails(k, landed)
      PROVE LockInv'
  BY <1>3 DEF PublishFails, LockInv
<1>4. ASSUME NEW k \in Attempts, Rollback(k) PROVE LockInv'
  BY <1>4 DEF Rollback, LockInv
<1>5. ASSUME NEW k \in Attempts, PublisherDies(k) PROVE LockInv'
  BY <1>5 DEF PublisherDies, LockInv
<1>6. ASSUME CancelRun PROVE LockInv'
  BY <1>6 DEF CancelRun, LockInv
<1>7. ASSUME NEW heard \in SUBSET Runners, SignalCancel(heard)
      PROVE LockInv'
  BY <1>7 DEF SignalCancel, LockInv, TypeOK, Pods
<1>8. ASSUME NEW r \in Runners, NEW m \in Attempts, Fetch(r, m)
      PROVE LockInv'
  BY <1>8 DEF Fetch, LockInv, Holding, TypeOK, IdleRunner
<1>9. ASSUME NEW r \in Runners, NEW pool \in BOOLEAN, NEW code \in {"none", "deliberate"},
             RejectMismatch(r, pool, code)
      PROVE LockInv'
  BY <1>9, <1>a, LockFrame DEF RejectMismatch
<1>10. ASSUME NEW r \in Runners, Admit(r) PROVE LockInv'
  <2>1. CASE DropSuperseded(r) \/ DropSettled(r)
    BY <2>1, <1>a, LockFrame DEF DropSuperseded, DropSettled
  <2>2. CASE Proceed(r, "admitted")
    <3>1. runner'[r].phase = "admitted" /\ lock' = lock
      BY <2>2 DEF Proceed, TypeOK, Pods
    <3>2. \A q \in Runners \ {r} : runner'[q] = runner[q]
      BY <2>2 DEF Proceed, TypeOK
    <3> QED BY <3>1, <3>2 DEF LockInv, Holding
  <2> QED BY <1>10, <2>1, <2>2 DEF Admit
<1>11. ASSUME NEW r \in Runners, StoreUnread(r) PROVE LockInv'
  BY <1>11, <1>a, LockFrame DEF StoreUnread
<1>12. ASSUME NEW r \in Runners, LockDeferred(r) PROVE LockInv'
  BY <1>12, <1>a, LockFrame DEF LockDeferred
<1>13. ASSUME NEW r \in Runners, NEW read \in BOOLEAN, AcquireRunLock(r, read)
      PROVE LockInv'
  BY <1>13, RunnersAssumption
     DEF AcquireRunLock, Advance, LockInv, Holding, IdleRunner, TypeOK, Pods
<1>14. ASSUME NEW r \in Runners, LeaveYoung(r) PROVE LockInv'
  BY <1>14, <1>a, LockFrame DEF LeaveYoung
<1>15. ASSUME NEW r \in Runners, AdoptOrphan(r) PROVE LockInv'
  BY <1>15 DEF AdoptOrphan, LockInv, Holding, TypeOK, Pods
<1>16. ASSUME NEW r \in Runners, NEW landed \in BOOLEAN, AdoptUnanswered(r, landed)
      PROVE LockInv'
  BY <1>16, <1>a, LockFrame DEF AdoptUnanswered
<1>17. ASSUME NEW r \in Runners, AdoptMoved(r) PROVE LockInv'
  BY <1>17, <1>a, LockFrame
     DEF AdoptMoved, DropSuperseded, DropSettled, Proceed, LockInv, Holding,
         TypeOK, Pods
<1>18. ASSUME NEW r \in Runners, FailBeforeClaim(r) PROVE LockInv'
  BY <1>18, <1>a, LockFrame DEF FailBeforeClaim
<1>19. ASSUME NEW r \in Runners, NEW status \in Statuses, RefuseBundle(r, status)
      PROVE LockInv'
  BY <1>19, <1>a, LockFrame DEF RefuseBundle
<1>20. ASSUME NEW r \in Runners, RefuseResume(r) PROVE LockInv'
  BY <1>20, <1>a, LockFrame DEF RefuseResume
<1>21. ASSUME NEW r \in Runners, StartLaunch(r) PROVE LockInv'
  BY <1>21, <1>a, LockFrame DEF StartLaunch
<1>22. ASSUME NEW r \in Runners, LoadResume(r) PROVE LockInv'
  BY <1>22, <1>a, LockFrame DEF LoadResume, LockInv, TypeOK, Pods
<1>23. ASSUME NEW r \in Runners, ClaimResume(r) PROVE LockInv'
  BY <1>23, <1>a, LockFrame DEF ClaimResume
<1>24. ASSUME NEW r \in Runners, NEW status \in Statuses, EngineSettles(r, status)
      PROVE LockInv'
  BY <1>24, <1>a, LockFrame DEF EngineSettles, Executing
<1>25. ASSUME NEW r \in Runners, NEW status \in Statuses, NEW code \in Codes,
             EngineFails(r, status, code)
      PROVE LockInv'
  BY <1>25, <1>a, LockFrame DEF EngineFails, Executing
<1>40. ASSUME NEW r \in Runners, NEW code \in Codes, EngineFailsPlainly(r, code)
      PROVE LockInv'
  BY <1>40, <1>a, LockFrame DEF EngineFailsPlainly, Executing
<1>41. ASSUME NEW r \in Runners, NEW result \in Results, EngineUnrecorded(r, result)
      PROVE LockInv'
  BY <1>41, <1>a, LockFrame DEF EngineUnrecorded, Executing
<1>26. ASSUME NEW r \in Runners, EngineInterrupted(r) PROVE LockInv'
  BY <1>26, <1>a, LockFrame DEF EngineInterrupted, Executing
<1>27. ASSUME NEW r \in Runners, EngineCancelled(r) PROVE LockInv'
  BY <1>27, <1>a, LockFrame DEF EngineCancelled, Executing
<1>28. ASSUME NEW r \in Runners, AckOutcome(r) PROVE LockInv'
  BY <1>28, <1>a, LockFrame DEF AckOutcome
<1>29. ASSUME NEW r \in Runners, NEW dlqDown \in BOOLEAN, NakOutcome(r, dlqDown)
      PROVE LockInv'
  BY <1>29, <1>a, LockFrame DEF NakOutcome
<1>30. ASSUME NEW r \in Runners, ParkOnDLQ(r) PROVE LockInv'
  BY <1>30, <1>a, LockFrame DEF ParkOnDLQ
<1>31. ASSUME NEW r \in Runners, NEW read \in BOOLEAN, EndSuperseded(r, read)
      PROVE LockInv'
  BY <1>31, <1>a, LockFrame DEF EndSuperseded
<1>32. ASSUME NEW r \in Runners, Interrupt(r) PROVE LockInv'
  BY <1>32 DEF Interrupt, LockInv, TypeOK, Pods
<1>33. ASSUME NEW r \in Runners, LeaseLapses(r) PROVE LockInv'
  BY <1>33 DEF LeaseLapses
<1>34. ASSUME NEW r \in Runners, Crash(r) PROVE LockInv'
  BY <1>34 DEF Crash, LockInv, Holding, IdleRunner, TypeOK
<1>35. ASSUME LockExpires PROVE LockInv'
  BY <1>35, RunnersAssumption DEF LockExpires, LockInv
<1>36. ASSUME NEW k \in Attempts, AckWaitPasses(k) PROVE LockInv'
  BY <1>36 DEF AckWaitPasses, LockInv
<1>37. ASSUME SweepProbe PROVE LockInv'
  BY <1>37 DEF SweepProbe, LockInv
<1>38. ASSUME SweepFlip PROVE LockInv'
  BY <1>38 DEF SweepFlip, LockInv
<1>39. ASSUME UNCHANGED vars PROVE LockInv'
  BY <1>39 DEF vars, LockInv
<1> QED BY <1>1, <1>2, <1>3, <1>4, <1>5, <1>6, <1>7, <1>8, <1>9, <1>10, <1>11,
           <1>12, <1>13, <1>14, <1>15, <1>16, <1>17, <1>18, <1>19, <1>20,
           <1>21, <1>22, <1>23, <1>24, <1>25, <1>26, <1>27, <1>28, <1>29,
           <1>30, <1>31, <1>32, <1>33, <1>34, <1>35, <1>36, <1>37, <1>38,
           <1>39, <1>40, <1>41
       DEF Next, Serve, Submit

\* While no lease lapses under a live pod, at most one engine executes the run
\* (AcquireRunLock to the ack, processOne).
THEOREM OneExecutorHolds ==
    ASSUME Lapses = FALSE
    PROVE  Spec => []OneExecutor
<1>1. Init => LockInv
  BY DEF Init, LockInv, Holding, IdleRunner
<1>2. LockInv => OneExecutor
  BY DEF LockInv, OneExecutor, Executing, Holding
<1>3. TypeOK /\ LockInv /\ [Next]_vars => LockInv'
  BY LockStep
<1>4. Spec => []LockInv
  BY <1>1, <1>3, TypeCorrect, PTL DEF Spec
<1> QED BY <1>2, <1>4, PTL

-----------------------------------------------------------------------------
(* A finished run is settled.                                              *)

\* No engine executes a finished run, and no submission replaced one.
FinishedInv ==
    /\ \A r \in Runners : Executing(r) => run.status # "finished"
    /\ \A k \in Attempts : submit[k].prior # "finished"

\* A step settles soundly: it keeps FinishedInv and leaves a finished run so.
SettlesSoundly ==
    FinishedInv' /\ (run.status = "finished" => run'.status = "finished")

\* The status a conditional write leaves.
LEMMA WrittenStatus ==
    ASSUME TypeOK, NEW s, NEW c
    PROVE  /\ WithStatus(s, c).status = s
           /\ \A from : OutcomeIf(from, s, c).status =
                           IF /\ run.status \in from
                              /\ s = "cancelled" => run.code # "ambiguous"
                           THEN s ELSE run.status
           /\ FailCheckpointed(s, c).status =
                 IF run.status = "cancelled" /\ c # "ambiguous" THEN run.status
                 ELSE s
           /\ \A m : AttemptIf(m, s, c).status =
                        IF QueuedFor(m) THEN s ELSE run.status
BY DEF TypeOK, RunDocs, WithStatus, OutcomeIf, FailCheckpointed, AttemptIf

\* Only the two claims start an engine.
LEMMA EngineFrame ==
    ASSUME TypeOK, NEW r \in Runners, NEW ph, ph # "executing", NEW res
    PROVE  Leave(r) \/ Advance(r, ph) \/ Return(r, res)
           => \A q \in Runners : Executing(q)' => Executing(q) /\ q # r
<1>1. Leave(r) => \A q \in Runners : Executing(q)' => Executing(q) /\ q # r
  BY DEF Leave, Executing, IdleRunner, TypeOK
<1>2. Advance(r, ph) => \A q \in Runners : Executing(q)' => Executing(q) /\ q # r
  BY DEF Advance, Executing, TypeOK, Pods
<1>3. Return(r, res) => \A q \in Runners : Executing(q)' => Executing(q) /\ q # r
  BY DEF Return, Executing, TypeOK, Pods
<1> QED BY <1>1, <1>2, <1>3

\* Every step settles soundly while one engine executes.
LEMMA FinishedStep ==
    TypeOK /\ LockInv /\ FinishedInv /\ [Next]_vars => SettlesSoundly
<1> SUFFICES ASSUME TypeOK, LockInv, FinishedInv, [Next]_vars
             PROVE  SettlesSoundly
  OBVIOUS
<1> USE DEF SettlesSoundly, FinishedInv
<1>a. ASSUME NEW r \in Runners,
             DropSuperseded(r) \/ DropSettled(r)
             \/ Proceed(r, "admitted") \/ Proceed(r, "starting")
      PROVE  \A q \in Runners : Executing(q)' => Executing(q)
  <2>1. CASE DropSuperseded(r) \/ DropSettled(r)
    BY <2>1, EngineFrame DEF DropSuperseded, DropSettled
  <2>2. CASE Proceed(r, "admitted") \/ Proceed(r, "starting")
    BY <2>2 DEF Proceed, Executing, TypeOK, Pods
  <2> QED BY <1>a, <2>1, <2>2
<1>1. ASSUME NEW k \in Attempts, SubmitResume(k) PROVE SettlesSoundly
  BY <1>1 DEF SubmitResume, CanOperatorResume, Executing, TypeOK, Submissions
<1>2. ASSUME NEW k \in Attempts, Publish(k) PROVE SettlesSoundly
  BY <1>2 DEF Publish, Executing, TypeOK, Submissions
<1>3. ASSUME NEW k \in Attempts, NEW landed \in BOOLEAN, PublishFails(k, landed)
      PROVE SettlesSoundly
  BY <1>3 DEF PublishFails, Executing, TypeOK, Submissions
<1>4. ASSUME NEW k \in Attempts, Rollback(k) PROVE SettlesSoundly
  <2>1. run'.status = "finished" <=> run.status = "finished"
    BY <1>4 DEF Rollback, FailedLaunch, RevertedFlip, OutcomeIf, Submissions,
         WithStatus, TypeOK, RunDocs
  <2> QED BY <1>4, <2>1 DEF Rollback, Executing, TypeOK, Submissions
<1>5. ASSUME NEW k \in Attempts, PublisherDies(k) PROVE SettlesSoundly
  BY <1>5 DEF PublisherDies, Executing, TypeOK, Submissions
<1>6. ASSUME CancelRun PROVE SettlesSoundly
  BY <1>6, WrittenStatus DEF CancelRun, CanBeCancelled, Executing
<1>7. ASSUME NEW heard \in SUBSET Runners, SignalCancel(heard)
      PROVE SettlesSoundly
  BY <1>7 DEF SignalCancel, Executing, TypeOK, Pods
<1>8. ASSUME NEW r \in Runners, NEW m \in Attempts, Fetch(r, m)
      PROVE SettlesSoundly
  BY <1>8 DEF Fetch, Executing, TypeOK, IdleRunner
<1>9. ASSUME NEW r \in Runners, NEW pool \in BOOLEAN, NEW code \in {"none", "deliberate"},
             RejectMismatch(r, pool, code)
      PROVE SettlesSoundly
  <2>1. run'.status = "finished" <=> run.status = "finished"
    BY <1>9 DEF RejectMismatch, AttemptIf, QueuedFor, WithStatus, TypeOK,
         RunDocs
  <2> QED BY <1>9, <2>1, EngineFrame DEF RejectMismatch
<1>10. ASSUME NEW r \in Runners, Admit(r) PROVE SettlesSoundly
  BY <1>10, <1>a DEF Admit
<1>11. ASSUME NEW r \in Runners, StoreUnread(r) PROVE SettlesSoundly
  BY <1>11, EngineFrame DEF StoreUnread
<1>12. ASSUME NEW r \in Runners, LockDeferred(r) PROVE SettlesSoundly
  BY <1>12, EngineFrame DEF LockDeferred
<1>13. ASSUME NEW r \in Runners, NEW read \in BOOLEAN, AcquireRunLock(r, read)
      PROVE SettlesSoundly
  <2>1. CASE read /\ Superseded(runner[r].msg)
    BY <1>13, <2>1 DEF AcquireRunLock, Executing, IdleRunner, TypeOK
  <2>2. CASE read => ~Superseded(runner[r].msg)
    <3>1. Advance(r, "adopting") \/ Advance(r, "starting")
      BY <1>13, <2>2 DEF AcquireRunLock
    <3> QED BY <1>13, <2>2, <3>1, EngineFrame DEF AcquireRunLock, Executing
  <2> QED BY <2>1, <2>2
<1>14. ASSUME NEW r \in Runners, LeaveYoung(r) PROVE SettlesSoundly
  BY <1>14, EngineFrame DEF LeaveYoung
<1>15. ASSUME NEW r \in Runners, AdoptOrphan(r) PROVE SettlesSoundly
  BY <1>15, WrittenStatus DEF AdoptOrphan, Executing, TypeOK, Pods
<1>16. ASSUME NEW r \in Runners, NEW landed \in BOOLEAN, AdoptUnanswered(r, landed)
      PROVE SettlesSoundly
  <2>1. run'.status = "finished" <=> run.status = "finished"
    BY <1>16 DEF AdoptUnanswered, WithStatus, TypeOK, RunDocs
  <2> QED BY <1>16, <2>1, EngineFrame DEF AdoptUnanswered
<1>17. ASSUME NEW r \in Runners, AdoptMoved(r) PROVE SettlesSoundly
  BY <1>17, <1>a DEF AdoptMoved
<1>18. ASSUME NEW r \in Runners, FailBeforeClaim(r) PROVE SettlesSoundly
  BY <1>18, EngineFrame DEF FailBeforeClaim
<1>19. ASSUME NEW r \in Runners, NEW status \in Statuses, RefuseBundle(r, status)
      PROVE SettlesSoundly
  <2>1. run'.status = "finished" <=> run.status = "finished"
    BY <1>19 DEF RefuseBundle, OutcomeIf, RunnerVerdictFromStatuses,
         WithStatus, TypeOK, RunDocs
  <2> QED BY <1>19, <2>1, EngineFrame DEF RefuseBundle
<1>20. ASSUME NEW r \in Runners, RefuseResume(r) PROVE SettlesSoundly
  BY <1>20, EngineFrame DEF RefuseResume
<1>21. ASSUME NEW r \in Runners, StartLaunch(r) PROVE SettlesSoundly
  <2>1. CASE run.status \in {"queued", "running"}
    BY <1>21, <2>1, WrittenStatus DEF StartLaunch
  <2>2. CASE run.status \notin {"queued", "running"}
    BY <1>21, <2>2, EngineFrame DEF StartLaunch
  <2> QED BY <2>1, <2>2
<1>22. ASSUME NEW r \in Runners, LoadResume(r) PROVE SettlesSoundly
  <2>1. \A q \in Runners : Executing(q)' => Executing(q)
    BY <1>22, EngineFrame DEF LoadResume, Executing, TypeOK, Pods
  <2> QED BY <1>22, <2>1 DEF LoadResume
<1>23. ASSUME NEW r \in Runners, ClaimResume(r) PROVE SettlesSoundly
  <2>1. CASE Claims(r)
    BY <1>23, <2>1, WrittenStatus DEF ClaimResume, Claims, ClaimableFrom
  <2>2. CASE ~Claims(r)
    BY <1>23, <2>2, EngineFrame DEF ClaimResume
  <2> QED BY <2>1, <2>2
<1>24. ASSUME NEW r \in Runners, NEW status \in Statuses, EngineSettles(r, status)
      PROVE SettlesSoundly
  <2>1. \A q \in Runners : ~Executing(q)'
    BY <1>24, EngineFrame DEF EngineSettles, LockInv, Holding, Executing
  <2> QED BY <1>24, <2>1, WrittenStatus DEF EngineSettles
<1>25. ASSUME NEW r \in Runners, NEW status \in Statuses, NEW code \in Codes,
             EngineFails(r, status, code)
      PROVE SettlesSoundly
  BY <1>25, WrittenStatus, EngineFrame DEF EngineFails, Executing
<1>40. ASSUME NEW r \in Runners, NEW code \in Codes, EngineFailsPlainly(r, code)
      PROVE SettlesSoundly
  BY <1>40, WrittenStatus, EngineFrame DEF EngineFailsPlainly, Executing
<1>41. ASSUME NEW r \in Runners, NEW result \in Results, EngineUnrecorded(r, result)
      PROVE SettlesSoundly
  BY <1>41, EngineFrame DEF EngineUnrecorded
<1>26. ASSUME NEW r \in Runners, EngineInterrupted(r) PROVE SettlesSoundly
  BY <1>26, WrittenStatus, EngineFrame DEF EngineInterrupted
<1>27. ASSUME NEW r \in Runners, EngineCancelled(r) PROVE SettlesSoundly
  <2>1. run'.status = "finished" <=> run.status = "finished"
    BY <1>27 DEF EngineCancelled, OutcomeIf, WithStatus, TypeOK, RunDocs
  <2> QED BY <1>27, <2>1, EngineFrame DEF EngineCancelled
<1>28. ASSUME NEW r \in Runners, AckOutcome(r) PROVE SettlesSoundly
  <2>1. run'.status = "finished" <=> run.status = "finished"
    BY <1>28 DEF AckOutcome, Released, ReleasedStatus, CanOperatorResume,
         AttemptIf, QueuedFor, WithStatus, TypeOK, RunDocs
  <2> QED BY <1>28, <2>1, EngineFrame DEF AckOutcome
<1>29. ASSUME NEW r \in Runners, NEW dlqDown \in BOOLEAN, NakOutcome(r, dlqDown)
      PROVE SettlesSoundly
  BY <1>29, EngineFrame DEF NakOutcome
<1>30. ASSUME NEW r \in Runners, ParkOnDLQ(r) PROVE SettlesSoundly
  <2>1. run'.status = "finished" <=> run.status = "finished"
    BY <1>30 DEF ParkOnDLQ, OutcomeIf, RunnerVerdictFromStatuses, WithStatus,
         TypeOK, RunDocs
  <2> QED BY <1>30, <2>1, EngineFrame DEF ParkOnDLQ
<1>31. ASSUME NEW r \in Runners, NEW read \in BOOLEAN, EndSuperseded(r, read)
      PROVE SettlesSoundly
  BY <1>31, EngineFrame DEF EndSuperseded
<1>32. ASSUME NEW r \in Runners, Interrupt(r) PROVE SettlesSoundly
  BY <1>32 DEF Interrupt, Executing, TypeOK, Pods
<1>33. ASSUME NEW r \in Runners, LeaseLapses(r) PROVE SettlesSoundly
  BY <1>33 DEF LeaseLapses, Executing
<1>34. ASSUME NEW r \in Runners, Crash(r) PROVE SettlesSoundly
  BY <1>34 DEF Crash, Executing, IdleRunner, TypeOK
<1>35. ASSUME LockExpires PROVE SettlesSoundly
  BY <1>35 DEF LockExpires, Executing
<1>36. ASSUME NEW k \in Attempts, AckWaitPasses(k) PROVE SettlesSoundly
  BY <1>36 DEF AckWaitPasses, Executing
<1>37. ASSUME SweepProbe PROVE SettlesSoundly
  BY <1>37 DEF SweepProbe, Executing
<1>38. ASSUME SweepFlip PROVE SettlesSoundly
  <2>1. run'.status = "finished" <=> run.status = "finished"
    BY <1>38 DEF SweepFlip, OutcomeIf, WithStatus, TypeOK, RunDocs
  <2> QED BY <1>38, <2>1 DEF SweepFlip, Executing
<1>39. ASSUME UNCHANGED vars PROVE SettlesSoundly
  BY <1>39 DEF vars, Executing
<1> QED BY <1>1, <1>2, <1>3, <1>4, <1>5, <1>6, <1>7, <1>8, <1>9, <1>10, <1>11,
           <1>12, <1>13, <1>14, <1>15, <1>16, <1>17, <1>18, <1>19, <1>20,
           <1>21, <1>22, <1>23, <1>24, <1>25, <1>26, <1>27, <1>28, <1>29,
           <1>30, <1>31, <1>32, <1>33, <1>34, <1>35, <1>36, <1>37, <1>38,
           <1>39, <1>40, <1>41
       DEF Next, Serve, Submit

\* While no lease lapses under a live pod, nothing moves a finished run.
THEOREM FinishedHolds ==
    ASSUME Lapses = FALSE
    PROVE  Spec => FinishedIsFinal
<1>1. Init => LockInv /\ FinishedInv
  BY DEF Init, LockInv, Holding, FinishedInv, Executing, IdleRunner, NoSubmit
<1>2. TypeOK /\ LockInv /\ FinishedInv /\ [Next]_vars => LockInv' /\ FinishedInv'
  BY LockStep, FinishedStep DEF SettlesSoundly
<1>3. TypeOK /\ LockInv /\ FinishedInv /\ [Next]_vars
      => [run.status = "finished" => run'.status = "finished"]_vars
  BY FinishedStep DEF SettlesSoundly
<1>4. Spec => [](TypeOK /\ LockInv /\ FinishedInv)
  BY <1>1, <1>2, TypeCorrect, PTL DEF Spec
<1> QED BY <1>3, <1>4, PTL DEF Spec, FinishedIsFinal

-----------------------------------------------------------------------------
(* A delivery dropped as stale is never the run's current one again.       *)

Open(k) == submit[k].stage \in {"flipped", "refused"}
Used(k) == submit[k].stage # "unused"

\* A message dropped as stale while it could still have been delivered.
StaleEarly(m) == msg[m].state = "stale" /\ msg[m].delivery < MaxDeliver

\* The queue has counted the delivery that a pod serves.
ServedInv ==
    \A r \in Runners : runner[r].phase # "idle" =>
        /\ runner[r].msg \in Attempts
        /\ runner[r].delivery <= msg[runner[r].msg].delivery

\* Attempts start in order, and the run's marker, and every marker a rollback
\* would restore, is that of an attempt that has started.
OrderInv ==
    /\ Used(run.queuedAt)
    /\ \A j, k \in Attempts : j < k /\ Used(k) => Used(j)
    /\ \A k \in Attempts \ {Launch} :
          Used(k) => /\ submit[k].prior # "queued"
                     /\ Used(submit[k].priorAt)

\* A run queued for an attempt that may still be rolled back goes back to an
\* attempt that supersedes what was dropped too.
DropInv ==
    \A m \in Attempts : StaleEarly(m) =>
        /\ Superseded(m)
        /\ \A k \in Attempts \ {Launch} :
              Open(k) /\ run.status = "queued" /\ run.queuedAt = k
              => submit[k].priorAt > m

AttemptInv == ServedInv /\ OrderInv /\ DropInv

\* No step but a flip or its rollback moves the marker or queues the run.
RunKept ==
    /\ run'.queuedAt = run.queuedAt
    /\ run'.status = "queued" => run.status = "queued"

\* A step drops nothing as stale and forgets no delivery.
MessagesKept ==
    \A m \in Attempts :
        /\ msg'[m].delivery = msg[m].delivery
        /\ msg'[m].state = "stale" => msg[m].state = "stale"

\* A step starts no submission and reopens none.
SubmitKept ==
    \A k \in Attempts :
        /\ submit'[k].prior = submit[k].prior
        /\ submit'[k].priorAt = submit[k].priorAt
        /\ Used(k)' <=> Used(k)
        /\ Open(k)' => Open(k)

\* A step starts no delivery.
PodsKept ==
    \A r \in Runners :
        runner'[r].phase # "idle" =>
            /\ runner[r].phase # "idle"
            /\ runner'[r].msg = runner[r].msg
            /\ runner'[r].delivery = runner[r].delivery

\* A step that only goes on with what has started keeps AttemptInv.
LEMMA AttemptFrame ==
    ASSUME TypeOK, MarkerInv, AttemptInv, RunKept, MessagesKept, SubmitKept, PodsKept
    PROVE  AttemptInv'
<1> USE DEF AttemptInv
<1>1. ServedInv'
  BY DEF ServedInv, MessagesKept, PodsKept
<1>2. run.queuedAt \in Attempts
  BY DEF TypeOK, RunDocs
<1>3. OrderInv'
  <2>1. Used(run.queuedAt)'
    BY <1>2 DEF OrderInv, RunKept, SubmitKept, Used
  <2>2. \A j, k \in Attempts : j < k /\ Used(k)' => Used(j)'
    BY DEF OrderInv, SubmitKept
  <2>3. ASSUME NEW k \in Attempts \ {Launch}, Used(k)'
        PROVE  submit'[k].prior # "queued" /\ Used(submit[k].priorAt)'
    <3>1. Used(k) /\ submit[k].priorAt \in Attempts /\ Used(submit[k].priorAt)
      BY <2>3 DEF OrderInv, SubmitKept, MarkerInv, Used
    <3>2. submit'[submit'[k].priorAt].stage # "unused"
      BY <2>3, <3>1 DEF SubmitKept, Used
    <3> QED BY <2>3, <3>1, <3>2 DEF OrderInv, SubmitKept, Used
  <2> QED BY <2>1, <2>2, <2>3 DEF OrderInv, Used
<1>4. DropInv'
  BY DEF DropInv, RunKept, MessagesKept, SubmitKept, StaleEarly, Superseded, Open
<1> QED BY <1>1, <1>3, <1>4

\* How the writes of the run document keep the marker.
LEMMA WritesKeepRun ==
    ASSUME TypeOK, NEW s, s # "queued", NEW c
    PROVE  /\ run' = run => RunKept
           /\ run' = WithStatus(s, c) => RunKept
           /\ \A from : run' = OutcomeIf(from, s, c) => RunKept
           /\ run' = FailCheckpointed(s, c) => RunKept
           /\ \A m : run' = AttemptIf(m, s, c) => RunKept
<1>1. WithStatus(s, c).status = s /\ WithStatus(s, c).queuedAt = run.queuedAt
  BY DEF TypeOK, RunDocs, WithStatus
<1> QED BY <1>1 DEF RunKept, OutcomeIf, FailCheckpointed, AttemptIf

\* How the answers to the queue keep the messages.
LEMMA AnswersKeepMessages ==
    ASSUME TypeOK, NEW r \in Runners, NEW st, st # "stale"
    PROVE  /\ msg' = msg => MessagesKept
           /\ msg' = Reoffered(r) => MessagesKept
           /\ msg' = Ended(r, st) => MessagesKept
BY DEF TypeOK, Messages, MessagesKept, Reoffered, Ended

\* How a pod's moves keep the deliveries.
LEMMA MovesKeepPods ==
    ASSUME TypeOK, NEW r \in Runners, NEW ph, NEW res
    PROVE  /\ runner' = runner => PodsKept
           /\ Leave(r) => PodsKept
           /\ runner' = [runner EXCEPT ![r] = IdleRunner] => PodsKept
           /\ runner[r].phase # "idle" /\ Advance(r, ph) => PodsKept
           /\ runner[r].phase # "idle" /\ Return(r, res) => PodsKept
<1>1. runner' = [runner EXCEPT ![r] = IdleRunner] => PodsKept
  BY DEF TypeOK, PodsKept, IdleRunner
<1>2. runner[r].phase # "idle" /\ Advance(r, ph) => PodsKept
  BY DEF TypeOK, Pods, PodsKept, Advance
<1>3. runner[r].phase # "idle" /\ Return(r, res) => PodsKept
  BY DEF TypeOK, Pods, PodsKept, Return
<1> QED BY <1>1, <1>2, <1>3 DEF PodsKept, Leave

\* A drop as stale is sound: a newer attempt was claimed or settled, or this
\* was the last delivery.
LEMMA StaleDropKeeps ==
    ASSUME TypeOK, MarkerInv, AttemptInv, NEW r \in Runners,
           runner[r].phase # "idle", msg' = Ended(r, "stale"),
           LastDelivery(r) \/ (Superseded(runner[r].msg) /\ run.status # "queued"),
           run' = run, submit' = submit, PodsKept
    PROVE  AttemptInv'
<1> DEFINE m == runner[r].msg
<1>1. m \in Attempts /\ runner[r].delivery <= msg[m].delivery
  BY DEF AttemptInv, ServedInv
<1>2. \A n \in Attempts : /\ msg'[n].delivery = msg[n].delivery
                          /\ n # m => msg'[n].state = msg[n].state
  BY <1>1 DEF TypeOK, Messages, Ended
<1>3. ServedInv'
  BY <1>2 DEF AttemptInv, ServedInv, PodsKept
<1>4. OrderInv'
  BY DEF AttemptInv, OrderInv, Used
<1>5. ASSUME NEW n \in Attempts, StaleEarly(n)'
      PROVE  /\ Superseded(n)'
             /\ \A k \in Attempts \ {Launch} :
                   Open(k)' /\ run'.status = "queued" /\ run'.queuedAt = k
                   => submit'[k].priorAt > n
  <2>1. CASE n = m
    <3>1. msg[m].delivery < MaxDeliver /\ msg[m].delivery \in Nat
      BY <1>1, <1>2, <1>5, <2>1 DEF StaleEarly, TypeOK, Messages
    <3>2. ~LastDelivery(r)
      BY <1>1, <3>1, BoundsAssumption DEF LastDelivery, TypeOK, Pods
    <3> QED BY <2>1, <3>2 DEF Superseded
  <2>2. CASE n # m
    <3>1. StaleEarly(n)
      BY <1>2, <1>5, <2>2 DEF StaleEarly
    <3> QED BY <3>1 DEF AttemptInv, DropInv, Superseded, Open
  <2> QED BY <2>1, <2>2
<1> QED BY <1>3, <1>4, <1>5 DEF AttemptInv, DropInv

\* Every step keeps AttemptInv.
LEMMA AttemptStep ==
    TypeOK /\ MarkerInv /\ AttemptInv /\ [Next]_vars => AttemptInv'
<1> SUFFICES ASSUME TypeOK, MarkerInv, AttemptInv, [Next]_vars PROVE AttemptInv'
  OBVIOUS
<1>r. run' = run => RunKept
  BY DEF RunKept
<1>m. msg' = msg => MessagesKept
  BY DEF MessagesKept
<1>s. submit' = submit => SubmitKept
  BY DEF SubmitKept, Used, Open
<1>p. runner' = runner => PodsKept
  BY DEF PodsKept
<1>d. ASSUME NEW r \in Runners, NEW phase, runner[r].phase # "idle",
             UNCHANGED <<run, submit>>,
             DropSuperseded(r) \/ DropSettled(r) \/ Proceed(r, phase)
      PROVE  AttemptInv'
  <2>1. CASE DropSuperseded(r)
    <3>1. PodsKept
      BY <2>1, MovesKeepPods DEF DropSuperseded
    <3>2. CASE run.status = "queued" /\ ~LastDelivery(r)
      <4>1. MessagesKept
        BY <2>1, <3>2, AnswersKeepMessages DEF DropSuperseded
      <4> QED BY <1>d, <1>r, <1>s, <3>1, <4>1, AttemptFrame
    <3>3. CASE ~(run.status = "queued" /\ ~LastDelivery(r))
      BY <1>d, <2>1, <3>1, <3>3, StaleDropKeeps DEF DropSuperseded
    <3> QED BY <3>2, <3>3
  <2>2. CASE DropSettled(r)
    <3>1. PodsKept /\ MessagesKept
      BY <2>2, MovesKeepPods, AnswersKeepMessages DEF DropSettled
    <3> QED BY <1>d, <1>r, <1>s, <3>1, AttemptFrame
  <2>3. CASE Proceed(r, phase)
    <3>1. PodsKept
      BY <1>d, <2>3 DEF Proceed, PodsKept, TypeOK, Pods
    <3> QED BY <1>d, <1>r, <1>s, <1>m, <2>3, <3>1, AttemptFrame DEF Proceed
  <2> QED BY <1>d, <2>1, <2>2, <2>3
<1>1. ASSUME NEW k \in Attempts, SubmitResume(k) PROVE AttemptInv'
  <2>1. /\ submit'[k].stage = "flipped" /\ submit'[k].prior = run.status
        /\ submit'[k].priorAt = run.queuedAt
        /\ \A j \in Attempts \ {k} : submit'[j] = submit[j]
    BY <1>1 DEF SubmitResume, TypeOK
  <2>2. run'.status = "queued" /\ run'.queuedAt = k /\ run.queuedAt \in Attempts
    BY <1>1 DEF SubmitResume, TypeOK, RunDocs
  <2>3. \A j \in Attempts : Used(j)' <=> Used(j) \/ j = k
    BY <2>1 DEF Used
  <2>4. ~Used(k) /\ \A j \in Attempts : j < k => Used(j)
    BY <1>1 DEF SubmitResume, Used
  <2>5. run.queuedAt < k
    <3>1. run.queuedAt \in Nat /\ k \in Nat
      BY <2>2, LaunchIsAttempt
    <3>2. Used(run.queuedAt) /\ ~(k < run.queuedAt)
      BY <2>2, <2>4 DEF AttemptInv, OrderInv
    <3>3. run.queuedAt # k
      BY <2>4, <3>2
    <3> QED BY <3>1, <3>2, <3>3
  <2>6. ServedInv'
    BY <1>1 DEF SubmitResume, AttemptInv, ServedInv
  <2>7. OrderInv'
    <3>1. Used(run.queuedAt)'
      BY <2>1, <2>2 DEF Used
    <3>2. \A i, j \in Attempts : i < j /\ Used(j)' => Used(i)'
      BY <2>3, <2>4, LaunchIsAttempt DEF AttemptInv, OrderInv
    <3>3. ASSUME NEW j \in Attempts \ {Launch}, Used(j)'
          PROVE  submit'[j].prior # "queued" /\ Used(submit[j].priorAt)'
      <4>1. CASE j = k
        <5>1. run.status # "queued" /\ Used(run.queuedAt) /\ run.queuedAt # k
          BY <1>1, <2>2, <2>5, LaunchIsAttempt
             DEF SubmitResume, CanOperatorResume, AttemptInv, OrderInv
        <5> QED BY <2>1, <2>2, <4>1, <5>1 DEF Used
      <4>2. CASE j # k
        <5>1. Used(j) /\ submit[j].priorAt \in Attempts
          BY <2>3, <3>3, <4>2 DEF MarkerInv, Used
        <5>2. submit[j].prior # "queued" /\ Used(submit[j].priorAt)
          BY <3>3, <5>1 DEF AttemptInv, OrderInv
        <5> QED BY <2>1, <2>4, <4>2, <5>1, <5>2 DEF Used
      <4> QED BY <4>1, <4>2
    <3> QED BY <3>1, <3>2, <3>3 DEF OrderInv, Used
  <2>8. DropInv'
    <3> SUFFICES ASSUME NEW m \in Attempts, StaleEarly(m)'
                 PROVE  k > m /\ run.queuedAt > m
      BY <2>1, <2>2 DEF DropInv, Superseded, Open
    <3>1. run.queuedAt > m
      BY <1>1 DEF SubmitResume, StaleEarly, AttemptInv, DropInv, Superseded
    <3>2. run.queuedAt \in Nat /\ k \in Nat /\ m \in Nat
      BY <2>2, LaunchIsAttempt
    <3> QED BY <2>5, <3>1, <3>2
  <2> QED BY <2>6, <2>7, <2>8 DEF AttemptInv
<1>2. ASSUME NEW k \in Attempts, Publish(k) PROVE AttemptInv'
  <2>1. SubmitKept
    BY <1>2 DEF Publish, SubmitKept, Used, Open, TypeOK, Submissions
  <2>2. MessagesKept
    BY <1>2 DEF Publish, MessagesKept, TypeOK, Messages
  <2> QED BY <1>2, <1>r, <1>p, <2>1, <2>2, AttemptFrame DEF Publish
<1>3. ASSUME NEW k \in Attempts, NEW landed \in BOOLEAN, PublishFails(k, landed)
      PROVE AttemptInv'
  <2>1. SubmitKept
    BY <1>3 DEF PublishFails, SubmitKept, Used, Open, TypeOK, Submissions
  <2>2. MessagesKept
    BY <1>3 DEF PublishFails, MessagesKept, TypeOK, Messages
  <2> QED BY <1>3, <1>r, <1>p, <2>1, <2>2, AttemptFrame DEF PublishFails
<1>4. ASSUME NEW k \in Attempts, Rollback(k) PROVE AttemptInv'
  <2>1. SubmitKept
    BY <1>4 DEF Rollback, SubmitKept, Used, Open, TypeOK, Submissions
  <2>2. CASE k = Launch \/ run.status # "queued" \/ run.queuedAt # k
    <3>1. RunKept
      BY <1>4, <1>r, <2>2, WritesKeepRun
         DEF Rollback, FailedLaunch, RevertedFlip
    <3> QED BY <1>4, <1>m, <1>p, <2>1, <3>1, AttemptFrame DEF Rollback
  <2>3. CASE k # Launch /\ run.status = "queued" /\ run.queuedAt = k
    <3>1. /\ run'.status = submit[k].prior
          /\ run'.queuedAt = submit[k].priorAt
      BY <1>4, <2>3 DEF Rollback, RevertedFlip
    <3>2. Used(k) /\ Open(k) /\ submit[k].priorAt \in Attempts
      BY <1>4, <2>3 DEF Rollback, Used, Open, MarkerInv
    <3>3. submit[k].prior # "queued" /\ Used(submit[k].priorAt)
      BY <2>3, <3>2 DEF AttemptInv, OrderInv
    <3>4. ServedInv'
      BY <1>4 DEF Rollback, AttemptInv, ServedInv
    <3>5. OrderInv'
      <4>1. Used(run.queuedAt)'
        BY <2>1, <3>1, <3>2, <3>3 DEF SubmitKept, Used
      <4>2. \A i, j \in Attempts : i < j /\ Used(j)' => Used(i)'
        BY <2>1 DEF SubmitKept, AttemptInv, OrderInv
      <4>3. ASSUME NEW j \in Attempts \ {Launch}, Used(j)'
            PROVE  submit'[j].prior # "queued" /\ Used(submit[j].priorAt)'
        <5>1. Used(j) /\ submit[j].priorAt \in Attempts
          BY <2>1, <4>3 DEF SubmitKept, MarkerInv, Used
        <5>2. submit[j].prior # "queued" /\ Used(submit[j].priorAt)
          BY <4>3, <5>1 DEF AttemptInv, OrderInv
        <5> QED BY <2>1, <4>3, <5>1, <5>2 DEF SubmitKept, Used
      <4> QED BY <4>1, <4>2, <4>3 DEF OrderInv, Used
    <3>6. DropInv'
      <4> SUFFICES ASSUME NEW m \in Attempts, StaleEarly(m)'
                   PROVE  submit[k].priorAt > m
        BY <3>1, <3>3 DEF DropInv, Superseded
      <4>1. StaleEarly(m)
        BY <1>4 DEF Rollback, StaleEarly
      <4> QED BY <2>3, <3>2, <4>1 DEF AttemptInv, DropInv
    <3> QED BY <3>4, <3>5, <3>6 DEF AttemptInv
  <2> QED BY <2>2, <2>3
<1>5. ASSUME NEW k \in Attempts, PublisherDies(k) PROVE AttemptInv'
  <2>1. SubmitKept
    BY <1>5 DEF PublisherDies, SubmitKept, Used, Open, TypeOK, Submissions
  <2> QED BY <1>5, <1>r, <1>m, <1>p, <2>1, AttemptFrame DEF PublisherDies
<1>6. ASSUME CancelRun PROVE AttemptInv'
  <2>1. RunKept
    BY <1>6, WritesKeepRun DEF CancelRun
  <2> QED BY <1>6, <1>m, <1>s, <1>p, <2>1, AttemptFrame DEF CancelRun
<1>7. ASSUME NEW heard \in SUBSET Runners, SignalCancel(heard)
      PROVE AttemptInv'
  <2>1. PodsKept
    BY <1>7 DEF SignalCancel, PodsKept, TypeOK, Pods
  <2> QED BY <1>7, <1>r, <1>m, <1>s, <2>1, AttemptFrame DEF SignalCancel
<1>8. ASSUME NEW r \in Runners, NEW m \in Attempts, Fetch(r, m)
      PROVE AttemptInv'
  <2>1. /\ runner'[r].msg = m /\ runner'[r].delivery = msg[m].delivery + 1
        /\ \A q \in Runners \ {r} : runner'[q] = runner[q]
    BY <1>8 DEF Fetch, TypeOK, IdleRunner
  <2>2. /\ msg'[m].delivery = msg[m].delivery + 1 /\ msg'[m].state = "inflight"
        /\ \A n \in Attempts \ {m} : msg'[n] = msg[n]
        /\ \A n \in Attempts : msg[n].delivery \in Nat
    BY <1>8 DEF Fetch, TypeOK, Messages
  <2>3. ServedInv'
    <3> SUFFICES ASSUME NEW q \in Runners, runner'[q].phase # "idle"
                 PROVE  /\ runner'[q].msg \in Attempts
                        /\ runner'[q].delivery <= msg'[runner'[q].msg].delivery
      BY DEF ServedInv
    <3>1. CASE q = r
      BY <2>1, <2>2, <3>1
    <3>2. CASE q # r
      <4>1. /\ runner[q].msg \in Attempts /\ runner'[q] = runner[q]
            /\ runner[q].delivery <= msg[runner[q].msg].delivery
        BY <2>1, <3>2 DEF AttemptInv, ServedInv
      <4>2. runner[q].delivery \in Nat
        BY DEF TypeOK, Pods
      <4> QED BY <2>2, <4>1, <4>2
    <3> QED BY <3>1, <3>2
  <2>4. OrderInv' /\ DropInv'
    BY <1>8, <2>2 DEF Fetch, AttemptInv, OrderInv, DropInv, Used, Open,
                     StaleEarly, Superseded
  <2> QED BY <2>3, <2>4 DEF AttemptInv
<1>9. ASSUME NEW r \in Runners, NEW pool \in BOOLEAN, NEW code \in {"none", "deliberate"},
             RejectMismatch(r, pool, code)
      PROVE AttemptInv'
  <2>1. RunKept
    BY <1>9, WritesKeepRun DEF RejectMismatch
  <2>2. MessagesKept
    BY <1>9, AnswersKeepMessages DEF RejectMismatch
  <2>3. PodsKept
    BY <1>9, MovesKeepPods DEF RejectMismatch
  <2> QED BY <1>9, <1>s, <2>1, <2>2, <2>3, AttemptFrame DEF RejectMismatch
<1>10. ASSUME NEW r \in Runners, Admit(r) PROVE AttemptInv'
  BY <1>10, <1>d DEF Admit
<1>11. ASSUME NEW r \in Runners, StoreUnread(r) PROVE AttemptInv'
  <2>1. MessagesKept
    BY <1>11, AnswersKeepMessages DEF StoreUnread
  <2>2. PodsKept
    BY <1>11, MovesKeepPods DEF StoreUnread
  <2> QED BY <1>11, <1>r, <1>s, <2>1, <2>2, AttemptFrame DEF StoreUnread
<1>12. ASSUME NEW r \in Runners, LockDeferred(r) PROVE AttemptInv'
  <2>1. MessagesKept
    BY <1>12, AnswersKeepMessages DEF LockDeferred
  <2>2. PodsKept
    BY <1>12, MovesKeepPods DEF LockDeferred
  <2> QED BY <1>12, <1>r, <1>s, <2>1, <2>2, AttemptFrame DEF LockDeferred
<1>13. ASSUME NEW r \in Runners, NEW read \in BOOLEAN, AcquireRunLock(r, read)
      PROVE AttemptInv'
  <2>1. CASE read /\ Superseded(runner[r].msg)
    <3>1. PodsKept
      BY <1>13, <2>1, MovesKeepPods DEF AcquireRunLock
    <3>2. CASE msg' = Reoffered(r)
      <4>1. MessagesKept
        BY <3>2, AnswersKeepMessages
      <4> QED BY <1>13, <1>r, <1>s, <3>1, <4>1, AttemptFrame DEF AcquireRunLock
    <3>3. CASE msg' # Reoffered(r)
      BY <1>13, <2>1, <3>1, <3>3, StaleDropKeeps DEF AcquireRunLock
    <3> QED BY <3>2, <3>3
  <2>2. CASE read => ~Superseded(runner[r].msg)
    <3>1. PodsKept
      BY <1>13, <2>2, MovesKeepPods DEF AcquireRunLock
    <3> QED BY <1>13, <1>r, <1>s, <1>m, <2>2, <3>1, AttemptFrame
               DEF AcquireRunLock
  <2> QED BY <2>1, <2>2
<1>14. ASSUME NEW r \in Runners, LeaveYoung(r) PROVE AttemptInv'
  <2>1. MessagesKept
    BY <1>14, AnswersKeepMessages DEF LeaveYoung
  <2>2. PodsKept
    BY <1>14, MovesKeepPods DEF LeaveYoung
  <2> QED BY <1>14, <1>r, <1>s, <2>1, <2>2, AttemptFrame DEF LeaveYoung
<1>15. ASSUME NEW r \in Runners, AdoptOrphan(r) PROVE AttemptInv'
  <2>1. RunKept
    BY <1>15, WritesKeepRun DEF AdoptOrphan
  <2>2. PodsKept
    BY <1>15 DEF AdoptOrphan, PodsKept, TypeOK, Pods
  <2> QED BY <1>15, <1>m, <1>s, <2>1, <2>2, AttemptFrame DEF AdoptOrphan
<1>16. ASSUME NEW r \in Runners, NEW landed \in BOOLEAN, AdoptUnanswered(r, landed)
      PROVE AttemptInv'
  <2>1. RunKept
    BY <1>16, WritesKeepRun DEF AdoptUnanswered
  <2>2. PodsKept
    BY <1>16, MovesKeepPods DEF AdoptUnanswered
  <2> QED BY <1>16, <1>m, <1>s, <2>1, <2>2, AttemptFrame DEF AdoptUnanswered
<1>17. ASSUME NEW r \in Runners, AdoptMoved(r) PROVE AttemptInv'
  BY <1>17, <1>d DEF AdoptMoved
<1>18. ASSUME NEW r \in Runners, FailBeforeClaim(r) PROVE AttemptInv'
  <2>1. PodsKept
    BY <1>18, MovesKeepPods DEF FailBeforeClaim
  <2> QED BY <1>18, <1>r, <1>m, <1>s, <2>1, AttemptFrame DEF FailBeforeClaim
<1>19. ASSUME NEW r \in Runners, NEW status \in Statuses, RefuseBundle(r, status)
      PROVE AttemptInv'
  <2>1. RunKept
    BY <1>19, WritesKeepRun DEF RefuseBundle
  <2>2. PodsKept
    BY <1>19, MovesKeepPods DEF RefuseBundle
  <2> QED BY <1>19, <1>m, <1>s, <2>1, <2>2, AttemptFrame DEF RefuseBundle
<1>20. ASSUME NEW r \in Runners, RefuseResume(r) PROVE AttemptInv'
  <2>1. PodsKept
    BY <1>20, MovesKeepPods DEF RefuseResume
  <2> QED BY <1>20, <1>r, <1>m, <1>s, <2>1, AttemptFrame DEF RefuseResume
<1>21. ASSUME NEW r \in Runners, StartLaunch(r) PROVE AttemptInv'
  <2>1. RunKept
    BY <1>21, WritesKeepRun DEF StartLaunch
  <2>2. PodsKept
    BY <1>21, MovesKeepPods DEF StartLaunch
  <2> QED BY <1>21, <1>m, <1>s, <2>1, <2>2, AttemptFrame DEF StartLaunch
<1>22. ASSUME NEW r \in Runners, LoadResume(r) PROVE AttemptInv'
  <2>1. CASE Return(r, "superseded") \/ Return(r, "failed")
    BY <1>22, <1>r, <1>m, <1>s, <2>1, AttemptFrame, MovesKeepPods DEF LoadResume
  <2>2. CASE ~(Return(r, "superseded") \/ Return(r, "failed"))
    <3> DEFINE pod == [runner[r] EXCEPT !.phase = "resuming", !.loaded = run.status]
    <3>2. runner' = [runner EXCEPT ![r] = pod] /\ runner[r].phase = "starting"
      BY <1>22, <2>2 DEF LoadResume
    <3>3. pod.msg = runner[r].msg /\ pod.delivery = runner[r].delivery
      BY DEF TypeOK, Pods
    <3>4. \A q \in Runners : runner'[q] = IF q = r THEN pod ELSE runner[q]
      BY <3>2 DEF TypeOK
    <3>1. PodsKept
      BY <3>2, <3>3, <3>4 DEF PodsKept
    <3> QED BY <1>22, <1>r, <1>m, <1>s, <3>1, AttemptFrame DEF LoadResume
  <2> QED BY <2>1, <2>2
<1>23. ASSUME NEW r \in Runners, ClaimResume(r) PROVE AttemptInv'
  <2>1. RunKept
    BY <1>23, WritesKeepRun DEF ClaimResume
  <2>2. PodsKept
    BY <1>23, MovesKeepPods DEF ClaimResume
  <2> QED BY <1>23, <1>m, <1>s, <2>1, <2>2, AttemptFrame DEF ClaimResume
<1>24. ASSUME NEW r \in Runners, NEW status \in Statuses, EngineSettles(r, status)
      PROVE AttemptInv'
  <2>1. RunKept
    BY <1>24, WritesKeepRun DEF EngineSettles
  <2>2. PodsKept
    BY <1>24, MovesKeepPods DEF EngineSettles, Executing
  <2> QED BY <1>24, <1>m, <1>s, <2>1, <2>2, AttemptFrame DEF EngineSettles
<1>25. ASSUME NEW r \in Runners, NEW status \in Statuses, NEW code \in Codes,
             EngineFails(r, status, code)
      PROVE AttemptInv'
  <2>1. RunKept
    BY <1>25, WritesKeepRun DEF EngineFails
  <2>2. PodsKept
    BY <1>25, MovesKeepPods DEF EngineFails, Executing
  <2> QED BY <1>25, <1>m, <1>s, <2>1, <2>2, AttemptFrame DEF EngineFails
<1>40. ASSUME NEW r \in Runners, NEW code \in Codes, EngineFailsPlainly(r, code)
      PROVE AttemptInv'
  <2>1. RunKept
    BY <1>40, WritesKeepRun DEF EngineFailsPlainly
  <2>2. PodsKept
    BY <1>40, MovesKeepPods DEF EngineFailsPlainly, Executing
  <2> QED BY <1>40, <1>m, <1>s, <2>1, <2>2, AttemptFrame DEF EngineFailsPlainly
<1>41. ASSUME NEW r \in Runners, NEW result \in Results, EngineUnrecorded(r, result)
      PROVE AttemptInv'
  <2>1. RunKept
    BY <1>41, WritesKeepRun DEF EngineUnrecorded
  <2>2. PodsKept
    BY <1>41, MovesKeepPods DEF EngineUnrecorded, Executing
  <2> QED BY <1>41, <1>m, <1>s, <2>1, <2>2, AttemptFrame DEF EngineUnrecorded
<1>26. ASSUME NEW r \in Runners, EngineInterrupted(r) PROVE AttemptInv'
  <2>1. RunKept
    BY <1>26, WritesKeepRun DEF EngineInterrupted
  <2>2. PodsKept
    BY <1>26, MovesKeepPods DEF EngineInterrupted, Executing
  <2> QED BY <1>26, <1>m, <1>s, <2>1, <2>2, AttemptFrame DEF EngineInterrupted
<1>27. ASSUME NEW r \in Runners, EngineCancelled(r) PROVE AttemptInv'
  <2>1. RunKept
    BY <1>27, WritesKeepRun DEF EngineCancelled
  <2>2. PodsKept
    BY <1>27, MovesKeepPods DEF EngineCancelled, Executing
  <2> QED BY <1>27, <1>m, <1>s, <2>1, <2>2, AttemptFrame DEF EngineCancelled
<1>28. ASSUME NEW r \in Runners, AckOutcome(r) PROVE AttemptInv'
  <2>1. RunKept
    <3>1. ReleasedStatus(runner[r].msg) # "queued"
      BY DEF ReleasedStatus, CanOperatorResume
    <3> QED BY <1>28, <3>1, <1>r, WritesKeepRun DEF AckOutcome, Released
  <2>2. MessagesKept
    BY <1>28, AnswersKeepMessages DEF AckOutcome
  <2>3. PodsKept
    BY <1>28, MovesKeepPods DEF AckOutcome
  <2> QED BY <1>28, <1>s, <2>1, <2>2, <2>3, AttemptFrame DEF AckOutcome
<1>29. ASSUME NEW r \in Runners, NEW dlqDown \in BOOLEAN, NakOutcome(r, dlqDown)
      PROVE AttemptInv'
  <2>1. MessagesKept
    BY <1>29, AnswersKeepMessages DEF NakOutcome
  <2>2. PodsKept
    BY <1>29, MovesKeepPods DEF NakOutcome
  <2> QED BY <1>29, <1>r, <1>s, <2>1, <2>2, AttemptFrame DEF NakOutcome
<1>30. ASSUME NEW r \in Runners, ParkOnDLQ(r) PROVE AttemptInv'
  <2>1. RunKept
    BY <1>30, WritesKeepRun DEF ParkOnDLQ
  <2>2. MessagesKept
    BY <1>30, AnswersKeepMessages DEF ParkOnDLQ
  <2>3. PodsKept
    BY <1>30, MovesKeepPods DEF ParkOnDLQ
  <2> QED BY <1>30, <1>s, <2>1, <2>2, <2>3, AttemptFrame DEF ParkOnDLQ
<1>31. ASSUME NEW r \in Runners, NEW read \in BOOLEAN, EndSuperseded(r, read)
      PROVE AttemptInv'
  <2>1. PodsKept
    BY <1>31, MovesKeepPods DEF EndSuperseded
  <2>2. CASE msg' = Reoffered(r)
    <3>1. MessagesKept
      BY <2>2, AnswersKeepMessages
    <3> QED BY <1>31, <1>r, <1>s, <2>1, <3>1, AttemptFrame DEF EndSuperseded
  <2>3. CASE msg' # Reoffered(r)
    BY <1>31, <2>1, <2>3, StaleDropKeeps DEF EndSuperseded
  <2> QED BY <2>2, <2>3
<1>32. ASSUME NEW r \in Runners, Interrupt(r) PROVE AttemptInv'
  <2>1. PodsKept
    BY <1>32 DEF Interrupt, PodsKept, TypeOK, Pods
  <2> QED BY <1>32, <1>r, <1>m, <1>s, <2>1, AttemptFrame DEF Interrupt
<1>33. ASSUME NEW r \in Runners, LeaseLapses(r) PROVE AttemptInv'
  BY <1>33, <1>r, <1>m, <1>s, <1>p, AttemptFrame DEF LeaseLapses
<1>34. ASSUME NEW r \in Runners, Crash(r) PROVE AttemptInv'
  <2>1. PodsKept
    BY <1>34, MovesKeepPods DEF Crash
  <2> QED BY <1>34, <1>r, <1>m, <1>s, <2>1, AttemptFrame DEF Crash
<1>35. ASSUME LockExpires PROVE AttemptInv'
  BY <1>35, <1>r, <1>m, <1>s, <1>p, AttemptFrame DEF LockExpires
<1>36. ASSUME NEW k \in Attempts, AckWaitPasses(k) PROVE AttemptInv'
  <2>1. MessagesKept
    BY <1>36 DEF AckWaitPasses, MessagesKept, TypeOK, Messages
  <2> QED BY <1>36, <1>r, <1>s, <1>p, <2>1, AttemptFrame DEF AckWaitPasses
<1>37. ASSUME SweepProbe PROVE AttemptInv'
  BY <1>37, <1>r, <1>m, <1>s, <1>p, AttemptFrame DEF SweepProbe
<1>38. ASSUME SweepFlip PROVE AttemptInv'
  <2>1. RunKept
    BY <1>38, WritesKeepRun DEF SweepFlip
  <2> QED BY <1>38, <1>m, <1>s, <1>p, <2>1, AttemptFrame DEF SweepFlip
<1>39. ASSUME UNCHANGED vars PROVE AttemptInv'
  BY <1>39, <1>r, <1>m, <1>s, <1>p, AttemptFrame DEF vars
<1> QED BY <1>1, <1>2, <1>3, <1>4, <1>5, <1>6, <1>7, <1>8, <1>9, <1>10, <1>11,
           <1>12, <1>13, <1>14, <1>15, <1>16, <1>17, <1>18, <1>19, <1>20,
           <1>21, <1>22, <1>23, <1>24, <1>25, <1>26, <1>27, <1>28, <1>29,
           <1>30, <1>31, <1>32, <1>33, <1>34, <1>35, <1>36, <1>37, <1>38,
           <1>39, <1>40, <1>41
       DEF Next, Serve, Submit

\* Whatever leases do, a delivery dropped as stale with budget left stays
\* superseded: no rollback makes its attempt the run's current one again.
THEOREM StaleDropHolds == Spec => []StaleDropIsFinal
<1>1. Init => AttemptInv
  <2> SUFFICES ASSUME Init PROVE AttemptInv
    OBVIOUS
  <2>1. /\ run.queuedAt = Launch /\ submit[Launch].stage = "flipped"
        /\ \A k \in Attempts \ {Launch} : submit[k].stage = "unused"
    BY LaunchIsAttempt DEF Init, NoSubmit
  <2>2. \A k \in Attempts : ~(k < Launch)
    BY DEF Attempts, Launch
  <2>3. OrderInv
    BY <2>1, <2>2 DEF OrderInv, Used
  <2>4. ServedInv /\ DropInv
    BY DEF Init, ServedInv, DropInv, IdleRunner, StaleEarly
  <2> QED BY <2>3, <2>4 DEF AttemptInv
<1>2. AttemptInv => StaleDropIsFinal
  BY DEF AttemptInv, DropInv, StaleDropIsFinal, StaleEarly
<1>3. Spec => [](TypeOK /\ MarkerInv)
  BY InitType, TypeStep, PTL DEF Spec
<1>4. Spec => []AttemptInv
  BY <1>1, <1>3, AttemptStep, PTL DEF Spec
<1> QED BY <1>2, <1>4, PTL
-----------------------------------------------------------------------------
(* What a step may do to a run that was cancelled, or queued again.        *)

\* Writes of the run document that belong to no delivery.
WritesElsewhere ==
    \/ \E k \in Attempts : SubmitResume(k) \/ Rollback(k)
    \/ CancelRun \/ SweepFlip

\* Writes of the run document by the delivery that r serves.
WritesAs(r) ==
    \/ \E pool \in BOOLEAN, code \in {"none", "deliberate"} :
          RejectMismatch(r, pool, code)
    \/ AdoptOrphan(r) \/ (\E landed \in BOOLEAN : AdoptUnanswered(r, landed))
    \/ \E status \in Statuses : RefuseBundle(r, status) \/ EngineSettles(r, status)
    \/ StartLaunch(r) \/ ClaimResume(r)
    \/ \E status \in Statuses, code \in Codes : EngineFails(r, status, code)
    \/ \E code \in Codes : EngineFailsPlainly(r, code)
    \/ EngineInterrupted(r) \/ EngineCancelled(r)
    \/ AckOutcome(r) \/ ParkOnDLQ(r)

\* Every step that touches the run document is one of those.
LEMMA RunWriters ==
    ASSUME [Next]_vars, run' # run
    PROVE  WritesElsewhere \/ \E r \in Runners : WritesAs(r)
BY DEF Next, Serve, Submit, vars, WritesElsewhere, WritesAs, Publish,
       PublishFails, PublisherDies, AckWaitPasses, SignalCancel, Fetch, Admit,
       StoreUnread, LockDeferred, AcquireRunLock, EndSuperseded, LeaveYoung,
       AdoptMoved, FailBeforeClaim, RefuseResume, LoadResume, NakOutcome,
       EngineUnrecorded, Interrupt, LeaseLapses, Crash, LockExpires, SweepProbe

\* A step of one delivery moves no other pod, and ends its own phase.
LEMMA WriterSteps ==
    ASSUME TypeOK, NEW r \in Runners, WritesAs(r)
    PROVE  /\ Steps(r)
           /\ \A q \in Runners \ {r} : ~Steps(q)
           /\ UNCHANGED submit
<1>1. ASSUME NEW ph, Advance(r, ph), ph # runner[r].phase
      PROVE  Steps(r) /\ \A q \in Runners \ {r} : ~Steps(q)
  BY <1>1 DEF Advance, Steps, TypeOK, Pods
<1>2. ASSUME NEW res, Return(r, res), runner[r].phase # "returned"
      PROVE  Steps(r) /\ \A q \in Runners \ {r} : ~Steps(q)
  BY <1>2 DEF Return, Steps, TypeOK, Pods
<1>3. ASSUME Leave(r), runner[r].phase # "idle"
      PROVE  Steps(r) /\ \A q \in Runners \ {r} : ~Steps(q)
  BY <1>3 DEF Leave, Steps, TypeOK, IdleRunner
<1>4. CASE AdoptOrphan(r)
  BY <1>4 DEF AdoptOrphan, Steps, TypeOK, Pods
<1>5. CASE \E landed \in BOOLEAN : AdoptUnanswered(r, landed)
  BY <1>1, <1>5 DEF AdoptUnanswered
<1>6. CASE StartLaunch(r) \/ ClaimResume(r)
  BY <1>1, <1>2, <1>6 DEF StartLaunch, ClaimResume
<1>7. CASE \/ \E status \in Statuses : RefuseBundle(r, status)
                                       \/ EngineSettles(r, status)
           \/ \E status \in Statuses, code \in Codes : EngineFails(r, status, code)
           \/ \E code \in Codes : EngineFailsPlainly(r, code)
           \/ EngineInterrupted(r) \/ EngineCancelled(r)
  BY <1>2, <1>7 DEF RefuseBundle, EngineSettles, EngineFails, EngineFailsPlainly,
     EngineInterrupted, EngineCancelled, Executing
<1>8. CASE \/ \E pool \in BOOLEAN, code \in {"none", "deliberate"} :
                 RejectMismatch(r, pool, code)
           \/ AckOutcome(r) \/ ParkOnDLQ(r)
  BY <1>3, <1>8 DEF RejectMismatch, AckOutcome, ParkOnDLQ
<1> QED BY <1>4, <1>5, <1>6, <1>7, <1>8 DEF WritesAs

\* A write that no delivery makes steps no pod.
LEMMA ElsewhereSteps ==
    ASSUME WritesElsewhere PROVE \A q \in Runners : ~Steps(q)
BY DEF WritesElsewhere, SubmitResume, Rollback, CancelRun, SweepFlip, Steps

\* A cancelled run is left only by an operator's resume, by an engine that
\* executes it and leaves nothing a redelivery would resume, or by a resume that
\* had read it before.
LEMMA CancelStep ==
    ASSUME TypeOK, [Next]_vars, run.status = "cancelled",
           run'.status # "cancelled"
    PROVE  \/ \E k \in Attempts : /\ submit[k].stage = "unused"
                                  /\ submit'[k].stage = "flipped"
           \/ \E r \in Runners :
                 /\ Steps(r)
                 /\ \/ /\ Executing(r)
                       /\ run'.status = "failed_resumable"
                             => run'.code = "ambiguous"
                    \/ /\ runner[r].phase = "resuming"
                       /\ runner[r].loaded # "queued"
                       /\ run'.status = "running"
<1> DEFINE Goal == \/ \E k \in Attempts : /\ submit[k].stage = "unused"
                                          /\ submit'[k].stage = "flipped"
                   \/ \E r \in Runners :
                         /\ Steps(r)
                         /\ \/ /\ Executing(r)
                               /\ run'.status = "failed_resumable"
                                     => run'.code = "ambiguous"
                            \/ /\ runner[r].phase = "resuming"
                               /\ runner[r].loaded # "queued"
                               /\ run'.status = "running"
<1>1. CASE WritesElsewhere
  <2>1. ASSUME NEW k \in Attempts, SubmitResume(k) PROVE Goal
    BY <2>1 DEF SubmitResume, TypeOK, Submissions
  <2>2. ASSUME NEW k \in Attempts, Rollback(k) PROVE FALSE
    BY <2>2 DEF Rollback, FailedLaunch, RevertedFlip, OutcomeIf
  <2>3. ~CancelRun BY DEF CancelRun, CanBeCancelled
  <2>4. ~SweepFlip
    BY DEF SweepFlip, OutcomeIf, TypeOK
  <2> QED BY <1>1, <2>1, <2>2, <2>3, <2>4 DEF WritesElsewhere
<1>2. ASSUME NEW r \in Runners, WritesAs(r) PROVE Goal
  <2>1. Steps(r) BY <1>2, WriterSteps
  <2>2. ASSUME NEW status \in Statuses, EngineSettles(r, status) PROVE Goal
    <3>1. Executing(r) /\ run'.status # "failed_resumable"
      BY <2>2, WrittenStatus DEF EngineSettles
    <3> QED BY <2>1, <3>1
  <2>3. CASE ClaimResume(r)
    <3>1. Claims(r) BY <2>3 DEF ClaimResume
    <3>2. run'.status = "running" /\ runner[r].phase = "resuming"
      BY <2>3, <3>1, WrittenStatus DEF ClaimResume
    <3>3. runner[r].loaded # "queued"
      BY <3>1 DEF Claims, ClaimableFrom
    <3> QED BY <2>1, <3>2, <3>3
  <2>4. CASE EngineCancelled(r)
    BY <2>4 DEF EngineCancelled, OutcomeIf
  <2>5. ASSUME NEW pool \in BOOLEAN, NEW code \in {"none", "deliberate"},
               RejectMismatch(r, pool, code)
        PROVE  Goal
    BY <2>5 DEF RejectMismatch, AttemptIf, QueuedFor
  <2>6. CASE AdoptOrphan(r) \/ \E landed \in BOOLEAN : AdoptUnanswered(r, landed)
    BY <2>6 DEF AdoptOrphan, AdoptUnanswered
  <2>7. ASSUME NEW status \in Statuses, RefuseBundle(r, status) PROVE Goal
    BY <2>7 DEF RefuseBundle, OutcomeIf, RunnerVerdictFromStatuses
  <2>8. CASE StartLaunch(r)
    BY <2>8 DEF StartLaunch
  <2>9. CASE EngineInterrupted(r)
    BY <2>9, WrittenStatus DEF EngineInterrupted
  <2>10. ASSUME NEW status \in Statuses, NEW code \in Codes,
                EngineFails(r, status, code)
         PROVE  Goal
    <3>1. Executing(r) /\ run' = FailCheckpointed(status, code)
      BY <2>10 DEF EngineFails
    <3>2. code = "ambiguous"
      BY <3>1 DEF FailCheckpointed
    <3>3. run'.status = "failed_resumable" => run'.code = "ambiguous"
      BY <3>1, <3>2 DEF FailCheckpointed, WithStatus, TypeOK, RunDocs
    <3> QED BY <2>1, <3>1, <3>3
  <2>11. ASSUME NEW code \in Codes, EngineFailsPlainly(r, code) PROVE Goal
    <3>1. Executing(r) /\ run'.status # "failed_resumable"
      BY <2>11, WrittenStatus DEF EngineFailsPlainly
    <3> QED BY <2>1, <3>1
  <2>12. CASE AckOutcome(r)
    BY <2>12 DEF AckOutcome, Released, AttemptIf, QueuedFor
  <2>13. CASE ParkOnDLQ(r)
    BY <2>13 DEF ParkOnDLQ, OutcomeIf, RunnerVerdictFromStatuses
  <2> QED BY <1>2, <2>2, <2>3, <2>4, <2>5, <2>6, <2>7, <2>8, <2>9, <2>10, <2>11,
             <2>12, <2>13
          DEF WritesAs
<1> QED BY <1>1, <1>2, RunWriters

\* Only a failure that waits for a resume carries a code, in the document and in
\* what a rollback would restore.
CodeInv ==
    /\ run.status # "failed_resumable" => run.code = "none"
    /\ \A k \in Attempts : submit[k].prior # "failed_resumable"
                              => submit[k].priorCode = "none"

\* Only a step of a submission writes its record.
LEMMA SubmitWriters ==
    ASSUME [Next]_vars
    PROVE  \/ submit' = submit
           \/ \E j \in Attempts :
                 \/ SubmitResume(j) \/ Publish(j) \/ Rollback(j) \/ PublisherDies(j)
                 \/ \E landed \in BOOLEAN : PublishFails(j, landed)
<1>1. ASSUME NEW r \in Runners, Serve(r) PROVE submit' = submit
  BY <1>1 DEF Serve, RejectMismatch, Admit, StoreUnread, LockDeferred,
     AcquireRunLock, LeaveYoung, AdoptOrphan, AdoptUnanswered, AdoptMoved,
     FailBeforeClaim, RefuseBundle, RefuseResume, StartLaunch, LoadResume,
     ClaimResume, EngineSettles, EngineFails, EngineFailsPlainly,
     EngineUnrecorded, EngineInterrupted, EngineCancelled, AckOutcome,
     NakOutcome, ParkOnDLQ, EndSuperseded
<1> QED BY <1>1 DEF Next, Submit, vars, AckWaitPasses, CancelRun, SignalCancel,
           Fetch, Interrupt, LeaseLapses, Crash, LockExpires, SweepProbe, SweepFlip

\* Every step keeps codes with the failures that carry them.
LEMMA CodeStep == TypeOK /\ CodeInv /\ [Next]_vars => CodeInv'
<1> SUFFICES ASSUME TypeOK, CodeInv, [Next]_vars PROVE CodeInv'
  OBVIOUS
<1> DEFINE DocCoded == run'.status # "failed_resumable" => run'.code = "none"
<1>1. ASSUME NEW s, NEW c, run' = WithStatus(s, c) PROVE DocCoded
  BY <1>1 DEF WithStatus, TypeOK, RunDocs
<1>2. ASSUME NEW s, NEW c, NEW from, run' = OutcomeIf(from, s, c) PROVE DocCoded
  BY <1>1, <1>2 DEF OutcomeIf, CodeInv
<1>3. ASSUME NEW s, NEW c, NEW m, run' = AttemptIf(m, s, c) PROVE DocCoded
  BY <1>1, <1>3 DEF AttemptIf, CodeInv
<1>4. ASSUME NEW s, NEW c, run' = FailCheckpointed(s, c) PROVE DocCoded
  BY <1>1, <1>4 DEF FailCheckpointed, CodeInv
<1>5. ASSUME run' = run PROVE DocCoded
  BY <1>5 DEF CodeInv
<1>6. ASSUME NEW r \in Runners, WritesAs(r) PROVE DocCoded
  <2>1. ASSUME \/ \E pool \in BOOLEAN, code \in {"none", "deliberate"} :
                     RejectMismatch(r, pool, code)
               \/ AckOutcome(r) \/ ParkOnDLQ(r)
               \/ \E status \in Statuses : RefuseBundle(r, status)
        PROVE  DocCoded
    BY <2>1, <1>2, <1>3, <1>5
       DEF RejectMismatch, AckOutcome, Released, ParkOnDLQ, RefuseBundle
  <2>2. ASSUME \/ AdoptOrphan(r)
               \/ \E landed \in BOOLEAN : AdoptUnanswered(r, landed)
               \/ StartLaunch(r) \/ ClaimResume(r)
        PROVE  DocCoded
    BY <2>2, <1>1, <1>5 DEF AdoptOrphan, AdoptUnanswered, StartLaunch, ClaimResume
  <2>3. ASSUME \/ \E status \in Statuses : EngineSettles(r, status)
               \/ \E status \in Statuses, code \in Codes :
                     EngineFails(r, status, code)
               \/ \E code \in Codes : EngineFailsPlainly(r, code)
               \/ EngineInterrupted(r) \/ EngineCancelled(r)
        PROVE  DocCoded
    BY <2>3, <1>1, <1>2, <1>4 DEF EngineSettles, EngineFails, EngineFailsPlainly,
       EngineInterrupted, EngineCancelled
  <2> QED BY <1>6, <2>1, <2>2, <2>3 DEF WritesAs
<1>7. ASSUME WritesElsewhere PROVE DocCoded
  <2>1. ASSUME NEW k \in Attempts, SubmitResume(k) PROVE DocCoded
    BY <2>1 DEF SubmitResume
  <2>2. ASSUME NEW k \in Attempts, Rollback(k) PROVE DocCoded
    <3>1. ASSUME run' = FailedLaunch PROVE DocCoded
      BY <3>1, <1>2 DEF FailedLaunch
    <3>2. ASSUME run' = RevertedFlip(k) PROVE DocCoded
      BY <3>2, <1>5 DEF RevertedFlip, CodeInv
    <3> QED BY <2>2, <3>1, <3>2 DEF Rollback
  <2>3. ASSUME CancelRun \/ SweepFlip PROVE DocCoded
    BY <2>3, <1>1, <1>2 DEF CancelRun, SweepFlip
  <2> QED BY <1>7, <2>1, <2>2, <2>3 DEF WritesElsewhere
<1>8. DocCoded
  BY <1>5, <1>6, <1>7, RunWriters
<1>9. ASSUME NEW k \in Attempts
      PROVE  submit'[k].prior # "failed_resumable" => submit'[k].priorCode = "none"
  <2>1. ASSUME NEW j \in Attempts, SubmitResume(j)
        PROVE  submit'[k].prior # "failed_resumable" => submit'[k].priorCode = "none"
    BY <2>1 DEF SubmitResume, CodeInv, TypeOK
  <2>2. ASSUME NEW j \in Attempts,
               \/ Publish(j) \/ Rollback(j) \/ PublisherDies(j)
               \/ \E landed \in BOOLEAN : PublishFails(j, landed)
        PROVE  submit'[k].prior # "failed_resumable" => submit'[k].priorCode = "none"
    <3>1. submit'[k].prior = submit[k].prior /\ submit'[k].priorCode = submit[k].priorCode
      BY <2>2 DEF TypeOK, Submissions, Publish, Rollback, PublisherDies, PublishFails
    <3> QED BY <3>1 DEF CodeInv
  <2>3. ASSUME submit' = submit
        PROVE  submit'[k].prior # "failed_resumable" => submit'[k].priorCode = "none"
    BY <2>3 DEF CodeInv
  <2> QED BY <2>1, <2>2, <2>3, SubmitWriters
<1> QED BY <1>8, <1>9 DEF CodeInv

\* No step covers an undecided effect with a cancel.
LEMMA UndecidedStep ==
    ASSUME TypeOK, CodeInv, [Next]_vars, run.code = "ambiguous"
    PROVE  run'.status # "cancelled"
<1>1. run.status = "failed_resumable" /\ run.status # "cancelled"
  BY DEF CodeInv
<1>2. CASE run' = run
  BY <1>1, <1>2
<1>3. CASE WritesElsewhere
  <2>1. ASSUME NEW k \in Attempts, SubmitResume(k) PROVE run'.status # "cancelled"
    BY <2>1 DEF SubmitResume
  <2>2. ASSUME NEW k \in Attempts, Rollback(k) PROVE run'.status # "cancelled"
    BY <2>2, <1>1 DEF Rollback, FailedLaunch, RevertedFlip, OutcomeIf
  <2>3. ~CancelRun
    BY DEF CancelRun
  <2>4. CASE SweepFlip
    BY <2>4, <1>1 DEF SweepFlip, OutcomeIf, WithStatus, TypeOK, RunDocs
  <2> QED BY <1>3, <2>1, <2>2, <2>3, <2>4 DEF WritesElsewhere
<1>4. ASSUME NEW r \in Runners, WritesAs(r) PROVE run'.status # "cancelled"
  <2>1. CASE \/ \E pool \in BOOLEAN, code \in {"none", "deliberate"} :
                   RejectMismatch(r, pool, code)
             \/ AckOutcome(r)
    BY <2>1, <1>1 DEF RejectMismatch, AckOutcome, Released, AttemptIf, QueuedFor
  <2>2. CASE ParkOnDLQ(r) \/ \E status \in Statuses : RefuseBundle(r, status)
    <3>1. run' = run \/ \E s \in {"failed_resumable", "failed"}, c \in Codes :
                           run' = WithStatus(s, c)
      BY <2>2 DEF ParkOnDLQ, RefuseBundle, OutcomeIf, Codes
    <3> QED BY <3>1, <1>1 DEF WithStatus, TypeOK, RunDocs
  <2>3. CASE \/ AdoptOrphan(r) \/ \E landed \in BOOLEAN : AdoptUnanswered(r, landed)
             \/ StartLaunch(r) \/ ClaimResume(r)
    BY <2>3, <1>1, WrittenStatus
       DEF AdoptOrphan, AdoptUnanswered, StartLaunch, ClaimResume
  <2>4. CASE \/ \E status \in Statuses : EngineSettles(r, status)
             \/ \E status \in Statuses, code \in Codes : EngineFails(r, status, code)
             \/ \E code \in Codes : EngineFailsPlainly(r, code)
             \/ EngineInterrupted(r)
    BY <2>4, <1>1, WrittenStatus
       DEF EngineSettles, EngineFails, EngineFailsPlainly, EngineInterrupted
  <2>5. CASE EngineCancelled(r)
    BY <2>5, <1>1 DEF EngineCancelled, OutcomeIf
  <2> QED BY <1>4, <2>1, <2>2, <2>3, <2>4, <2>5 DEF WritesAs
<1> QED BY <1>2, <1>3, <1>4, RunWriters

\* A cancel and a failure that race: the failure does not win by writing last,
\* unless it is an undecided effect, which no cancel covers either, or leaves
\* nothing to resume; whatever leases lapse (failRunCheckpointed,
\* UpdateRunOutcome, casResumeClaim).
THEOREM CancelHolds == Spec => CancelOutranksFailure
<1>1. TypeOK /\ CodeInv /\ [Next]_vars =>
        [/\ run.status = "cancelled" /\ run'.status # "cancelled" =>
             \/ \E k \in Attempts : submit[k].stage = "unused"
                                    /\ submit'[k].stage = "flipped"
             \/ \E r \in Runners :
                   /\ Steps(r)
                   /\ \/ /\ Executing(r)
                         /\ run'.status = "failed_resumable"
                               => run'.code = "ambiguous"
                      \/ /\ runner[r].phase = "resuming"
                         /\ runner[r].loaded # "queued"
                         /\ run'.status = "running"
         /\ run.code = "ambiguous" => run'.status # "cancelled"]_vars
  BY CancelStep, UndecidedStep
<1>2. Init => CodeInv
  BY DEF Init, CodeInv, NoSubmit
<1>3. Spec => []CodeInv
  BY <1>2, CodeStep, TypeCorrect, PTL DEF Spec
<1> QED BY <1>1, <1>3, TypeCorrect, PTL DEF Spec, CancelOutranksFailure

\* The delivery that r serves is at a step whose write the store compares with
\* the marker of the attempt.
Fenced(r) ==
    \/ runner[r].phase \in {"fetched", "admitted", "adopting", "resuming"}
    \/ runner[r].phase = "starting" /\ runner[r].resume
    \/ runner[r].phase = "returned" /\ runner[r].result = "refused"

\* A fenced step of r does not move a run queued for a newer attempt.
LEMMA FencedStep ==
    ASSUME TypeOK, [Next]_vars, NEW r \in Runners, Fenced(r)
    PROVE  ~TakesNewerAttempt(r)
<1> SUFFICES ASSUME TakesNewerAttempt(r) PROVE FALSE
  OBVIOUS
<1>1. /\ Steps(r) /\ run' # run
      /\ run.status = "queued" /\ run'.status # "queued"
      /\ Superseded(runner[r].msg)
  BY DEF TakesNewerAttempt, Superseded
<1>2. WritesAs(r)
  BY <1>1, RunWriters, WriterSteps, ElsewhereSteps
<1>3. ASSUME NEW pool \in BOOLEAN, NEW code \in {"none", "deliberate"},
             RejectMismatch(r, pool, code)
      PROVE  FALSE
  BY <1>1, <1>3 DEF RejectMismatch, AttemptIf, QueuedFor
<1>4. CASE AdoptOrphan(r) \/ \E landed \in BOOLEAN : AdoptUnanswered(r, landed)
  BY <1>1, <1>4 DEF AdoptOrphan, AdoptUnanswered
<1>5. ASSUME NEW status \in Statuses, RefuseBundle(r, status) PROVE FALSE
  <2>1. runner[r].resume BY <1>5 DEF RefuseBundle, Fenced
  <2> QED BY <1>1, <1>5, <2>1 DEF RefuseBundle, OutcomeIf
<1>6. CASE StartLaunch(r)
  BY <1>6 DEF StartLaunch, Fenced
<1>7. CASE ClaimResume(r)
  BY <1>1, <1>7 DEF ClaimResume, Claims
<1>8. CASE \/ \E status \in Statuses : EngineSettles(r, status)
           \/ \E status \in Statuses, code \in Codes : EngineFails(r, status, code)
           \/ \E code \in Codes : EngineFailsPlainly(r, code)
           \/ EngineInterrupted(r) \/ EngineCancelled(r)
  BY <1>8 DEF EngineSettles, EngineFails, EngineFailsPlainly, EngineInterrupted,
     EngineCancelled, Executing, Fenced
<1>9. CASE AckOutcome(r)
  BY <1>1, <1>9 DEF AckOutcome, Released, AttemptIf, QueuedFor
<1>10. CASE ParkOnDLQ(r)
  BY <1>10 DEF ParkOnDLQ, Fenced
<1> QED BY <1>2, <1>3, <1>4, <1>5, <1>6, <1>7, <1>8, <1>9, <1>10 DEF WritesAs

\* Where the store compares the marker, no delivery moves an attempt queued
\* after its publication, whatever leases lapse and whatever is redelivered
\* (claimQueuedAttempt, releaseRefusedResume, transitionQueuedAttempt).
THEOREM FencedHolds == Spec => FencedStepsKeepNewerAttempt
<1>1. TypeOK /\ [Next]_vars =>
        [\A r \in Runners :
          \/ runner[r].phase \in {"fetched", "admitted", "adopting", "resuming"}
          \/ runner[r].phase = "starting" /\ runner[r].resume
          \/ runner[r].phase = "returned" /\ runner[r].result = "refused"
          => ~TakesNewerAttempt(r)]_vars
  BY FencedStep DEF Fenced
<1> QED BY <1>1, TypeCorrect, PTL DEF Spec, FencedStepsKeepNewerAttempt
=============================================================================
