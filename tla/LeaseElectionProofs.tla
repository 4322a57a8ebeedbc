------------------------- MODULE LeaseElectionProofs -------------------------
(***************************************************************************)
(* Proofs about LeaseElection: for every instance type correctness and     *)
(* expiries that never move back; for every instance whose clocks and late *)
(* writes are bounded as ClockBound and LagBound say exclusive terms; and, *)
(* within TakeoverBound and with a store that answers, that a dead holder  *)
(* is replaced in time.                                                    *)
(***************************************************************************)
EXTENDS LeaseElection, TLAPS

\* The clocks of two replicas differ, and fn unwinds, within the step-down
\* margin of TTL/6.
ClockBound ==
    \A c, d \in Candidates : Skew[d] + Unwind < Margin + Skew[c]

\* The write of a release its caller gave up on lands before that caller's
\* next attempt, or never.
LagBound == MaxLag < Retry

-----------------------------------------------------------------------------
(* The inductive invariant.                                                *)

\* Each phase has its own outstanding call, and no call outlives its limit.
CallInv ==
    \A c \in Candidates :
        /\ phase[c] = "acquiring" => call[c].kind = "acquire"
        /\ phase[c] = "serving" => call[c].kind \in {"none", "renew"}
        /\ phase[c] = "releasing" => call[c].kind = "release"
        /\ phase[c] \in {"waiting", "stopping", "down"} => call[c].kind = "none"
        /\ call[c].kind = "none" => ~call[c].landed
        /\ call[c].kind # "none" =>
              /\ call[c].sent <= now
              /\ now <= call[c].sent + CallLimit(call[c].kind)

\* The work of a term has stopped when its timer runs out.
PromptInv == \A c \in Candidates : Running(c) => now <= timer[c]

\* A term that is served, or about to be, owns the lease until after it ends,
\* on the clock of every replica.
HeldBy(c) ==
    /\ phase[c] = "acquiring" /\ call[c].landed /\ call[c].ok =>
          /\ lease.owner = c
          /\ Stamp(c, call[c].sent) + TTL <= lease.expires
    /\ Running(c) => lease.owner = c
    /\ phase[c] = "serving" =>
          /\ timer[c] + Margin + Skew[c] <= lease.expires
          /\ call[c].landed =>
                /\ call[c].ok
                /\ Stamp(c, call[c].sent) + TTL <= lease.expires
    /\ phase[c] = "stopping" =>
          \A d \in Candidates : timer[c] + Skew[d] < lease.expires

HeldInv == \A c \in Candidates : HeldBy(c)

\* A late write is recent, and a late release meets no term of its owner.
LateInv ==
    \A w \in late :
        /\ w.sent <= now /\ now <= w.sent + MaxLag
        /\ w.kind = "release" =>
              /\ phase[w.owner] \notin {"acquiring", "serving", "stopping"}
              /\ phase[w.owner] = "waiting" => w.sent + MaxLag < timer[w.owner]

IndInv == TypeOK /\ CallInv /\ PromptInv /\ HeldInv /\ LateInv

-----------------------------------------------------------------------------
\* The constants are numbers, and the margin is shorter than the TTL.
LEMMA Durations ==
    /\ TTL \in Nat /\ Retry \in Nat /\ Backoff \in Nat
    /\ ReleaseTimeout \in Nat /\ Unwind \in Nat /\ MaxLag \in Nat
    /\ RenewEvery \in Nat /\ Margin \in Nat
    /\ RenewEvery + Margin <= TTL
    /\ \A c \in Candidates : Skew[c] \in Nat
    /\ \A k : CallLimit(k) \in Nat
BY DurationAssumption, Z3 DEF RenewEvery, Margin, CallLimit

-----------------------------------------------------------------------------
(* Type correctness.                                                       *)

\* Whatever write lands leaves the store with a well-formed lease document.
LEMMA WriteType ==
    ASSUME NEW c \in Candidates, NEW k \in Kinds, NEW t \in Nat, TypeOK
    PROVE  /\ AfterWrite(k, c, t) \in
                 [owner : Candidates \cup {NoOwner}, expires : Nat]
           /\ Answer(k, c, t) \in BOOLEAN
<1>1. Stamp(c, t) \in Nat /\ Stamp(c, t) + TTL \in Nat
  BY Durations DEF Stamp
<1>2. AfterAcquire(c, t) \in [owner : Candidates \cup {NoOwner}, expires : Nat]
  BY <1>1 DEF TypeOK, AfterAcquire, Later
<1>3. AfterRenew(c, t) \in [owner : Candidates \cup {NoOwner}, expires : Nat]
  BY <1>1 DEF TypeOK, AfterRenew, Later
<1>4. AfterRelease(c) \in [owner : Candidates \cup {NoOwner}, expires : Nat]
  BY DEF TypeOK, AfterRelease, Free
<1>5. AcquireGranted(c, t) \in BOOLEAN
  BY DEF AcquireGranted
<1>6. CASE k = "acquire" BY <1>2, <1>5, <1>6 DEF AfterWrite, Answer
<1>7. CASE k = "renew"   BY <1>3, <1>7 DEF AfterWrite, Answer
<1>8. CASE k = "release" BY <1>4, <1>8 DEF AfterWrite, Answer
<1> QED BY <1>6, <1>7, <1>8 DEF Kinds

\* What the steps assign to call, late and timer is well typed.
LEMMA CallTypes ==
    ASSUME NEW c \in Candidates, TypeOK
    PROVE  /\ call[c] \in Calls
           /\ NoCall \in Calls
           /\ \A k \in Kinds : NewCall(k) \in Calls
           /\ Abandoned(c) \subseteq Writes
           /\ StepDownAt(call[c].sent) \in Nat
BY Durations
   DEF TypeOK, Calls, Writes, Kinds, NoCall, NewCall, Abandoned, StepDownAt

\* Every step of the election keeps the state well typed.
LEMMA TypeStep == TypeOK /\ [Next]_vars => TypeOK'
<1> SUFFICES ASSUME TypeOK, [Next]_vars PROVE TypeOK'
  OBVIOUS
<1> USE Durations
<1>1. ASSUME NEW c \in Candidates, TryAcquire(c) PROVE TypeOK'
  BY <1>1, CallTypes DEF TypeOK, TryAcquire, Phases, Kinds
<1>2. ASSUME NEW c \in Candidates, Land(c) PROVE TypeOK'
  <2>1. call[c] \in Calls /\ call[c].kind \in Kinds /\ call[c].sent \in Nat
    BY <1>2, CallTypes DEF Land, Calls
  <2>2. call' \in [Candidates -> Calls]
    BY <1>2, <2>1, WriteType DEF TypeOK, Land, Calls
  <2>3. lease' \in [owner : Candidates \cup {NoOwner}, expires : Nat]
    BY <1>2, <2>1, WriteType DEF Land
  <2> QED BY <1>2, <2>2, <2>3 DEF TypeOK, Land
<1>3. ASSUME NEW c \in Candidates, BeginTerm(c) PROVE TypeOK'
  BY <1>3, CallTypes DEF TypeOK, BeginTerm, Phases
<1>4. ASSUME NEW c \in Candidates, Refused(c) PROVE TypeOK'
  BY <1>4, CallTypes DEF TypeOK, Refused, Phases
<1>5. ASSUME NEW c \in Candidates, Unanswered(c) PROVE TypeOK'
  BY <1>5, CallTypes DEF TypeOK, Unanswered, Phases, Kinds
<1>6. ASSUME NEW c \in Candidates, Renew(c) PROVE TypeOK'
  BY <1>6, CallTypes DEF TypeOK, Renew, Kinds
<1>7. ASSUME NEW c \in Candidates, Renewed(c) PROVE TypeOK'
  BY <1>7, CallTypes DEF TypeOK, Renewed
<1>8. ASSUME NEW c \in Candidates, RenewFailed(c) PROVE TypeOK'
  BY <1>8, CallTypes DEF TypeOK, RenewFailed
<1>9. ASSUME NEW c \in Candidates, Lost(c) PROVE TypeOK'
  BY <1>9, CallTypes DEF TypeOK, Lost, CancelTerm, Phases
<1>10. ASSUME NEW c \in Candidates, StepDown(c) PROVE TypeOK'
  BY <1>10, CallTypes DEF TypeOK, StepDown, CancelTerm, Phases
<1>11. ASSUME NEW c \in Candidates, Shutdown(c) PROVE TypeOK'
  BY <1>11, CallTypes DEF TypeOK, Shutdown, CancelTerm, Phases
<1>12. ASSUME NEW c \in Candidates, NEW h \in BOOLEAN, FnReturns(c, h)
       PROVE TypeOK'
  BY <1>12, CallTypes DEF TypeOK, FnReturns, Phases, Kinds
<1>13. ASSUME NEW c \in Candidates, Released(c) PROVE TypeOK'
  BY <1>13, CallTypes DEF TypeOK, Released, Phases
<1>14. ASSUME NEW c \in Candidates, Crash(c) PROVE TypeOK'
  BY <1>14, CallTypes DEF TypeOK, Crash, Phases
<1>15. ASSUME NEW w \in late, LandLate(w) PROVE TypeOK'
  <2>1. w.owner \in Candidates /\ w.kind \in Kinds /\ w.sent \in Nat
    BY DEF TypeOK, Writes
  <2> QED BY <1>15, <2>1, WriteType DEF TypeOK, LandLate
<1>16. CASE Tick
  BY <1>16 DEF TypeOK, Tick
<1>17. CASE UNCHANGED vars
  BY <1>17 DEF TypeOK, vars
<1> QED
  BY <1>1, <1>2, <1>3, <1>4, <1>5, <1>6, <1>7, <1>8, <1>9, <1>10, <1>11,
     <1>12, <1>13, <1>14, <1>15, <1>16, <1>17 DEF Next

\* The initial state is well typed.
LEMMA InitType == Init => TypeOK
BY Durations DEF Init, TypeOK, Free, NoCall, Calls, Phases

\* Every reachable state of the election is well typed.
THEOREM TypeCorrect == Spec => []TypeOK
BY InitType, TypeStep, PTL DEF Spec

-----------------------------------------------------------------------------
(* The invariant step by step.                                             *)

\* Every step keeps each phase with its own call.
LEMMA CallStep == TypeOK /\ CallInv /\ [Next]_vars => CallInv'
<1> SUFFICES ASSUME TypeOK, CallInv, [Next]_vars PROVE CallInv'
  OBVIOUS
<1> USE Durations
<1>1. ASSUME NEW c \in Candidates, TryAcquire(c) PROVE CallInv'
  BY <1>1 DEF TypeOK, CallInv, Calls, NoCall, NewCall, Phases, TryAcquire
<1>2. ASSUME NEW c \in Candidates, Land(c) PROVE CallInv'
  BY <1>2 DEF TypeOK, CallInv, Calls, NoCall, NewCall, Phases, Land
<1>3. ASSUME NEW c \in Candidates, BeginTerm(c) PROVE CallInv'
  BY <1>3 DEF TypeOK, CallInv, Calls, NoCall, NewCall, Phases, BeginTerm
<1>4. ASSUME NEW c \in Candidates, Refused(c) PROVE CallInv'
  BY <1>4 DEF TypeOK, CallInv, Calls, NoCall, NewCall, Phases, Refused
<1>5. ASSUME NEW c \in Candidates, Unanswered(c) PROVE CallInv'
  BY <1>5 DEF TypeOK, CallInv, Calls, NoCall, NewCall, Phases, Unanswered
<1>6. ASSUME NEW c \in Candidates, Renew(c) PROVE CallInv'
  BY <1>6 DEF TypeOK, CallInv, Calls, NoCall, NewCall, Phases, Renew
<1>7. ASSUME NEW c \in Candidates, Renewed(c) PROVE CallInv'
  BY <1>7 DEF TypeOK, CallInv, Calls, NoCall, NewCall, Phases, Renewed
<1>8. ASSUME NEW c \in Candidates, RenewFailed(c) PROVE CallInv'
  BY <1>8 DEF TypeOK, CallInv, Calls, NoCall, NewCall, Phases, RenewFailed
<1>9. ASSUME NEW c \in Candidates, Lost(c) PROVE CallInv'
  BY <1>9
     DEF TypeOK, CallInv, Calls, NoCall, NewCall, Phases, Lost, CancelTerm
<1>10. ASSUME NEW c \in Candidates, StepDown(c) PROVE CallInv'
  BY <1>10
     DEF TypeOK, CallInv, Calls, NoCall, NewCall, Phases, StepDown,
         CancelTerm
<1>11. ASSUME NEW c \in Candidates, Shutdown(c) PROVE CallInv'
  BY <1>11
     DEF TypeOK, CallInv, Calls, NoCall, NewCall, Phases, Shutdown,
         CancelTerm
<1>12. ASSUME NEW c \in Candidates, NEW h \in BOOLEAN, FnReturns(c, h)
       PROVE  CallInv'
  BY <1>12 DEF TypeOK, CallInv, Calls, NoCall, NewCall, Phases, FnReturns
<1>13. ASSUME NEW c \in Candidates, Released(c) PROVE CallInv'
  BY <1>13 DEF TypeOK, CallInv, Calls, NoCall, NewCall, Phases, Released
<1>14. ASSUME NEW c \in Candidates, Crash(c) PROVE CallInv'
  BY <1>14 DEF TypeOK, CallInv, Calls, NoCall, NewCall, Phases, Crash
<1>15. ASSUME NEW w \in late, LandLate(w) PROVE CallInv'
  BY <1>15 DEF TypeOK, CallInv, Calls, NoCall, NewCall, Phases, LandLate
<1>16. CASE Tick
  BY <1>16 DEF TypeOK, CallInv, Calls, NoCall, NewCall, Phases, Tick, MayWait
<1>17. CASE UNCHANGED vars
  BY <1>17 DEF TypeOK, CallInv, Calls, NoCall, NewCall, Phases, vars
<1> QED
  BY <1>1, <1>2, <1>3, <1>4, <1>5, <1>6, <1>7, <1>8, <1>9, <1>10, <1>11,
     <1>12, <1>13, <1>14, <1>15, <1>16, <1>17 DEF Next

\* The work of a term stops no later than its timer.
LEMMA PromptStep == TypeOK /\ CallInv /\ PromptInv /\ [Next]_vars => PromptInv'
<1> SUFFICES ASSUME TypeOK, CallInv, PromptInv, [Next]_vars PROVE PromptInv'
  OBVIOUS
<1> USE Durations
<1>1. ASSUME NEW c \in Candidates, TryAcquire(c) PROVE PromptInv'
  BY <1>1
     DEF TypeOK, CallInv, PromptInv, Calls, Running, Phases, StepDownAt,
         CallLimit, TryAcquire
<1>2. ASSUME NEW c \in Candidates, Land(c) PROVE PromptInv'
  BY <1>2
     DEF TypeOK, CallInv, PromptInv, Calls, Running, Phases, StepDownAt,
         CallLimit, Land
<1>3. ASSUME NEW c \in Candidates, BeginTerm(c) PROVE PromptInv'
  BY <1>3
     DEF TypeOK, CallInv, PromptInv, Calls, Running, Phases, StepDownAt,
         CallLimit, BeginTerm
<1>4. ASSUME NEW c \in Candidates, Refused(c) PROVE PromptInv'
  BY <1>4
     DEF TypeOK, CallInv, PromptInv, Calls, Running, Phases, StepDownAt,
         CallLimit, Refused
<1>5. ASSUME NEW c \in Candidates, Unanswered(c) PROVE PromptInv'
  BY <1>5
     DEF TypeOK, CallInv, PromptInv, Calls, Running, Phases, StepDownAt,
         CallLimit, Unanswered
<1>6. ASSUME NEW c \in Candidates, Renew(c) PROVE PromptInv'
  BY <1>6
     DEF TypeOK, CallInv, PromptInv, Calls, Running, Phases, StepDownAt,
         CallLimit, Renew
<1>7. ASSUME NEW c \in Candidates, Renewed(c) PROVE PromptInv'
  BY <1>7
     DEF TypeOK, CallInv, PromptInv, Calls, Running, Phases, StepDownAt,
         CallLimit, Renewed
<1>8. ASSUME NEW c \in Candidates, RenewFailed(c) PROVE PromptInv'
  BY <1>8
     DEF TypeOK, CallInv, PromptInv, Calls, Running, Phases, StepDownAt,
         CallLimit, RenewFailed
<1>9. ASSUME NEW c \in Candidates, Lost(c) PROVE PromptInv'
  BY <1>9
     DEF TypeOK, CallInv, PromptInv, Calls, Running, Phases, StepDownAt,
         CallLimit, Lost, CancelTerm
<1>10. ASSUME NEW c \in Candidates, StepDown(c) PROVE PromptInv'
  BY <1>10
     DEF TypeOK, CallInv, PromptInv, Calls, Running, Phases, StepDownAt,
         CallLimit, StepDown, CancelTerm
<1>11. ASSUME NEW c \in Candidates, Shutdown(c) PROVE PromptInv'
  BY <1>11
     DEF TypeOK, CallInv, PromptInv, Calls, Running, Phases, StepDownAt,
         CallLimit, Shutdown, CancelTerm
<1>12. ASSUME NEW c \in Candidates, NEW h \in BOOLEAN, FnReturns(c, h)
       PROVE  PromptInv'
  BY <1>12
     DEF TypeOK, CallInv, PromptInv, Calls, Running, Phases, StepDownAt,
         CallLimit, FnReturns
<1>13. ASSUME NEW c \in Candidates, Released(c) PROVE PromptInv'
  BY <1>13
     DEF TypeOK, CallInv, PromptInv, Calls, Running, Phases, StepDownAt,
         CallLimit, Released
<1>14. ASSUME NEW c \in Candidates, Crash(c) PROVE PromptInv'
  BY <1>14
     DEF TypeOK, CallInv, PromptInv, Calls, Running, Phases, StepDownAt,
         CallLimit, Crash
<1>15. ASSUME NEW w \in late, LandLate(w) PROVE PromptInv'
  BY <1>15
     DEF TypeOK, CallInv, PromptInv, Calls, Running, Phases, StepDownAt,
         CallLimit, LandLate
<1>16. CASE Tick
  BY <1>16
     DEF TypeOK, CallInv, PromptInv, Calls, Running, Phases, StepDownAt,
         CallLimit, Tick, MayWait
<1>17. CASE UNCHANGED vars
  BY <1>17
     DEF TypeOK, CallInv, PromptInv, Calls, Running, Phases, StepDownAt,
         CallLimit, vars
<1> QED
  BY <1>1, <1>2, <1>3, <1>4, <1>5, <1>6, <1>7, <1>8, <1>9, <1>10, <1>11,
     <1>12, <1>13, <1>14, <1>15, <1>16, <1>17 DEF Next

\* A late release is gone before its owner campaigns again.
LEMMA LateStep == LagBound /\ TypeOK /\ CallInv /\ LateInv /\ [Next]_vars => LateInv'
<1> SUFFICES ASSUME LagBound, TypeOK, CallInv, LateInv, [Next]_vars PROVE LateInv'
  OBVIOUS
<1> USE Durations
<1>1. ASSUME NEW c \in Candidates, TryAcquire(c) PROVE LateInv'
  BY <1>1
     DEF LagBound, TypeOK, CallInv, LateInv, Calls, Writes, Abandoned,
         Phases, Running, TryAcquire
<1>2. ASSUME NEW c \in Candidates, Land(c) PROVE LateInv'
  BY <1>2
     DEF LagBound, TypeOK, CallInv, LateInv, Calls, Writes, Abandoned,
         Phases, Running, Land
<1>3. ASSUME NEW c \in Candidates, BeginTerm(c) PROVE LateInv'
  BY <1>3
     DEF LagBound, TypeOK, CallInv, LateInv, Calls, Writes, Abandoned,
         Phases, Running, BeginTerm
<1>4. ASSUME NEW c \in Candidates, Refused(c) PROVE LateInv'
  BY <1>4
     DEF LagBound, TypeOK, CallInv, LateInv, Calls, Writes, Abandoned,
         Phases, Running, Refused
<1>5. ASSUME NEW c \in Candidates, Unanswered(c) PROVE LateInv'
  BY <1>5
     DEF LagBound, TypeOK, CallInv, LateInv, Calls, Writes, Abandoned,
         Phases, Running, Unanswered
<1>6. ASSUME NEW c \in Candidates, Renew(c) PROVE LateInv'
  BY <1>6
     DEF LagBound, TypeOK, CallInv, LateInv, Calls, Writes, Abandoned,
         Phases, Running, Renew
<1>7. ASSUME NEW c \in Candidates, Renewed(c) PROVE LateInv'
  BY <1>7
     DEF LagBound, TypeOK, CallInv, LateInv, Calls, Writes, Abandoned,
         Phases, Running, Renewed
<1>8. ASSUME NEW c \in Candidates, RenewFailed(c) PROVE LateInv'
  BY <1>8
     DEF LagBound, TypeOK, CallInv, LateInv, Calls, Writes, Abandoned,
         Phases, Running, RenewFailed
<1>9. ASSUME NEW c \in Candidates, Lost(c) PROVE LateInv'
  BY <1>9
     DEF LagBound, TypeOK, CallInv, LateInv, Calls, Writes, Abandoned,
         Phases, Running, Lost, CancelTerm
<1>10. ASSUME NEW c \in Candidates, StepDown(c) PROVE LateInv'
  BY <1>10
     DEF LagBound, TypeOK, CallInv, LateInv, Calls, Writes, Abandoned,
         Phases, Running, StepDown, CancelTerm
<1>11. ASSUME NEW c \in Candidates, Shutdown(c) PROVE LateInv'
  BY <1>11
     DEF LagBound, TypeOK, CallInv, LateInv, Calls, Writes, Abandoned,
         Phases, Running, Shutdown, CancelTerm
<1>12. ASSUME NEW c \in Candidates, NEW h \in BOOLEAN, FnReturns(c, h)
       PROVE  LateInv'
  BY <1>12
     DEF LagBound, TypeOK, CallInv, LateInv, Calls, Writes, Abandoned,
         Phases, Running, FnReturns
<1>13. ASSUME NEW c \in Candidates, Released(c) PROVE LateInv'
  BY <1>13
     DEF LagBound, TypeOK, CallInv, LateInv, Calls, Writes, Abandoned,
         Phases, Running, Released
<1>14. ASSUME NEW c \in Candidates, Crash(c) PROVE LateInv'
  BY <1>14
     DEF LagBound, TypeOK, CallInv, LateInv, Calls, Writes, Abandoned,
         Phases, Running, Crash
<1>15. ASSUME NEW w \in late, LandLate(w) PROVE LateInv'
  BY <1>15
     DEF LagBound, TypeOK, CallInv, LateInv, Calls, Writes, Abandoned,
         Phases, Running, LandLate
<1>16. CASE Tick
  BY <1>16
     DEF LagBound, TypeOK, CallInv, LateInv, Calls, Writes, Abandoned,
         Phases, Running, Tick, MayWait
<1>17. CASE UNCHANGED vars
  BY <1>17
     DEF LagBound, TypeOK, CallInv, LateInv, Calls, Writes, Abandoned,
         Phases, Running, vars
<1> QED
  BY <1>1, <1>2, <1>3, <1>4, <1>5, <1>6, <1>7, <1>8, <1>9, <1>10, <1>11,
     <1>12, <1>13, <1>14, <1>15, <1>16, <1>17 DEF Next

\* A write that lands while the lease of c is unexpired on the writer's clock,
\* and is not c's own release, leaves c the lease and never shortens it.
LEMMA WriteKeeps ==
    ASSUME TypeOK, NEW c \in Candidates, NEW e \in Candidates,
           NEW k \in Kinds, NEW t \in Nat, t <= now,
           lease.owner = c, now + Skew[e] < lease.expires,
           k = "release" => e # c
    PROVE  /\ AfterWrite(k, e, t).owner = c
           /\ lease.expires <= AfterWrite(k, e, t).expires
<1> USE Durations
<1>1. lease.expires \in Nat /\ now \in Nat BY DEF TypeOK
<1>2. c # NoOwner BY CandidatesAssumption
<1>3. e # c => ~AcquireGranted(e, t)
  BY <1>1, <1>2 DEF AcquireGranted, Stamp
<1>4. CASE k = "acquire"
  <2>1. AfterWrite(k, e, t) = AfterAcquire(e, t) BY <1>4 DEF AfterWrite
  <2> QED BY <1>1, <1>3, <2>1 DEF AfterAcquire, AcquireGranted, Later, Stamp
<1>5. CASE k = "renew"
  <2>1. AfterWrite(k, e, t) = AfterRenew(e, t) BY <1>5 DEF AfterWrite
  <2> QED BY <1>1, <2>1 DEF TypeOK, AfterRenew, Later, Stamp
<1>6. CASE k = "release"
  <2>1. AfterWrite(k, e, t) = AfterRelease(e) BY <1>6 DEF AfterWrite
  <2> QED BY <1>1, <1>6, <2>1 DEF AfterRelease
<1> QED BY <1>4, <1>5, <1>6 DEF Kinds

\* c runs a term, or has been granted one it has not begun.
Holds(c) == Running(c) \/ (phase[c] = "acquiring" /\ call[c].landed /\ call[c].ok)

\* The lease of a holder is unexpired on every clock.
LEMMA Unexpired ==
    ASSUME ClockBound, IndInv, NEW c \in Candidates, NEW d \in Candidates, Holds(c)
    PROVE  lease.owner = c /\ now + Skew[d] < lease.expires
<1> USE Durations
<1>1. CASE phase[c] = "serving"
  BY <1>1 DEF ClockBound, IndInv, TypeOK, PromptInv, HeldInv, HeldBy, Running
<1>2. CASE phase[c] = "stopping"
  BY <1>2 DEF IndInv, TypeOK, PromptInv, HeldInv, HeldBy, Running
<1>3. CASE phase[c] = "acquiring" /\ call[c].landed /\ call[c].ok
  BY <1>3
     DEF ClockBound, IndInv, TypeOK, Calls, CallInv, HeldInv, HeldBy, CallLimit,
         Stamp
<1> QED BY <1>1, <1>2, <1>3 DEF Holds, Running

\* A candidate whose campaign state is untouched keeps what it holds, when the
\* lease stays with its owner and is not shortened.
LEMMA HeldFrame ==
    ASSUME TypeOK, TypeOK', NEW c \in Candidates, HeldBy(c),
           phase'[c] = phase[c], call'[c] = call[c], timer'[c] = timer[c],
           Holds(c) => lease'.owner = c /\ lease.expires <= lease'.expires
    PROVE  HeldBy(c)'
<1> USE Durations
<1>1. ~Holds(c) => HeldBy(c)'
  BY DEF HeldBy, Holds, Running
<1>2. Holds(c) => HeldBy(c)'
  BY DEF TypeOK, Calls, HeldBy, Holds, Running, Stamp
<1> QED BY <1>1, <1>2

\* A running term keeps the lease.
LEMMA HeldStep == ClockBound /\ IndInv /\ [Next]_vars => HeldInv'
<1> SUFFICES ASSUME ClockBound, IndInv, [Next]_vars PROVE HeldInv'
  OBVIOUS
<1> USE Durations
<1>1. ASSUME NEW c \in Candidates, TryAcquire(c) PROVE HeldInv'
  BY <1>1
     DEF ClockBound, IndInv, TypeOK, CallInv, PromptInv, HeldInv, HeldBy, Calls,
         NoCall, NewCall, Running, Phases, Stamp, StepDownAt, CallLimit,
         TryAcquire
<1>2. ASSUME NEW c \in Candidates, Land(c) PROVE HeldInv'
  <2>1. /\ call[c] \in Calls /\ call[c].kind \in Kinds
        /\ call[c].sent \in Nat /\ call[c].sent <= now
    BY <1>2 DEF IndInv, TypeOK, CallInv, Land, Calls
  <2>2. ASSUME NEW d \in Candidates, d # c PROVE HeldBy(d)'
    <3>1. Holds(d) => lease'.owner = d /\ lease.expires <= lease'.expires
      BY <1>2, <2>1, <2>2, Unexpired, WriteKeeps DEF IndInv, Land
    <3> QED BY <1>2, <2>2, <3>1, TypeStep, HeldFrame
            DEF IndInv, TypeOK, HeldInv, HeldBy, Land
  <2>3. HeldBy(c)'
    <3>1. CASE call[c].kind = "acquire"
      <4>1. /\ lease' = AfterAcquire(c, call[c].sent)
            /\ call'[c].ok = AcquireGranted(c, call[c].sent)
            /\ call'[c].sent = call[c].sent
            /\ phase'[c] = "acquiring"
        BY <1>2, <3>1, <2>1
           DEF IndInv, TypeOK, CallInv, Land, AfterWrite, Answer, Calls,
               Phases
      <4> QED BY <2>1, <4>1
              DEF IndInv, TypeOK, HeldBy, AfterAcquire, Running, Later, Stamp
    <3>2. CASE call[c].kind = "renew"
      <4>1. phase[c] = "serving"
        BY <3>2 DEF IndInv, TypeOK, CallInv, Phases
      <4>2. lease.owner = c
        BY <4>1 DEF IndInv, HeldInv, HeldBy, Running
      <4>3. /\ lease' = [lease EXCEPT !.expires =
                            Later(@, Stamp(c, call[c].sent) + TTL)]
            /\ call'[c].ok
            /\ call'[c].sent = call[c].sent
            /\ phase'[c] = "serving" /\ timer'[c] = timer[c]
        BY <1>2, <3>2, <4>1, <4>2, <2>1
           DEF IndInv, TypeOK, Land, AfterWrite, AfterRenew, Answer, Calls
      <4> QED BY <2>1, <4>1, <4>2, <4>3
              DEF IndInv, TypeOK, HeldInv, HeldBy, Running, Later, Stamp
    <3>3. CASE call[c].kind = "release"
      BY <1>2, <3>3, <2>1
         DEF IndInv, TypeOK, CallInv, HeldBy, Land, Running, Phases
    <3> QED BY <2>1, <3>1, <3>2, <3>3 DEF Kinds
  <2> QED BY <2>2, <2>3 DEF HeldInv, HeldBy
<1>3. ASSUME NEW c \in Candidates, BeginTerm(c) PROVE HeldInv'
  BY <1>3
     DEF ClockBound, IndInv, TypeOK, CallInv, PromptInv, HeldInv, HeldBy, Calls,
         NoCall, NewCall, Running, Phases, Stamp, StepDownAt, CallLimit,
         BeginTerm
<1>4. ASSUME NEW c \in Candidates, Refused(c) PROVE HeldInv'
  BY <1>4
     DEF ClockBound, IndInv, TypeOK, CallInv, PromptInv, HeldInv, HeldBy, Calls,
         NoCall, NewCall, Running, Phases, Stamp, StepDownAt, CallLimit,
         Refused
<1>5. ASSUME NEW c \in Candidates, Unanswered(c) PROVE HeldInv'
  BY <1>5
     DEF ClockBound, IndInv, TypeOK, CallInv, PromptInv, HeldInv, HeldBy, Calls,
         NoCall, NewCall, Running, Phases, Stamp, StepDownAt, CallLimit,
         Unanswered
<1>6. ASSUME NEW c \in Candidates, Renew(c) PROVE HeldInv'
  BY <1>6
     DEF ClockBound, IndInv, TypeOK, CallInv, PromptInv, HeldInv, HeldBy, Calls,
         NoCall, NewCall, Running, Phases, Stamp, StepDownAt, CallLimit,
         Renew
<1>7. ASSUME NEW c \in Candidates, Renewed(c) PROVE HeldInv'
  BY <1>7
     DEF ClockBound, IndInv, TypeOK, CallInv, PromptInv, HeldInv, HeldBy, Calls,
         NoCall, NewCall, Running, Phases, Stamp, StepDownAt, CallLimit,
         Renewed
<1>8. ASSUME NEW c \in Candidates, RenewFailed(c) PROVE HeldInv'
  BY <1>8
     DEF ClockBound, IndInv, TypeOK, CallInv, PromptInv, HeldInv, HeldBy, Calls,
         NoCall, NewCall, Running, Phases, Stamp, StepDownAt, CallLimit,
         RenewFailed
<1>9. ASSUME NEW c \in Candidates, Lost(c) PROVE HeldInv'
  BY <1>9
     DEF ClockBound, IndInv, TypeOK, CallInv, PromptInv, HeldInv, HeldBy, Calls,
         NoCall, NewCall, Running, Phases, Stamp, StepDownAt, CallLimit,
         Lost, CancelTerm
<1>10. ASSUME NEW c \in Candidates, StepDown(c) PROVE HeldInv'
  BY <1>10
     DEF ClockBound, IndInv, TypeOK, CallInv, PromptInv, HeldInv, HeldBy, Calls,
         NoCall, NewCall, Running, Phases, Stamp, StepDownAt, CallLimit,
         StepDown, CancelTerm
<1>11. ASSUME NEW c \in Candidates, Shutdown(c) PROVE HeldInv'
  BY <1>11
     DEF ClockBound, IndInv, TypeOK, CallInv, PromptInv, HeldInv, HeldBy, Calls,
         NoCall, NewCall, Running, Phases, Stamp, StepDownAt, CallLimit,
         Shutdown, CancelTerm
<1>12. ASSUME NEW c \in Candidates, NEW h \in BOOLEAN, FnReturns(c, h)
       PROVE  HeldInv'
  BY <1>12
     DEF ClockBound, IndInv, TypeOK, CallInv, PromptInv, HeldInv, HeldBy, Calls,
         NoCall, NewCall, Running, Phases, Stamp, StepDownAt, CallLimit,
         FnReturns
<1>13. ASSUME NEW c \in Candidates, Released(c) PROVE HeldInv'
  BY <1>13
     DEF ClockBound, IndInv, TypeOK, CallInv, PromptInv, HeldInv, HeldBy, Calls,
         NoCall, NewCall, Running, Phases, Stamp, StepDownAt, CallLimit,
         Released
<1>14. ASSUME NEW c \in Candidates, Crash(c) PROVE HeldInv'
  BY <1>14
     DEF ClockBound, IndInv, TypeOK, CallInv, PromptInv, HeldInv, HeldBy, Calls,
         NoCall, NewCall, Running, Phases, Stamp, StepDownAt, CallLimit,
         Crash
<1>15. ASSUME NEW w \in late, LandLate(w) PROVE HeldInv'
  <2>1. /\ w \in Writes /\ w.owner \in Candidates /\ w.kind \in Kinds
        /\ w.sent \in Nat /\ w.sent <= now
    BY DEF IndInv, TypeOK, LateInv, Writes
  <2>2. ASSUME NEW d \in Candidates PROVE HeldBy(d)'
    <3>1. ASSUME Holds(d) PROVE lease'.owner = d /\ lease.expires <= lease'.expires
      <4>1. w.kind = "release" => w.owner # d
        BY <3>1 DEF IndInv, LateInv, Holds, Running
      <4> QED BY <1>15, <2>1, <3>1, <4>1, Unexpired, WriteKeeps
                 DEF IndInv, LandLate
    <3> QED BY <1>15, <3>1, TypeStep, HeldFrame
            DEF IndInv, HeldInv, HeldBy, LandLate, Next
  <2> QED BY <2>2 DEF HeldInv, HeldBy
<1>16. CASE Tick
  BY <1>16
     DEF ClockBound, IndInv, TypeOK, CallInv, PromptInv, HeldInv, HeldBy, Calls,
         NoCall, NewCall, Running, Phases, Stamp, StepDownAt, CallLimit,
         Tick, MayWait
<1>17. CASE UNCHANGED vars
  BY <1>17
     DEF ClockBound, IndInv, TypeOK, CallInv, PromptInv, HeldInv, HeldBy, Calls,
         NoCall, NewCall, Running, Phases, Stamp, StepDownAt, CallLimit,
         vars
<1> QED
  BY <1>1, <1>2, <1>3, <1>4, <1>5, <1>6, <1>7, <1>8, <1>9, <1>10, <1>11,
     <1>12, <1>13, <1>14, <1>15, <1>16, <1>17 DEF Next

-----------------------------------------------------------------------------
\* The inductive invariant holds when every candidate starts to campaign.
LEMMA InitIndInv == Init => IndInv
BY InitType
   DEF Init, IndInv, CallInv, PromptInv, HeldInv, HeldBy, LateInv, NoCall, Running

\* At most one replica serves a term: for any number of replicas and any
\* timing that respects ClockBound and LagBound, the work of a holder has
\* stopped before a successor's work starts (serveTerm, renew, stepDownAt).
THEOREM ExclusiveTerms ==
    ASSUME ClockBound, LagBound
    PROVE  Spec => []Exclusive
<1>1. IndInv /\ [Next]_vars => IndInv'
  BY TypeStep, CallStep, PromptStep, LateStep, HeldStep DEF IndInv
<1>2. IndInv => Exclusive
  BY DEF IndInv, HeldInv, HeldBy, Exclusive
<1> QED BY InitIndInv, <1>1, <1>2, PTL DEF Spec
-----------------------------------------------------------------------------
(* The recorded expiry, and how soon a dead holder is replaced.            *)

\* Whatever write lands: it frees the lease, leaves it to its owner without
\* shortening it, or takes it over with a full TTL from the writer's stamp.
LEMMA WriteEffect ==
    ASSUME TypeOK, NEW e \in Candidates, NEW k \in Kinds, NEW t \in Nat,
           NEW after, after = AfterWrite(k, e, t)
    PROVE  \/ after.owner = NoOwner
           \/ /\ after.owner = lease.owner
              /\ lease.expires <= after.expires
           \/ /\ k = "acquire" /\ after.owner = e /\ e # lease.owner
              /\ t + TTL <= after.expires
<1> USE Durations
<1>1. lease.expires \in Nat /\ Skew[e] \in Nat BY DEF TypeOK
<1>2. CASE k = "acquire"
  <2>1. after = AfterAcquire(e, t) BY <1>2 DEF AfterWrite
  <2>2. CASE ~AcquireGranted(e, t) BY <1>1, <2>1, <2>2 DEF AfterAcquire
  <2>3. CASE AcquireGranted(e, t)
    BY <1>1, <1>2, <2>1, <2>3 DEF AfterAcquire, Later, Stamp
  <2> QED BY <2>2, <2>3
<1>3. CASE k = "renew"
  <2>1. after = AfterRenew(e, t) BY <1>3 DEF AfterWrite
  <2> QED BY <1>1, <2>1 DEF TypeOK, AfterRenew, Later, Stamp
<1>4. CASE k = "release"
  <2>1. after = AfterRelease(e) BY <1>4 DEF AfterWrite
  <2> QED BY <1>1, <2>1 DEF AfterRelease, Free
<1> QED BY <1>2, <1>3, <1>4 DEF Kinds

\* A step changes the lease only by a write that lands.
LEMMA LeaseMoves ==
    ASSUME [Next]_vars
    PROVE  \/ lease' = lease
           \/ \E c \in Candidates : Land(c)
           \/ \E w \in late : LandLate(w)
BY DEF Next, vars, TryAcquire, BeginTerm, Refused, Unanswered, Renew, Renewed,
       RenewFailed, Lost, StepDown, Shutdown, Released, Crash, FnReturns, Tick

\* A renewal, or an acquisition by the holder, that arrives late never moves
\* the recorded expiry back while the owner stays (Store.Acquire, Store.Renew):
\* for every clock skew and every lag.
THEOREM ExpiryHolds == Spec => ExpiryNeverMovesBack
<1>1. ASSUME TypeOK, [Next]_vars, lease.owner # NoOwner,
             lease'.owner = lease.owner
      PROVE  lease'.expires >= lease.expires
  <2>1. lease.expires \in Nat /\ lease'.expires \in Nat
    BY <1>1, TypeStep DEF TypeOK
  <2>2. CASE lease' = lease BY <2>1, <2>2
  <2>3. ASSUME NEW c \in Candidates, Land(c)
        PROVE  lease'.expires >= lease.expires
    <3>1. call[c].kind \in Kinds /\ call[c].sent \in Nat
      BY <1>1, <2>3, CallTypes DEF Land, Calls
    <3> QED BY <1>1, <2>1, <2>3, <3>1, WriteEffect DEF Land
  <2>4. ASSUME NEW w \in late, LandLate(w)
        PROVE  lease'.expires >= lease.expires
    <3>1. w.kind \in Kinds /\ w.owner \in Candidates /\ w.sent \in Nat
      BY <1>1 DEF TypeOK, Writes
    <3> QED BY <1>1, <2>1, <2>4, <3>1, WriteEffect DEF LandLate
  <2> QED BY <1>1, <2>2, <2>3, <2>4, LeaseMoves
<1>2. TypeOK /\ [Next]_vars =>
         [lease.owner # NoOwner /\ lease'.owner = lease.owner
             => lease'.expires >= lease.expires]_vars
  BY <1>1
<1> QED BY <1>2, TypeCorrect, PTL DEF Spec, ExpiryNeverMovesBack

\* How long after it was sent the write of an acquisition may land.
Lag == Later(MaxLag, RenewEvery)

\* A replica that handed over is back, its release and its backoff included,
\* within a TTL and a renewal of the moment its successor's write was sent.
TakeoverBound ==
    /\ ReleaseTimeout + Backoff + Lag <= TTL + RenewEvery
    /\ MaxLag <= TTL

\* How a campaign that goes on is placed with respect to the expiry of the
\* lease: a refused attempt left before it, and the next one is due soon after.
DueBy(c) ==
    /\ phase[c] = "waiting" => now <= timer[c] /\ timer[c] <= now + Retry + Backoff
    /\ lease.owner # NoOwner =>
          /\ phase[c] = "waiting" =>
                timer[c] <= lease.expires + Retry + RenewEvery
          /\ phase[c] = "acquiring" =>
                call[c].sent <= lease.expires + Retry + RenewEvery
          /\ phase[c] = "acquiring" /\ call[c].landed =>
                call[c].sent <= lease.expires
          /\ phase[c] = "releasing" /\ lease.owner # c =>
                call[c].sent + TTL <= lease.expires + Lag
    /\ phase[c] = "releasing" /\ call[c].landed => lease.owner # c

DueInv == \A c \in Candidates \ ctxDone : DueBy(c)

\* Only a campaign that ended, or is ending, leaves an acquisition behind.
LateAcquireInv ==
    \A w \in late :
        w.kind = "acquire" => phase[w.owner] = "down" \/ w.owner \in ctxDone

\* An acquisition that lands in time records an expiry at most Lag short of a
\* full TTL from now.
LEMMA LagTypes ==
    /\ Lag \in Nat /\ MaxLag <= Lag /\ RenewEvery <= Lag
    /\ RenewEvery <= TTL
    /\ MaxLag <= TTL => Lag <= TTL
BY Durations DEF Lag, Later

\* A campaign that a landing write does not belong to stays placed.
LEMMA DueFrame ==
    ASSUME TakeoverBound, TypeOK, TypeOK', CallInv, NEW c \in Candidates, DueBy(c),
           now' = now, phase'[c] = phase[c], call'[c] = call[c],
           timer'[c] = timer[c],
           \/ lease'.owner = NoOwner
           \/ lease'.owner = lease.owner /\ lease.expires <= lease'.expires
           \/ lease'.owner # c /\ now + TTL <= lease'.expires + Lag
    PROVE  DueBy(c)'
<1> USE Durations, LagTypes
<1>1. /\ now \in Nat /\ timer[c] \in Nat /\ call[c] \in Calls
      /\ call[c].sent \in Nat /\ lease.expires \in Nat /\ lease'.expires \in Nat
  BY DEF TypeOK, Calls
<1>2. c # NoOwner BY CandidatesAssumption
<1>3. CASE lease'.owner = NoOwner
  BY <1>1, <1>2, <1>3 DEF DueBy
<1>4. CASE lease'.owner = lease.owner /\ lease.expires <= lease'.expires
  BY <1>1, <1>4 DEF DueBy
<1>5. CASE lease'.owner # c /\ now + TTL <= lease'.expires + Lag
  <2>1. phase[c] \in {"acquiring", "releasing"} => call[c].sent <= now
    BY DEF CallInv
  <2> QED BY <1>1, <1>5, <2>1 DEF DueBy, TakeoverBound
<1> QED BY <1>3, <1>4, <1>5

\* Every step of a store that answers leaves the campaigns placed.
LEMMA DueStep ==
    ASSUME ~Faulty, TakeoverBound, ClockBound, IndInv, IndInv',
           LateAcquireInv, DueInv, [Next]_vars
    PROVE  DueInv'
<1> USE Durations, LagTypes
<1>1. SUFFICES ASSUME NEW c \in Candidates, c \notin ctxDone' PROVE DueBy(c)'
  BY DEF DueInv, DueBy
<1>2. c \notin ctxDone
  BY <1>1 DEF Next, vars, TryAcquire, Land, LandLate, BeginTerm, Refused,
     Unanswered, Renew, Renewed, RenewFailed, Lost, StepDown, Shutdown,
     Released, Crash, FnReturns, Tick
<1>3. DueBy(c) BY <1>2 DEF DueInv
<1>4. /\ TypeOK /\ TypeOK' /\ CallInv /\ CallInv'
      /\ now \in Nat /\ timer[c] \in Nat /\ call[c] \in Calls
      /\ call[c].sent \in Nat /\ lease.expires \in Nat /\ lease'.expires \in Nat
      /\ phase[c] \in Phases /\ c # NoOwner
  BY CandidatesAssumption DEF IndInv, TypeOK, Calls
<1>5. ASSUME NEW d \in Candidates, d # c, phase'[c] = phase[c],
             call'[c] = call[c], timer'[c] = timer[c], now' = now, lease' = lease
      PROVE  DueBy(c)'
  BY <1>3, <1>4, <1>5, DueFrame
<1>6. ASSUME NEW d \in Candidates, TryAcquire(d) PROVE DueBy(c)'
  <2>1. CASE d = c
    BY <1>3, <1>4, <1>6, <2>1 DEF TryAcquire, DueBy, NewCall, TypeOK
  <2> QED BY <1>4, <1>5, <1>6, <2>1 DEF TryAcquire, TypeOK
<1>7. ASSUME NEW d \in Candidates, Land(d) PROVE DueBy(c)'
  <2>1. call[d] \in Calls /\ call[d].kind \in Kinds /\ call[d].sent \in Nat
    BY <1>4, <1>7, CallTypes DEF Land, Calls
  <2>2. call[d].kind = "acquire" => now <= call[d].sent + RenewEvery
    BY <1>4, <1>7 DEF Land, CallInv, CallLimit
  <2>3. CASE d # c
    BY <1>3, <1>4, <1>7, <2>1, <2>2, <2>3, WriteEffect, DueFrame DEF Land, TypeOK
  <2>4. CASE d = c
    <3>1. /\ phase' = phase /\ now' = now /\ timer' = timer
          /\ call'[c].sent = call[c].sent
      BY <1>4, <1>7, <2>4 DEF Land, TypeOK
    <3>2. phase[c] = "waiting" \/ phase[c] = "serving" \/ phase[c] = "stopping"
             \/ phase[c] = "down" => DueBy(c)'
      BY <1>3, <1>4, <1>7, <2>4, <3>1 DEF Land, CallInv, DueBy
    <3>3. CASE phase[c] = "acquiring"
      <4>1. call[c].kind = "acquire" BY <1>4, <3>3 DEF CallInv
      <4>2. lease' = AfterAcquire(c, call[c].sent)
        BY <1>7, <2>4, <4>1 DEF Land, AfterWrite
      <4>3. call[c].sent <= lease'.expires
        BY <1>4, <4>2 DEF AfterAcquire, AcquireGranted, Later, Stamp
      <4> QED BY <1>4, <3>1, <3>3, <4>3 DEF DueBy
    <3>4. CASE phase[c] = "releasing"
      <4>1. call[c].kind = "release" BY <1>4, <3>4 DEF CallInv
      <4>2. lease' = AfterRelease(c) BY <1>7, <2>4, <4>1 DEF Land, AfterWrite
      <4>3. \/ lease'.owner = NoOwner
            \/ lease' = lease /\ lease.owner # c
        BY <4>2 DEF AfterRelease, Free
      <4> QED BY <1>3, <1>4, <3>1, <3>4, <4>3 DEF DueBy
    <3> QED BY <1>4, <3>2, <3>3, <3>4 DEF Phases
  <2> QED BY <2>3, <2>4
<1>8. ASSUME NEW w \in late, LandLate(w) PROVE DueBy(c)'
  <2>1. w.owner \in Candidates /\ w.kind \in Kinds /\ w.sent \in Nat
    BY <1>4 DEF TypeOK, Writes
  <2>2. now <= w.sent + MaxLag BY DEF IndInv, LateInv
  <2>3. CASE w.kind = "acquire" /\ w.owner = c
    <3>1. phase[c] = "down" BY <1>2, <2>3 DEF LateAcquireInv
    <3> QED BY <1>8, <3>1 DEF LandLate, DueBy
  <2>4. CASE w.kind # "acquire" \/ w.owner # c
    BY <1>3, <1>4, <1>8, <2>1, <2>2, <2>4, WriteEffect, DueFrame DEF LandLate
  <2> QED BY <2>3, <2>4
<1>9. ASSUME NEW d \in Candidates, BeginTerm(d) PROVE DueBy(c)'
  <2>1. CASE d = c
    BY <1>4, <1>9, <2>1 DEF BeginTerm, DueBy, TypeOK
  <2> QED BY <1>4, <1>5, <1>9, <2>1 DEF BeginTerm, TypeOK
<1>10. ASSUME NEW d \in Candidates, Refused(d) PROVE DueBy(c)'
  <2>1. CASE d = c
    <3>1. now <= call[c].sent + RenewEvery
      BY <1>4, <1>10, <2>1 DEF Refused, CallInv, CallLimit
    <3> QED BY <1>2, <1>3, <1>4, <1>10, <2>1, <3>1 DEF Refused, DueBy, TypeOK
  <2> QED BY <1>4, <1>5, <1>10, <2>1 DEF Refused, TypeOK
<1>11. ASSUME NEW d \in Candidates, Unanswered(d) PROVE DueBy(c)'
  <2>1. d # c BY <1>2, <1>11 DEF Unanswered
  <2> QED BY <1>4, <1>5, <1>11, <2>1 DEF Unanswered, TypeOK
<1>12. ASSUME NEW d \in Candidates, Renew(d) \/ Renewed(d) \/ RenewFailed(d)
       PROVE  DueBy(c)'
  <2>1. CASE d = c
    BY <1>4, <1>12, <2>1 DEF Renew, Renewed, RenewFailed, DueBy, TypeOK
  <2> QED BY <1>4, <1>5, <1>12, <2>1 DEF Renew, Renewed, RenewFailed, TypeOK
<1>13. ASSUME NEW d \in Candidates, Lost(d) \/ StepDown(d) PROVE DueBy(c)'
  <2>1. CASE d = c
    BY <1>4, <1>13, <2>1 DEF Lost, StepDown, CancelTerm, DueBy, TypeOK
  <2> QED BY <1>4, <1>5, <1>13, <2>1 DEF Lost, StepDown, CancelTerm, TypeOK
<1>14. ASSUME NEW d \in Candidates, Shutdown(d) PROVE DueBy(c)'
  <2>1. d # c BY <1>1, <1>14 DEF Shutdown
  <2> QED BY <1>4, <1>5, <1>14, <2>1 DEF Shutdown, CancelTerm, TypeOK
<1>15. ASSUME NEW d \in Candidates, NEW h \in BOOLEAN, FnReturns(d, h)
       PROVE  DueBy(c)'
  <2>1. CASE d = c
    <3>1. lease'.owner = c
      BY <1>15, <2>1 DEF IndInv, HeldInv, HeldBy, FnReturns
    <3>2. phase'[c] = "releasing" /\ ~call'[c].landed
      BY <1>4, <1>15, <2>1 DEF FnReturns, NewCall, TypeOK
    <3> QED BY <3>1, <3>2 DEF DueBy
  <2> QED BY <1>4, <1>5, <1>15, <2>1 DEF FnReturns, TypeOK
<1>16. ASSUME NEW d \in Candidates, Released(d) PROVE DueBy(c)'
  <2>1. CASE d = c
    <3>1. call[c].landed /\ now <= call[c].sent + ReleaseTimeout
      BY <1>4, <1>16, <2>1 DEF Released, CallInv, CallLimit
    <3>2. /\ phase'[c] = "waiting" /\ now' = now /\ lease' = lease
          /\ now + Retry <= timer'[c] /\ timer'[c] <= now + Retry + Backoff
      BY <1>2, <1>4, <1>16, <2>1 DEF Released, TypeOK
    <3>3. /\ lease.owner # c
          /\ lease.owner # NoOwner => call[c].sent + TTL <= lease.expires + Lag
      BY <1>3, <1>16, <2>1, <3>1 DEF Released, DueBy
    <3>4. timer'[c] \in Nat BY <1>4 DEF TypeOK
    <3> QED BY <1>4, <3>1, <3>2, <3>3, <3>4 DEF DueBy, TakeoverBound
  <2> QED BY <1>4, <1>5, <1>16, <2>1 DEF Released, TypeOK
<1>17. ASSUME NEW d \in Candidates, Crash(d) PROVE DueBy(c)'
  <2>1. CASE d = c
    BY <1>4, <1>17, <2>1 DEF Crash, DueBy, TypeOK
  <2> QED BY <1>4, <1>5, <1>17, <2>1 DEF Crash, TypeOK
<1>18. CASE Tick
  <2>1. /\ now' = now + 1 /\ phase' = phase /\ call' = call /\ timer' = timer
        /\ lease' = lease
        /\ phase[c] = "waiting" => now < timer[c]
    BY <1>18 DEF Tick, MayWait
  <2> QED BY <1>3, <1>4, <2>1 DEF DueBy
<1>19. CASE UNCHANGED vars
  BY <1>3, <1>19 DEF vars, DueBy
<1> QED
  BY <1>6, <1>7, <1>8, <1>9, <1>10, <1>11, <1>12, <1>13, <1>14, <1>15, <1>16,
     <1>17, <1>18, <1>19 DEF Next

\* Only a campaign that is over, or ending, abandons an acquisition, when the
\* store answers: a renewal is abandoned by a term, a release by nobody.
LEMMA LateAcquireStep ==
    ASSUME ~Faulty, IndInv, LateAcquireInv, [Next]_vars
    PROVE  LateAcquireInv'
<1> USE DEF IndInv, TypeOK, LateAcquireInv, Writes, Abandoned
<1>0. ASSUME NEW c \in Candidates,
             late' \subseteq late \cup Abandoned(c), ctxDone \subseteq ctxDone',
             \A d \in Candidates : phase[d] = "down" => phase'[d] = "down",
             call[c].kind = "acquire" => phase'[c] = "down" \/ c \in ctxDone'
      PROVE  LateAcquireInv'
  <2> SUFFICES ASSUME NEW w \in late', w.kind = "acquire"
               PROVE  phase'[w.owner] = "down" \/ w.owner \in ctxDone'
    OBVIOUS
  <2>1. CASE w \in late BY <1>0, <2>1
  <2>2. CASE w \in Abandoned(c) BY <1>0, <2>2
  <2> QED BY <1>0, <2>1, <2>2
<1>1. ASSUME late' \subseteq late, ctxDone' = ctxDone,
             \A d \in Candidates : phase[d] = "down" => phase'[d] = "down"
      PROVE  LateAcquireInv'
  BY <1>1
<1>2. ASSUME NEW c \in Candidates,
             \/ TryAcquire(c) \/ Land(c) \/ BeginTerm(c) \/ Refused(c)
             \/ Renew(c) \/ Renewed(c)
      PROVE  LateAcquireInv'
  BY <1>1, <1>2 DEF TryAcquire, Land, BeginTerm, Refused, Renew, Renewed
<1>3. ASSUME NEW c \in Candidates,
             \/ Unanswered(c) \/ RenewFailed(c) \/ Lost(c) \/ StepDown(c)
             \/ Released(c) \/ Crash(c)
      PROVE  LateAcquireInv'
  BY <1>0, <1>3 DEF Unanswered, RenewFailed, Lost, StepDown, CancelTerm,
     Released, Crash, CallInv
<1>4. ASSUME NEW c \in Candidates, Shutdown(c) PROVE LateAcquireInv'
  BY <1>0, <1>4 DEF Shutdown, CancelTerm, CallInv
<1>5. ASSUME NEW c \in Candidates, NEW h \in BOOLEAN, FnReturns(c, h)
      PROVE  LateAcquireInv'
  BY <1>0, <1>5 DEF FnReturns, Running, CallInv
<1>6. ASSUME NEW w \in late, LandLate(w) PROVE LateAcquireInv'
  BY <1>1, <1>6 DEF LandLate
<1>7. CASE Tick BY <1>1, <1>7 DEF Tick
<1>8. CASE UNCHANGED vars BY <1>8 DEF vars
<1> QED
  BY <1>2, <1>3, <1>4, <1>5, <1>6, <1>7, <1>8 DEF Next

\* A holder that died is replaced: with a store that answers, for any number
\* of replicas and any timing within ClockBound, LagBound and TakeoverBound, a
\* lease whose owner is dead outlives its recorded expiry by at most a retry
\* and two calls as long as some candidate still campaigns (Run, tryAcquire,
\* afterTerm).
THEOREM ReplacedHolds ==
    ASSUME ~Faulty, ClockBound, LagBound, TakeoverBound
    PROVE  Spec => []Replaced
<1> DEFINE Placed == IndInv /\ LateAcquireInv /\ DueInv
<1>1. Init => Placed
  <2>1. ASSUME Init PROVE LateAcquireInv /\ DueInv
    BY <2>1, Durations DEF Init, LateAcquireInv, DueInv, DueBy, Free
  <2> QED BY <2>1, InitIndInv
<1>2. Placed /\ [Next]_vars => Placed'
  BY TypeStep, CallStep, PromptStep, LateStep, HeldStep, DueStep,
     LateAcquireStep DEF IndInv
<1>3. Placed => Replaced
  <2> SUFFICES ASSUME Placed, NEW c \in Candidates,
                      lease.owner \in Candidates,
                      phase[c] \in {"waiting", "acquiring"}, c \notin ctxDone
               PROVE  now <= lease.expires + Retry + 2 * RenewEvery
    BY DEF Replaced
  <2>1. /\ now \in Nat /\ timer[c] \in Nat /\ call[c] \in Calls
        /\ call[c].sent \in Nat /\ lease.expires \in Nat
    BY DEF IndInv, TypeOK, Calls
  <2>2. DueBy(c) /\ lease.owner # NoOwner
    BY CandidatesAssumption DEF DueInv
  <2>3. CASE phase[c] = "waiting"
    BY <2>1, <2>2, <2>3, Durations DEF DueBy
  <2>4. CASE phase[c] = "acquiring"
    <3>1. now <= call[c].sent + RenewEvery
      BY <2>4 DEF IndInv, CallInv, CallLimit
    <3> QED BY <2>1, <2>2, <2>4, <3>1, Durations DEF DueBy
  <2> QED BY <2>3, <2>4
<1> QED BY <1>1, <1>2, <1>3, PTL DEF Spec
=============================================================================
