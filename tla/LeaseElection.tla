---------------------------- MODULE LeaseElection ----------------------------
(***************************************************************************)
(* The election of pkg/lease: candidates campaign for one named lease kept *)
(* in a shared store, the holder serves a term while it can prove that it  *)
(* holds the lease, and gives the lease up when the term ends.             *)
(*                                                                         *)
(* One tick of now is the precision of the stores (stamp(), one            *)
(* millisecond).  Every call to the store is two steps, the write landing  *)
(* and the answer arriving.  A call may fail at any moment before its      *)
(* answer arrives; the write of a failed call may still land, up to MaxLag *)
(* after it was sent ("a write held up in the store can still land after   *)
(* its caller gave up").  Timers and the work function are prompt: a       *)
(* process that stalls past its own timers is outside what the package     *)
(* promises (lease.go:4-11).                                               *)
(***************************************************************************)
EXTENDS Integers, FiniteSets

CONSTANTS
    Candidates,      \* one campaign.Run per replica; the owner is the replica
    NoOwner,         \* the owner of a lease nobody holds
    TTL,             \* Spec.TTL
    Retry,           \* Spec.Retry
    Backoff,         \* Health.backoff: the extra wait after a handover
    ReleaseTimeout,  \* releaseTimeout
    Skew,            \* how far each replica's wall clock is ahead
    Unwind,          \* how long fn may take to return once it is cancelled
    Faulty,          \* TRUE: a store call may end without an answer
    MaxLag           \* a write lands within MaxLag of being sent, or never

ASSUME CandidatesAssumption == NoOwner \notin Candidates

ASSUME DurationAssumption ==
    /\ TTL \in Nat \ {0}
    /\ Retry \in Nat \ {0}
    /\ {Backoff, ReleaseTimeout, Unwind, MaxLag} \subseteq Nat
    /\ Skew \in [Candidates -> Nat]
    /\ Faulty \in BOOLEAN

VARIABLES
    now,       \* the common monotonic time
    lease,     \* the lease document: owner and recorded expiry
    phase,     \* where the campaign of each candidate is
    call,      \* the store call each candidate waits for
    late,      \* writes of failed calls that may still land
    timer,     \* waiting: the retry timer; serving: the step-down timer;
               \* stopping: when the cancelled fn has returned at the latest
    renewAt,   \* the next tick of a holder's renewal ticker
    handed,    \* candidates whose term ended on the work failing
    ctxDone    \* candidates whose context is done (shutdown)

vars == <<now, lease, phase, call, late, timer, renewAt, handed, ctxDone>>

Phases == {"waiting", "acquiring", "serving", "stopping", "releasing", "down"}
Kinds  == {"acquire", "renew", "release"}

\* No call is outstanding.
NoCall == [kind |-> "none", sent |-> 0, landed |-> FALSE, ok |-> FALSE]

Calls == [kind : Kinds \cup {"none"}, sent : Nat, landed : BOOLEAN, ok : BOOLEAN]
Writes == [kind : Kinds, owner : Candidates, sent : Nat]

-----------------------------------------------------------------------------
(* Derived durations.                                                      *)

\* tryAcquire and renew bound a call, and pace the ticker, with a third of TTL.
RenewEvery == TTL \div 3

\* The holder stops this long before the expiry it can prove.
Margin == TTL \div 6

\* The stamp a replica writes is its own wall clock.
Stamp(c, t) == t + Skew[c]

\* Mutants: the margin, or the TTL, is left out.
StepDownAtExpiry(sent) == sent + TTL

StepDownWithoutTTL(sent) == sent - Margin

\* The step-down instant is monotonic: it does not depend on the wall clock.
StepDownAt(sent) == sent + TTL - Margin

CallLimit(kind) == IF kind = "release" THEN ReleaseTimeout ELSE RenewEvery

-----------------------------------------------------------------------------
(* The store: what a write does when it lands, and what it answers.        *)

Free == [owner |-> NoOwner, expires |-> 0]

Later(a, b) == IF a > b THEN a ELSE b

\* Acquire: granted when free, expired at the caller's stamp, or already held.
AcquireGranted(c, sent) ==
    \/ lease.owner \in {NoOwner, c}
    \/ lease.expires <= Stamp(c, sent)

AfterAcquire(c, sent) ==
    IF ~AcquireGranted(c, sent) THEN lease
    ELSE [owner   |-> c,
          expires |-> IF lease.owner = c
                      THEN Later(lease.expires, Stamp(c, sent) + TTL)
                      ELSE Stamp(c, sent) + TTL]

\* Mutant: a late renewal overwrites the expiry.
AfterRenewOverwrites(c, sent) ==
    IF lease.owner # c THEN lease
    ELSE [lease EXCEPT !.expires = Stamp(c, sent) + TTL]

\* Renew extends a lease its owner holds; it never creates or takes one.
AfterRenew(c, sent) ==
    IF lease.owner # c THEN lease
    ELSE [lease EXCEPT !.expires = Later(@, Stamp(c, sent) + TTL)]

\* Release deletes the lease of its owner and nobody else's.
AfterRelease(c) == IF lease.owner = c THEN Free ELSE lease

AfterWrite(kind, c, sent) ==
    CASE kind = "acquire" -> AfterAcquire(c, sent)
      [] kind = "renew"   -> AfterRenew(c, sent)
      [] kind = "release" -> AfterRelease(c)

Answer(kind, c, sent) ==
    CASE kind = "acquire" -> AcquireGranted(c, sent)
      [] kind = "renew"   -> lease.owner = c
      [] kind = "release" -> lease.owner \in {NoOwner, c}

-----------------------------------------------------------------------------
(* State functions of a campaign.                                          *)

\* fn is running: the term is served, or cancelled and not yet returned.
Running(c) == phase[c] \in {"serving", "stopping"}

NewCall(kind) == [kind |-> kind, sent |-> now, landed |-> FALSE, ok |-> FALSE]

\* What an abandoned call leaves behind: its write, unless that has landed or
\* never will.
Abandoned(c) ==
    IF \/ call[c].kind = "none"
       \/ call[c].landed
       \/ now > call[c].sent + MaxLag
    THEN {}
    ELSE {[kind |-> call[c].kind, owner |-> c, sent |-> call[c].sent]}

-----------------------------------------------------------------------------
Init ==
    /\ now = 0
    /\ lease = Free
    /\ phase = [c \in Candidates |-> "waiting"]
    /\ call = [c \in Candidates |-> NoCall]
    /\ late = {}
    /\ timer = [c \in Candidates |-> 0]
    /\ renewAt = [c \in Candidates |-> 0]
    /\ handed = {}
    /\ ctxDone = {}

\* Run's loop comes round: the retry timer fired, an attempt is sent.
TryAcquire(c) ==
    /\ phase[c] = "waiting"
    /\ now >= timer[c]
    /\ phase' = [phase EXCEPT ![c] = "acquiring"]
    /\ call' = [call EXCEPT ![c] = NewCall("acquire")]
    /\ timer' = [timer EXCEPT ![c] = 0]
    /\ UNCHANGED <<now, lease, late, renewAt, handed, ctxDone>>

\* The write of the outstanding call of c lands in the store.
Land(c) ==
    /\ call[c].kind # "none"
    /\ ~call[c].landed
    /\ lease' = AfterWrite(call[c].kind, c, call[c].sent)
    /\ call' = [call EXCEPT ![c].landed = TRUE,
                            ![c].ok = Answer(call[c].kind, c, call[c].sent)]
    /\ UNCHANGED <<now, phase, late, timer, renewAt, handed, ctxDone>>

\* The write of a call its caller gave up on lands after all.
LandLate(w) ==
    /\ lease' = AfterWrite(w.kind, w.owner, w.sent)
    /\ late' = late \ {w}
    /\ UNCHANGED <<now, phase, call, timer, renewAt, handed, ctxDone>>

\* The attempt was granted: serveTerm arms the step-down timer and the ticker
\* and calls fn, on a context that is cancelled already if Run's is done.
BeginTerm(c) ==
    /\ phase[c] = "acquiring"
    /\ call[c].landed /\ call[c].ok
    /\ call' = [call EXCEPT ![c] = NoCall]
    /\ \/ /\ c \notin ctxDone
          /\ phase' = [phase EXCEPT ![c] = "serving"]
          /\ timer' = [timer EXCEPT ![c] = StepDownAt(call[c].sent)]
          /\ renewAt' = [renewAt EXCEPT ![c] = now + RenewEvery]
       \/ /\ c \in ctxDone
          /\ phase' = [phase EXCEPT ![c] = "stopping"]
          /\ timer' = [timer EXCEPT ![c] = now + Unwind]
          /\ UNCHANGED renewAt
    /\ UNCHANGED <<now, lease, late, handed, ctxDone>>

\* Mutant: the next attempt waits a whole TTL.
RefusedWaitsTTL(c) ==
    /\ phase[c] = "acquiring"
    /\ call[c].landed /\ ~call[c].ok
    /\ phase' = [phase EXCEPT ![c] = IF c \in ctxDone THEN "down" ELSE "waiting"]
    /\ call' = [call EXCEPT ![c] = NoCall]
    /\ timer' = [timer EXCEPT ![c] = now + TTL]
    /\ UNCHANGED <<now, lease, late, renewAt, handed, ctxDone>>

\* The attempt was refused: another owner holds the lease unexpired.
Refused(c) ==
    /\ phase[c] = "acquiring"
    /\ call[c].landed /\ ~call[c].ok
    /\ phase' = [phase EXCEPT ![c] = IF c \in ctxDone THEN "down" ELSE "waiting"]
    /\ call' = [call EXCEPT ![c] = NoCall]
    /\ timer' = [timer EXCEPT ![c] = now + Retry]
    /\ UNCHANGED <<now, lease, late, renewAt, handed, ctxDone>>

\* The attempt got no answer (a store error, its timeout, or the shutdown cut
\* it): releaseUnanswered gives back what it may have taken.
Unanswered(c) ==
    /\ phase[c] = "acquiring"
    /\ Faulty \/ c \in ctxDone
    /\ phase' = [phase EXCEPT ![c] = "releasing"]
    /\ late' = late \cup Abandoned(c)
    /\ call' = [call EXCEPT ![c] = NewCall("release")]
    /\ UNCHANGED <<now, lease, timer, renewAt, handed, ctxDone>>

\* The renewer's ticker fires and a renewal is sent.
Renew(c) ==
    /\ phase[c] = "serving"
    /\ call[c].kind = "none"
    /\ now >= renewAt[c]
    /\ call' = [call EXCEPT ![c] = NewCall("renew")]
    /\ renewAt' = [renewAt EXCEPT ![c] = @ + RenewEvery]
    /\ UNCHANGED <<now, lease, phase, late, timer, handed, ctxDone>>

\* A renewal is confirmed: the step-down timer restarts from when it was sent.
Renewed(c) ==
    /\ phase[c] = "serving"
    /\ call[c].landed /\ call[c].ok
    /\ call' = [call EXCEPT ![c] = NoCall]
    /\ timer' = [timer EXCEPT ![c] = StepDownAt(call[c].sent)]
    /\ UNCHANGED <<now, lease, phase, late, renewAt, handed, ctxDone>>

\* A renewal goes unanswered: the step-down timer keeps running.
RenewFailed(c) ==
    /\ phase[c] = "serving"
    /\ call[c].kind = "renew"
    /\ Faulty
    /\ late' = late \cup Abandoned(c)
    /\ call' = [call EXCEPT ![c] = NoCall]
    /\ UNCHANGED <<now, lease, phase, timer, renewAt, handed, ctxDone>>

\* The term's context is cancelled; a renewal in flight is cut with it.
CancelTerm(c) ==
    /\ phase' = [phase EXCEPT ![c] = "stopping"]
    /\ late' = late \cup Abandoned(c)
    /\ call' = [call EXCEPT ![c] = NoCall]
    /\ timer' = [timer EXCEPT ![c] = now + Unwind]
    /\ renewAt' = [renewAt EXCEPT ![c] = 0]

\* A renewal finds another owner, or nobody, holding the lease.
Lost(c) ==
    /\ phase[c] = "serving"
    /\ call[c].landed /\ ~call[c].ok
    /\ CancelTerm(c)
    /\ UNCHANGED <<now, lease, handed, ctxDone>>

\* The step-down timer fires.
StepDown(c) ==
    /\ phase[c] = "serving"
    /\ now >= timer[c]
    /\ CancelTerm(c)
    /\ UNCHANGED <<now, lease, handed, ctxDone>>

\* The process is told to stop: Run's context is done, and the term's with it.
\* A waiting campaign returns at once, the others when their step comes round.
Shutdown(c) ==
    /\ phase[c] # "down"
    /\ c \notin ctxDone
    /\ ctxDone' = ctxDone \cup {c}
    /\ \/ phase[c] = "serving" /\ CancelTerm(c)
       \/ /\ phase[c] # "serving"
          /\ phase' = [phase EXCEPT ![c] = IF @ = "waiting" THEN "down" ELSE @]
          /\ UNCHANGED <<late, call, timer, renewAt>>
    /\ UNCHANGED <<now, lease, handed>>

\* fn returns: cancelled, or (handOver) because Health.Observe told it to.  The
\* renewer is awaited, the release is sent and afterTerm chooses the wait.
FnReturns(c, handOver) ==
    /\ Running(c)
    /\ phase[c] = "serving" => handOver
    /\ phase' = [phase EXCEPT ![c] = "releasing"]
    /\ late' = late \cup Abandoned(c)
    /\ call' = [call EXCEPT ![c] = NewCall("release")]
    /\ handed' = IF handOver THEN handed \cup {c} ELSE handed
    /\ timer' = [timer EXCEPT ![c] = 0]
    /\ renewAt' = [renewAt EXCEPT ![c] = 0]
    /\ UNCHANGED <<now, lease, ctxDone>>

\* The release is answered, or given up on: the campaign waits, or ends.
Released(c) ==
    /\ phase[c] = "releasing"
    /\ call[c].landed \/ Faulty
    /\ late' = late \cup Abandoned(c)
    /\ call' = [call EXCEPT ![c] = NoCall]
    /\ phase' = [phase EXCEPT ![c] = IF c \in ctxDone THEN "down" ELSE "waiting"]
    /\ timer' = [timer EXCEPT ![c] =
                    now + Retry + (IF c \in handed THEN Backoff ELSE 0)]
    /\ handed' = handed \ {c}
    /\ UNCHANGED <<now, lease, renewAt, ctxDone>>

\* The process dies: nothing is released, a call in flight may still land.
Crash(c) ==
    /\ phase[c] # "down"
    /\ phase' = [phase EXCEPT ![c] = "down"]
    /\ late' = late \cup Abandoned(c)
    /\ call' = [call EXCEPT ![c] = NoCall]
    /\ timer' = [timer EXCEPT ![c] = 0]
    /\ renewAt' = [renewAt EXCEPT ![c] = 0]
    /\ UNCHANGED <<now, lease, handed, ctxDone>>

\* No timer is overdue in the campaign of c, so time may pass for it.
MayWait(c) ==
    /\ phase[c] \in {"waiting", "serving", "stopping"} => now < timer[c]
    /\ phase[c] = "serving" /\ call[c].kind = "none" => now < renewAt[c]
    /\ call[c].kind # "none" => now < call[c].sent + CallLimit(call[c].kind)

\* Time passes; a write that lagged too long is gone.
Tick ==
    /\ \A c \in Candidates : MayWait(c)
    /\ now' = now + 1
    /\ late' = {w \in late : now < w.sent + MaxLag}
    /\ UNCHANGED <<lease, phase, call, timer, renewAt, handed, ctxDone>>

Next ==
    \/ \E c \in Candidates :
          \/ TryAcquire(c) \/ Land(c)
          \/ BeginTerm(c) \/ Refused(c) \/ Unanswered(c)
          \/ Renew(c) \/ Renewed(c) \/ RenewFailed(c)
          \/ Lost(c) \/ StepDown(c) \/ Shutdown(c) \/ Released(c) \/ Crash(c)
          \/ \E h \in BOOLEAN : FnReturns(c, h)
    \/ \E w \in late : LandLate(w)
    \/ Tick

Spec == Init /\ [][Next]_vars

-----------------------------------------------------------------------------
\* Every variable has its type.
TypeOK ==
    /\ now \in Nat
    /\ lease \in [owner : Candidates \cup {NoOwner}, expires : Nat]
    /\ phase \in [Candidates -> Phases]
    /\ call \in [Candidates -> Calls]
    /\ late \subseteq Writes
    /\ timer \in [Candidates -> Nat]
    /\ renewAt \in [Candidates -> Nat]
    /\ handed \subseteq Candidates
    /\ ctxDone \subseteq Candidates

\* The work of at most one replica runs: a holder stops "before any successor
\* can start" (run.go, Spec.TTL and serveTerm).
Exclusive ==
    \A c, d \in Candidates : Running(c) /\ Running(d) => c = d

\* "Neither call ever moves an expiry backward: an older stamp arriving late
\* keeps the later one" (lease.go, Store.Renew), as long as the owner stays.
ExpiryNeverMovesBack ==
    [][lease.owner # NoOwner /\ lease'.owner = lease.owner
          => lease'.expires >= lease.expires]_vars

\* "A holder that dies without releasing is replaced at most TTL+Retry after
\* its last renewal: the lease has to expire, then a candidate has to try
\* again" (run.go, Spec.TTL).  With a store that always answers, the refused
\* attempt and the one that succeeds add their own time to that.
Replaced ==
    \A c \in Candidates :
        /\ lease.owner \in Candidates /\ phase[lease.owner] = "down"
        /\ phase[c] \in {"waiting", "acquiring"} /\ c \notin ctxDone
        => now <= lease.expires + Retry + 2 * RenewEvery
=============================================================================
