----------------------------- MODULE Dispatcher ------------------------------
(***************************************************************************)
(* One card of the native board and the dispatcher daemons that work on it *)
(* (src/pkg/dispatcher).                                                   *)
(*                                                                         *)
(* A daemon lists the eligible free cards, claims one under a lease and an *)
(* epoch, stamps the run it is about to execute on the card, moves the     *)
(* card to in_progress and runs an engine under the run's own file lock.   *)
(* What the engine returns decides where the card goes, whether a retry is *)
(* armed and whether the claim is given back; a goroutine of its own does  *)
(* the move and then the release.  A daemon started with the claim         *)
(* watchdog (off by default) also takes over expired claims.  Operators    *)
(* drag the card, cancel the run and resume it from a console, beside the  *)
(* daemons.                                                                *)
(*                                                                         *)
(* Every operation of the board store is atomic here, for all daemons: the *)
(* contract of tracker.ClaimLeaser.  Epochs are only ever compared for     *)
(* equality, so a claim takes a small one that nobody still remembers.     *)
(***************************************************************************)
EXTENDS Integers, FiniteSets

CONSTANTS
    Daemons,      \* processes; one that died never comes back as itself
    None,
    Console,      \* the holder of a run's lock that is no daemon
    NRuns,        \* run identifiers that can be minted
    MaxAttempts,  \* agent.max_attempts
    MaxOps,       \* interventions and faults: drags, cancels, console
                  \* resumes, stalls, lapses, workspaces and hooks that fail
    Lapses,       \* the lease of a live dispatch may expire
    Overlap,      \* a daemon may start beside one that works
    Watchdogs     \* the daemons that run with ITERION_BOARD_CLAIM_REAPER on

ASSUME DispatcherAssumption ==
    /\ None \notin Daemons \cup {Console} \cup Nat /\ Console \notin Daemons
    /\ IsFiniteSet(Daemons)
    /\ NRuns \in Nat \ {0} /\ MaxAttempts \in Nat \ {0} /\ MaxOps \in Nat
    /\ Lapses \in BOOLEAN /\ Overlap \in BOOLEAN /\ Watchdogs \subseteq Daemons

Runs == 1..NRuns
Columns == {"ready", "in_progress", "awaiting_input", "review", "blocked"}
LaunchStates == {"ready", "in_progress"}
\* A dead run.json reads "absent"; the two pauses are one status.
RunStatuses == {"absent", "running", "paused", "finished", "failed",
                "failed_resumable", "cancelled"}
\* The dispatch error classes of finishRun.
Outcomes == {"none", "ok", "paused", "cancelled", "deterministic", "failed"}

VARIABLES
    card,    \* [col, claim, fresh, last]: the issue on the board
    run,     \* Runs -> status in run.json
    lock,    \* Runs -> who holds the run's file lock
    up,      \* Daemons -> process state
    pick,    \* Daemons -> the candidate the actor is dispatching
    entry,   \* Daemons -> state.running[card]
    retry,   \* Daemons -> state.retries[card]
    tomb,    \* Daemons -> state.tombstones[card]
    work,    \* Daemons -> the worker goroutine of the dispatch
    fins,    \* Daemons -> finish workers, each with its plan
    reap,    \* Daemons -> the watchdog's pass over the card
    minted,  \* identifiers used so far
    ops      \* interventions and faults so far

vars == <<card, run, lock, up, pick, entry, retry, tomb, work, fins, reap,
          minted, ops>>
local == <<pick, entry, retry, tomb, work, fins, reap>>
hist == <<minted, ops>>

NoClaim == [by |-> None, rec |-> FALSE, ep |-> 0]
NoPick == [at |-> "none", col |-> "ready", tok |-> NoClaim]
NoEntry == [on |-> FALSE, run |-> 1, tok |-> NoClaim, src |-> "ready",
            from |-> None, pending |-> FALSE, try |-> 0]
NoRetry == [at |-> "none", try |-> 0, prev |-> None]
NoWork == [pc |-> "none", run |-> 1, tok |-> NoClaim, src |-> "ready",
           from |-> None, stop |-> "no", out |-> "none"]
NoReap == [at |-> "none", prev |-> NoClaim, seen |-> "absent", last |-> None,
           to |-> None]

\* A step that is a fault, if it is one, is counted.
Fault(counts) == (counts => ops < MaxOps) /\ ops' = IF counts THEN ops + 1 ELSE ops

\* The status of the run the card points to; with no pointer, of no run.
StatusOf(i) == IF i = None THEN "absent" ELSE run[i]
-----------------------------------------------------------------------------
(***************************************************************************)
(* The board store.                                                        *)
(***************************************************************************)
Remembered ==
    {card.claim.ep} \cup UNION {{pick[d].tok.ep, entry[d].tok.ep,
        work[d].tok.ep, reap[d].prev.ep} \cup {f.tok.ep : f \in fins[d]} :
            d \in Daemons}
NewToken(d, rec) ==
    [by |-> d, rec |-> rec,
     ep |-> CHOOSE n \in 1..(Cardinality(Remembered) + 1) : n \notin Remembered]

\* A claim conflicts with another marker only; the column is not looked at.
CanClaim(d) ==
    card.claim = NoClaim \/ (card.claim.by = d /\ ~card.claim.rec)
ClaimToken(d) == IF card.claim = NoClaim THEN NewToken(d, FALSE) ELSE card.claim

\* Only an operator's reopening leaves the terminal column.
MayEnter(to) == card.col = "blocked" => to = "blocked"

Owned(tok) == card.claim = tok

\* UpdateStateOwned, and its compare-and-set form.
MoveOwned(c, to, tok) ==
    IF c.claim = tok /\ MayEnter(to) THEN [c EXCEPT !.col = to] ELSE c
MoveOwnedFrom(c, from, to, tok) ==
    IF c.col = from THEN MoveOwned(c, to, tok) ELSE c

Freed(c) == [c EXCEPT !.claim = NoClaim, !.fresh = FALSE]
\* Mutant: the marker is compared, the epoch is not.
ReleaseMarker(c, tok) ==
    IF c.claim.by = tok.by /\ c.claim.rec = tok.rec THEN Freed(c) ELSE c

ReleaseOwned(c, tok) == IF c.claim = tok THEN Freed(c) ELSE c
\* Release by marker.
Release(c, d) == IF c.claim.by = d /\ ~c.claim.rec THEN Freed(c) ELSE c

\* stampLastRun of a dispatch that may have lost its claim.
StampOwned(c, i, tok) == IF c.claim = tok THEN [c EXCEPT !.last = i] ELSE c
-----------------------------------------------------------------------------
Init ==
    /\ card = [col |-> "ready", claim |-> NoClaim, fresh |-> FALSE,
               last |-> None]
    /\ run = [i \in Runs |-> "absent"] /\ lock = [i \in Runs |-> None]
    /\ up = [d \in Daemons |-> "off"]
    /\ pick = [d \in Daemons |-> NoPick] /\ entry = [d \in Daemons |-> NoEntry]
    /\ retry = [d \in Daemons |-> NoRetry] /\ tomb = [d \in Daemons |-> FALSE]
    /\ work = [d \in Daemons |-> NoWork] /\ fins = [d \in Daemons |-> {}]
    /\ reap = [d \in Daemons |-> NoReap]
    /\ minted = 0 /\ ops = 0

\* A heartbeat renews the claim from the dispatch to the last write of its
\* finish worker; a claim just taken has its whole lease before it.
Alive(d) == up[d] \in {"up", "stopped"}
Dispatches(d, tok) ==
    /\ Alive(d) /\ tok # NoClaim
    /\ \/ pick[d].at = "claimed" /\ pick[d].tok = tok
       \/ entry[d].on /\ entry[d].tok = tok
       \/ \E f \in fins[d] : f.tok = tok

LeaseExpires ==
    /\ card.claim # NoClaim /\ card.fresh
    /\ LET live == \E d \in Daemons : Dispatches(d, card.claim)
       IN /\ live => Lapses
          /\ Fault(live)
    /\ card' = [card EXCEPT !.fresh = FALSE]
    /\ UNCHANGED <<run, lock, up, local, minted>>

\* RenewClaim: the token is compared, the expiry is not.
Renew(d) ==
    /\ ~card.fresh /\ Dispatches(d, card.claim)
    /\ card' = [card EXCEPT !.fresh = TRUE]
    /\ UNCHANGED <<run, lock, up, local, hist>>
-----------------------------------------------------------------------------
(***************************************************************************)
(* A daemon's life.                                                        *)
(***************************************************************************)
\* Mutant: the boot sweep does not ask whether the process is dead.
StartSweepingAll(d) ==
    /\ up[d] = "off" /\ up' = [up EXCEPT ![d] = "up"]
    /\ Overlap \/ \A e \in Daemons : up[e] # "up"
    /\ \E sameHost \in BOOLEAN :
          card' = IF sameHost /\ card.claim # NoClaim THEN Freed(card) ELSE card
    /\ UNCHANGED <<run, lock, local, hist>>

\* The boot sweep releases what dead processes of this host have claimed; a
\* daemon on another host leaves it to the watchdog.
Start(d) ==
    /\ up[d] = "off" /\ up' = [up EXCEPT ![d] = "up"]
    /\ Overlap \/ \A e \in Daemons : up[e] # "up"
    /\ \E sameHost \in BOOLEAN :
          card' = IF sameHost /\ card.claim # NoClaim
                        /\ up[card.claim.by] = "dead"
                  THEN Freed(card) ELSE card
    /\ UNCHANGED <<run, lock, local, hist>>

SomeoneElse(d) == \E e \in Daemons \ {d} : up[e] \in {"off", "up"}

\* Engines run inside the daemon: they die with it and the lock is dropped.
Crash(d) ==
    /\ Alive(d) /\ SomeoneElse(d)
    /\ up' = [up EXCEPT ![d] = "dead"]
    /\ lock' = [i \in Runs |-> IF lock[i] = d THEN None ELSE lock[i]]
    /\ pick' = [pick EXCEPT ![d] = NoPick]
    /\ entry' = [entry EXCEPT ![d] = NoEntry]
    /\ retry' = [retry EXCEPT ![d] = NoRetry]
    /\ tomb' = [tomb EXCEPT ![d] = FALSE]
    /\ work' = [work EXCEPT ![d] = NoWork] /\ fins' = [fins EXCEPT ![d] = {}]
    /\ reap' = [reap EXCEPT ![d] = NoReap]
    /\ UNCHANGED <<card, run, hist>>

Interrupted(w) == [w EXCEPT !.stop = IF @ = "no" THEN "interrupt" ELSE @]

\* Shutdown interrupts the worker and then, while it unwinds, reverts the card
\* and gives the claim back, as a finish worker does.
Shutdown(d) ==
    /\ up[d] = "up" /\ SomeoneElse(d) /\ pick[d].at \in {"none", "listed"}
    /\ up' = [up EXCEPT ![d] = "stopped"]
    /\ work' = [work EXCEPT ![d] = Interrupted(@)]
    /\ fins' = [fins EXCEPT ![d] = IF ~entry[d].on THEN @ ELSE
                  @ \cup {[kind |-> "revert", from |-> entry[d].from,
                           tok |-> entry[d].tok, step |-> "move"]}]
    /\ entry' = [entry EXCEPT ![d] = NoEntry]
    /\ retry' = [retry EXCEPT ![d] = NoRetry]
    /\ pick' = [pick EXCEPT ![d] = NoPick]
    /\ UNCHANGED <<card, run, lock, tomb, reap, hist>>
-----------------------------------------------------------------------------
(***************************************************************************)
(* The actor's dispatch of a listed candidate.                             *)
(***************************************************************************)
\* The actor is between two commands (a dispatch is one command).
Actor(d) == up[d] = "up" /\ pick[d].at \in {"none", "listed"}

\* Listings run on a goroutine of their own and are applied later.
ListCandidates(d) ==
    /\ up[d] = "up" /\ pick[d].at = "none"
    /\ card.col \in LaunchStates /\ card.claim = NoClaim
    /\ pick' = [pick EXCEPT ![d] = [NoPick EXCEPT !.at = "listed",
                                                  !.col = card.col]]
    /\ UNCHANGED <<card, run, lock, up, entry, retry, tomb, work, fins, reap,
                   hist>>

isClaimed(d) == entry[d].on \/ tomb[d] \/ retry[d].at = "armed"

\* Mutant: the run's lock is not probed.
promoteUnprobed(i) ==
    IF i # None /\ StatusOf(i) = "running"
    THEN {[run EXCEPT ![i] = s] : s \in {"failed", "failed_resumable"}}
    ELSE {run}

\* promoteIfOrphaned: a running run whose lock is free lost its process; it
\* is resumable if it had reached a checkpoint.
promoteIfOrphaned(i) ==
    IF i # None /\ StatusOf(i) = "running" /\ lock[i] = None
    THEN {[run EXCEPT ![i] = s] : s \in {"failed", "failed_resumable"}}
    ELSE {run}

\* The read-only holds before the claim.
lastRunHoldBeforeClaim(d) ==
    /\ up[d] = "up" /\ pick[d].at = "listed"
    /\ run' \in IF isClaimed(d) THEN {run} ELSE promoteIfOrphaned(card.last)
    /\ LET status == IF card.last = None THEN "absent" ELSE run'[card.last]
           held == isClaimed(d) \/ status \in {"running", "cancelled"}
       IN /\ pick' = [pick EXCEPT ![d] = IF held THEN NoPick
                                         ELSE [@ EXCEPT !.at = "checked"]]
          /\ retry' = [retry EXCEPT ![d] =
                         IF ~isClaimed(d) /\ status = "cancelled"
                         THEN NoRetry ELSE @]
    /\ UNCHANGED <<card, lock, up, entry, tomb, work, fins, reap, hist>>

ClaimCard(d) ==
    /\ pick[d].at = "checked"
    /\ \/ /\ CanClaim(d)
          /\ card' = [card EXCEPT !.claim = ClaimToken(d), !.fresh = TRUE]
          /\ pick' = [pick EXCEPT ![d] = [@ EXCEPT !.at = "claimed",
                                                   !.tok = ClaimToken(d)]]
       \/ /\ ~CanClaim(d)
          /\ pick' = [pick EXCEPT ![d] = NoPick] /\ UNCHANGED card
    /\ UNCHANGED <<run, lock, up, entry, retry, tomb, work, fins, reap, hist>>

\* buildRunningEntry stamps the run on the card before the run exists.
Launch(d, i) ==
    /\ entry' = [entry EXCEPT ![d] =
          [on |-> TRUE, run |-> i, tok |-> pick[d].tok, src |-> pick[d].col,
           from |-> None, pending |-> TRUE, try |-> retry[d].try]]
    /\ work' = [work EXCEPT ![d] =
          [NoWork EXCEPT !.pc = "setup", !.run = i, !.tok = pick[d].tok,
                         !.src = pick[d].col]]
    /\ card' = [card EXCEPT !.last = i]
    /\ retry' = [retry EXCEPT ![d] = NoRetry]

\* lastRunForbidsFresh: these statuses still own the ticket.
ForbidsFresh == {"paused", "running", "failed_resumable", "cancelled"}

\* A paused run is parked again; a resumable one is resumed, by the retry's
\* pointer or by the card's; a fresh run needs a settled predecessor.
resolveRunID(d) ==
    LET status == IF card.last = None THEN "absent" ELSE run'[card.last]
        retried == retry[d].at # "none"
        resumed == IF retried THEN retry[d].prev
                   ELSE IF status = "failed_resumable" THEN card.last ELSE None
    IN /\ pick[d].at = "claimed"
       /\ run' \in IF StatusOf(card.last) = "paused" \/ retried THEN {run}
                   ELSE promoteIfOrphaned(card.last)
       /\ \/ /\ StatusOf(card.last) = "paused"
             /\ card' = IF MayEnter("awaiting_input")
                        THEN [card EXCEPT !.col = "awaiting_input"] ELSE card
             /\ retry' = [retry EXCEPT ![d] = NoRetry]
             /\ UNCHANGED <<entry, work, minted>>
          \/ /\ StatusOf(card.last) # "paused" /\ resumed # None
             /\ Launch(d, resumed) /\ UNCHANGED minted
          \/ /\ StatusOf(card.last) # "paused" /\ resumed = None
             /\ status \in ForbidsFresh \/ minted = NRuns
             /\ card' = Release(card, d)
             /\ retry' = [retry EXCEPT ![d].prev =
                   IF retried /\ status = "failed_resumable"
                   THEN card.last ELSE @]
             /\ UNCHANGED <<entry, work, minted>>
          \/ /\ StatusOf(card.last) # "paused" /\ resumed = None
             /\ status \notin ForbidsFresh /\ minted < NRuns
             /\ Launch(d, minted + 1)
             /\ minted' = minted + 1
       /\ pick' = [pick EXCEPT ![d] = NoPick]
       /\ UNCHANGED <<lock, up, tomb, fins, reap, ops>>
-----------------------------------------------------------------------------
(***************************************************************************)
(* The worker goroutine: set-up, hooks, engine.                            *)
(***************************************************************************)
\* The move to in_progress is fenced, not conditional on the column; a lost
\* claim ends the dispatch, any other refusal does not.
runDispatchSetup(d) ==
    LET moves == work[d].src # "in_progress" /\ work[d].stop = "no"
        lost == moves /\ ~Owned(work[d].tok)
        moved == moves /\ ~lost /\ MayEnter("in_progress")
    IN /\ work[d].pc = "setup"
       /\ card' = IF moved THEN [card EXCEPT !.col = "in_progress"] ELSE card
       /\ \E created \in BOOLEAN :
             /\ Fault(~created /\ ~lost)
             /\ work' = [work EXCEPT ![d] =
                   [@ EXCEPT !.pc = IF created /\ ~lost THEN "hooks"
                                    ELSE "setup_failed",
                             !.from = IF moved THEN work[d].src ELSE None,
                             !.src = "ready", !.tok = NoClaim]]
       /\ UNCHANGED <<run, lock, up, pick, entry, retry, tomb, fins, reap,
                      minted>>

Returned(w, out) == [w EXCEPT !.pc = "returned", !.out = out]

EngineResumes == {"failed_resumable", "cancelled"}
Startable(i) == run[i] = "absent" \/ run[i] \in EngineResumes

\* A hook fails, the run's lock is held, or the engine refuses the run: one
\* whose bot has changed since is handed to the operator.
NotStarted(d) ==
    LET i == work[d].run
    IN /\ work[d].pc = "hooks"
       /\ Fault(lock[i] = None /\ Startable(i))
       /\ \E out \in {"failed"} \cup
                IF lock[i] = None /\ run[i] \in EngineResumes
                THEN {"paused"} ELSE {} :
             work' = [work EXCEPT ![d] = Returned(@, out)]
       /\ UNCHANGED <<card, run, lock, up, pick, entry, retry, tomb, fins, reap,
                      minted>>

\* Started under a context that is already cancelled, an engine creates the
\* run and executes none of its nodes.
EngineStarts(d) ==
    LET i == work[d].run
    IN /\ work[d].pc = "hooks" /\ lock[i] = None /\ Startable(i)
       /\ lock' = [lock EXCEPT ![i] = d] /\ run' = [run EXCEPT ![i] = "running"]
       /\ work' = [work EXCEPT ![d].pc =
                     IF work[d].stop = "no" THEN "exec" ELSE "doomed"]
       /\ UNCHANGED <<card, up, pick, entry, retry, tomb, fins, reap, hist>>

\* <<status written, class of the error returned>>
EngineEndings(w) ==
    (IF w.pc = "exec" THEN {<<"finished", "ok">>} ELSE {})
    \cup CASE w.stop = "interrupt" -> {<<"failed_resumable", "failed">>}
           [] w.stop = "operator" -> {<<"cancelled", "cancelled">>}
           [] OTHER -> {<<"paused", "paused">>}
                       \cup {"failed", "failed_resumable"}
                            \X {"failed", "deterministic"}
EngineReturns(d) ==
    LET i == work[d].run
    IN /\ work[d].pc \in {"exec", "doomed"}
       /\ \E e \in EngineEndings(work[d]) :
             /\ run' = [run EXCEPT ![i] = e[1]]
             /\ work' = [work EXCEPT ![d] = Returned(@, e[2])]
       /\ lock' = [lock EXCEPT ![i] = None]
       /\ UNCHANGED <<card, up, pick, entry, retry, tomb, fins, reap, hist>>

\* A stopped actor takes no more messages.
WorkerEnds(d) ==
    /\ up[d] = "stopped" /\ work[d].pc \in {"setup_failed", "returned"}
    /\ work' = [work EXCEPT ![d] = NoWork]
    /\ UNCHANGED <<card, run, lock, up, pick, entry, retry, tomb, fins, reap,
                   hist>>
-----------------------------------------------------------------------------
(***************************************************************************)
(* What the actor does with the worker's messages and with its own ticks.  *)
(***************************************************************************)
Larger(a, b) == IF a > b THEN a ELSE b
scheduleRetry(d, e) ==
    [at |-> "armed", try |-> Larger(e.try, retry[d].try) + 1,
     prev |-> IF run[e.run] = "failed_resumable" THEN e.run ELSE None]

exhausted(e) == e.try + 1 >= MaxAttempts

Plan(e, out) ==
    [kind |-> IF out = "ok" THEN "completed"
              ELSE IF out = "deterministic" \/ (out = "failed" /\ exhausted(e))
                   THEN "giveup" ELSE "revert",
     from |-> e.from, tok |-> e.tok, step |-> "move"]

\* A pause, or a bot that has changed, parks the card and keeps the claim
\* without a heartbeat; an operator's cancel keeps the claim and the column;
\* everything else has a plan.
finishRun(d, e, out) ==
    LET stamped == StampOwned(card, e.run, e.tok)
    IN /\ entry' = [entry EXCEPT ![d] = NoEntry]
       /\ card' = IF out = "paused"
                  THEN MoveOwned(stamped, "awaiting_input", e.tok)
                  ELSE stamped
       /\ retry' = [retry EXCEPT ![d] =
             CASE out = "ok" -> NoRetry
               [] out \in {"failed", "deterministic"} -> scheduleRetry(d, e)
               [] OTHER -> @]
       /\ fins' = [fins EXCEPT ![d] =
             @ \cup IF out \in {"paused", "cancelled"} THEN {}
                    ELSE {Plan(e, out)}]

SetupDone(d) ==
    LET e == [entry[d] EXCEPT !.from = work[d].from, !.pending = FALSE]
    IN /\ Actor(d) /\ entry[d].pending
       /\ work[d].pc \notin {"none", "setup"}
       /\ \/ /\ work[d].pc = "setup_failed"
             /\ finishRun(d, e, "failed")
             /\ work' = [work EXCEPT ![d] = NoWork]
          \/ /\ work[d].pc # "setup_failed"
             /\ entry' = [entry EXCEPT ![d] = e]
             /\ UNCHANGED <<card, retry, work, fins>>
       /\ UNCHANGED <<run, lock, up, pick, tomb, reap, hist>>

\* A worker whose entry was force-reaped finds nothing to finish.
RunFinished(d) ==
    /\ Actor(d) /\ work[d].pc = "returned" /\ ~entry[d].pending
    /\ \/ entry[d].on /\ finishRun(d, entry[d], work[d].out)
       \/ ~entry[d].on /\ UNCHANGED <<card, entry, retry, fins>>
    /\ tomb' = [tomb EXCEPT ![d] = FALSE]
    /\ work' = [work EXCEPT ![d] = NoWork]
    /\ UNCHANGED <<run, lock, up, pick, reap, hist>>

RetryDue(d) ==
    /\ Actor(d) /\ retry[d].at = "armed"
    /\ retry' = [retry EXCEPT ![d].at = "fired"]
    /\ UNCHANGED <<card, run, lock, up, pick, entry, tomb, work, fins, reap,
                   hist>>

\* refreshRunningStates: the card is not where this dispatch put it.
CardMoved(d) ==
    card.col # IF entry[d].from = None THEN entry[d].src ELSE "in_progress"
Tracked(d) == Actor(d) /\ entry[d].on /\ ~entry[d].pending

InterruptWorker(d) ==
    /\ work[d].stop = "no" /\ work[d].pc \in {"hooks", "exec"}
    /\ work' = [work EXCEPT ![d] = Interrupted(@)]
    /\ UNCHANGED <<card, run, lock, up, pick, entry, retry, tomb, fins, reap,
                   minted>>

RefreshStates(d) == Tracked(d) /\ CardMoved(d) /\ InterruptWorker(d)
                    /\ UNCHANGED ops

\* The heartbeat found another token on the card; the message may be dropped.
ClaimLost(d) == Actor(d) /\ entry[d].on /\ ~Owned(entry[d].tok)
                /\ InterruptWorker(d) /\ UNCHANGED ops

\* reconcileStalled: no event for too long.
Stalled(d) == Tracked(d) /\ Fault(TRUE) /\ InterruptWorker(d)

\* The worker has not returned within the grace that follows its cancel.
ForceReap(d) ==
    /\ Tracked(d) /\ work[d].stop # "no"
    /\ work[d].pc \in {"hooks", "exec", "doomed"}
    /\ tomb' = [tomb EXCEPT ![d] = TRUE] /\ finishRun(d, entry[d], "reaped")
    /\ UNCHANGED <<run, lock, up, pick, work, reap, hist>>
-----------------------------------------------------------------------------
(***************************************************************************)
(* The finish worker: the card is moved first, the claim given back last.  *)
(***************************************************************************)
\* Mutant: a card that was not moved is reverted too.
revertAlways(f) == MoveOwnedFrom(card, "in_progress", f.from, f.tok)

\* A card that its dispatch did not move has nowhere to go back to.
revertTransition(f) ==
    IF f.from = None THEN card
    ELSE MoveOwnedFrom(card, "in_progress", f.from, f.tok)

FinishMove(d, f) ==
    /\ Alive(d) /\ f.step = "move"
    /\ card' = CASE f.kind = "completed" ->
                      MoveOwnedFrom(card, "in_progress", "review", f.tok)
                 [] f.kind = "giveup" /\ Owned(f.tok) ->
                      MoveOwned(card, "blocked", f.tok)
                 [] OTHER -> revertTransition(f)
    /\ retry' = [retry EXCEPT ![d] =
                   IF f.kind = "giveup" /\ Owned(f.tok) THEN NoRetry ELSE @]
    /\ fins' = [fins EXCEPT ![d] =
                  (@ \ {f}) \cup {[f EXCEPT !.step = "release"]}]
    /\ UNCHANGED <<run, lock, up, pick, entry, tomb, work, reap, hist>>

FinishRelease(d, f) ==
    /\ Alive(d) /\ f.step = "release"
    /\ card' = ReleaseOwned(card, f.tok)
    /\ fins' = [fins EXCEPT ![d] = @ \ {f}]
    /\ UNCHANGED <<run, lock, up, pick, entry, retry, tomb, work, reap, hist>>
-----------------------------------------------------------------------------
(***************************************************************************)
(* The watchdog: expired claims are taken over under a recovery marker,    *)
(* and the card is filed the way its dead worker would have done it.       *)
(***************************************************************************)
\* Mutant: a run that failed for good is conserved.
DecideKeepingFailed(status, last, col) ==
    CASE status = "absent" -> IF last = None THEN "release" ELSE "blocked"
      [] status = "finished" -> "review"
      [] status = "failed_resumable" ->
            IF col \in LaunchStates THEN "release" ELSE "keep"
      [] OTHER -> "keep"

\* What becomes of a card in col whose run reads status.
DecideStuckCard(status, last, col) ==
    CASE status = "absent" -> IF last = None THEN "release" ELSE "blocked"
      [] status = "finished" -> "review"
      [] status = "failed" -> "blocked"
      [] status = "failed_resumable" ->
            IF col \in LaunchStates THEN "release" ELSE "keep"
      [] OTHER -> "keep"

\* Whether to take the claim is judged as if the card were in the pool; a
\* claim already held for recovery is not conserved for a second lease.
Transfers(status, last, prev) ==
    \/ DecideStuckCard(status, last, "in_progress") # "keep"
    \/ prev.rec /\ status # "running"

\* The run is read before the claim is taken.  Only this starts a pass, so a
\* daemon without the watchdog never takes a claim over.
ReapLoad(d) ==
    /\ d \in Watchdogs /\ up[d] = "up" /\ reap[d].at = "none"
    /\ card.claim # NoClaim /\ ~card.fresh
    /\ run' \in promoteIfOrphaned(card.last)
    /\ LET status == IF card.last = None THEN "absent" ELSE run'[card.last]
       IN IF Transfers(status, card.last, card.claim)
          THEN reap' = [reap EXCEPT ![d] =
                  [at |-> "take", prev |-> card.claim, seen |-> status,
                   last |-> card.last, to |-> None]]
          ELSE run' # run /\ UNCHANGED reap
    /\ UNCHANGED <<card, lock, up, pick, entry, retry, tomb, work, fins, hist>>

\* Columns an operator chose are left alone.
ShouldFileStuckCard(to) == card.col \in LaunchStates /\ card.col # to

\* ReclaimExpired compares the claim that was listed and its expiry.
ReclaimExpired(prev) == card.claim = prev /\ ~card.fresh

ReapTake(d) ==
    LET tok == NewToken(d, TRUE)
        to == DecideStuckCard(reap[d].seen, reap[d].last, card.col)
        next == CASE to = "keep" -> IF reap[d].prev.rec THEN "release"
                                    ELSE "none"
                  [] to \in {"review", "blocked"} /\ ShouldFileStuckCard(to) ->
                        "file"
                  [] OTHER -> "release"
    IN /\ Alive(d) /\ reap[d].at = "take"
       /\ \/ /\ ReclaimExpired(reap[d].prev)
             /\ card' = [card EXCEPT !.claim = tok, !.fresh = TRUE]
             /\ reap' = [reap EXCEPT ![d] =
                   IF next = "none" THEN NoReap
                   ELSE [NoReap EXCEPT !.at = next, !.prev = tok, !.to = to]]
          \/ /\ ~ReclaimExpired(reap[d].prev)
             /\ reap' = [reap EXCEPT ![d] = NoReap] /\ UNCHANGED card
       /\ UNCHANGED <<run, lock, up, pick, entry, retry, tomb, work, fins,
                      hist>>

\* A filing that does not land keeps the recovery claim.
ReapFile(d) ==
    LET lands == Owned(reap[d].prev) /\ MayEnter(reap[d].to)
    IN /\ Alive(d) /\ reap[d].at = "file"
       /\ card' = MoveOwned(card, reap[d].to, reap[d].prev)
       /\ reap' = [reap EXCEPT ![d] =
                     IF lands THEN [@ EXCEPT !.at = "release"] ELSE NoReap]
       /\ UNCHANGED <<run, lock, up, pick, entry, retry, tomb, work, fins,
                      hist>>

ReapRelease(d) ==
    /\ Alive(d) /\ reap[d].at = "release"
    /\ card' = ReleaseOwned(card, reap[d].prev)
    /\ reap' = [reap EXCEPT ![d] = NoReap]
    /\ UNCHANGED <<run, lock, up, pick, entry, retry, tomb, work, fins, hist>>
-----------------------------------------------------------------------------
(***************************************************************************)
(* The actor's sweeps over parked cards, and the operators.                *)
(***************************************************************************)
\* A run resumed from a console and ended there: its card leaves
\* awaiting_input.  The move is not fenced.
reconcileParked(d) ==
    LET to == IF StatusOf(card.last) = "finished" THEN "review" ELSE "blocked"
    IN /\ Actor(d) /\ ~entry[d].on
       /\ card.col = "awaiting_input" /\ CanClaim(d)
       /\ StatusOf(card.last) \in {"finished", "failed"}
       /\ card' = Release([card EXCEPT !.col = to], d)
       /\ UNCHANGED <<run, lock, up, local, hist>>

\* A free card of the pool whose run waits for a human is parked again.
reconcileStrandedPaused(d) ==
    /\ Actor(d) /\ ~entry[d].on
    /\ card.col \in LaunchStates /\ card.claim = NoClaim
    /\ StatusOf(card.last) = "paused"
    /\ card' = [card EXCEPT !.claim = ClaimToken(d), !.fresh = TRUE,
                            !.col = "awaiting_input"]
    /\ retry' = [retry EXCEPT ![d] = NoRetry]
    /\ UNCHANGED <<run, lock, up, pick, entry, tomb, work, fins, reap, hist>>

\* A drag on the board; out of the terminal column it is a reopening.
Drag(to) ==
    /\ Fault(TRUE)
    /\ card.col # to /\ card' = [card EXCEPT !.col = to]
    /\ UNCHANGED <<run, lock, up, local, minted>>

CancelRun(d) ==
    /\ Actor(d) /\ entry[d].on /\ work[d].stop = "no"
    /\ Fault(TRUE)
    /\ work' = [work EXCEPT ![d].stop = "operator"]
    /\ UNCHANGED <<card, run, lock, up, pick, entry, retry, tomb, fins, reap,
                   minted>>

\* An operator resumes a run from the studio or the command line.
ConsoleResumes(i) ==
    /\ Fault(TRUE)
    /\ run[i] \in EngineResumes \cup {"paused"} /\ lock[i] = None
    /\ run' = [run EXCEPT ![i] = "running"]
    /\ lock' = [lock EXCEPT ![i] = Console]
    /\ UNCHANGED <<card, up, local, minted>>

ConsoleReturns(i) ==
    /\ lock[i] = Console
    /\ \E s \in {"finished", "failed", "failed_resumable", "paused"} :
          run' = [run EXCEPT ![i] = s]
    /\ lock' = [lock EXCEPT ![i] = None]
    /\ UNCHANGED <<card, up, local, hist>>
-----------------------------------------------------------------------------
Dispatching(d) ==
    \/ ListCandidates(d) \/ lastRunHoldBeforeClaim(d) \/ ClaimCard(d)
    \/ resolveRunID(d)
Working(d) ==
    \/ runDispatchSetup(d) \/ NotStarted(d) \/ EngineStarts(d)
    \/ EngineReturns(d) \/ WorkerEnds(d)
Attending(d) ==
    \/ SetupDone(d) \/ RunFinished(d) \/ RetryDue(d)
    \/ reconcileParked(d) \/ reconcileStrandedPaused(d)
Stopping(d) == RefreshStates(d) \/ ClaimLost(d) \/ Stalled(d) \/ ForceReap(d)
Finishing(d) == \E f \in fins[d] : FinishMove(d, f) \/ FinishRelease(d, f)
Reaping(d) == ReapLoad(d) \/ ReapTake(d) \/ ReapFile(d) \/ ReapRelease(d)

Next ==
    \/ \E d \in Daemons :
          \/ Start(d) \/ Crash(d) \/ Shutdown(d) \/ Renew(d)
          \/ Dispatching(d) \/ Working(d) \/ Attending(d) \/ Stopping(d)
          \/ Finishing(d) \/ Reaping(d) \/ CancelRun(d)
    \/ LeaseExpires
    \/ \E to \in {"ready", "review", "blocked"} : Drag(to)
    \/ \E i \in Runs : ConsoleResumes(i) \/ ConsoleReturns(i)

\* Daemons boot, actors, workers and the watchdogs that are switched on get to
\* run, engines end (a stalled one is cancelled), retry timers and leases run
\* out.
Fairness ==
    /\ WF_vars(LeaseExpires) /\ WF_vars(\E i \in Runs : ConsoleReturns(i))
    /\ \A d \in Daemons :
          /\ WF_vars(Start(d)) /\ WF_vars(Dispatching(d)) /\ WF_vars(Working(d))
          /\ WF_vars(Attending(d)) /\ WF_vars(Finishing(d))
          /\ WF_vars(Reaping(d))

Spec == Init /\ [][Next]_vars /\ Fairness
-----------------------------------------------------------------------------
Tokens == [by : Daemons \cup {None}, rec : BOOLEAN, ep : Nat]
Origins == {None} \cup Columns
RunPointers == {None} \cup Runs
Cards == [col : Columns, claim : Tokens, fresh : BOOLEAN, last : RunPointers]
Picks == [at : {"none", "listed", "checked", "claimed"}, col : Columns,
          tok : Tokens]
Entries == [on : BOOLEAN, run : Runs, tok : Tokens, src : Columns,
            from : Origins, pending : BOOLEAN, try : Nat]
Retries == [at : {"none", "armed", "fired"}, try : Nat, prev : RunPointers]
Workers == [pc : {"none", "setup", "setup_failed", "hooks", "exec", "doomed",
                  "returned"},
            run : Runs, tok : Tokens, src : Columns, from : Origins,
            stop : {"no", "interrupt", "operator"}, out : Outcomes]
Plans == [kind : {"completed", "giveup", "revert"}, from : Origins,
          tok : Tokens, step : {"move", "release"}]
Passes == [at : {"none", "take", "file", "release"}, prev : Tokens,
           seen : RunStatuses, last : RunPointers,
           to : {None, "release", "keep"} \cup Columns]

\* Every variable has its type.
TypeOK ==
    /\ card \in Cards
    /\ run \in [Runs -> RunStatuses]
    /\ lock \in [Runs -> Daemons \cup {Console, None}]
    /\ up \in [Daemons -> {"off", "up", "stopped", "dead"}]
    /\ pick \in [Daemons -> Picks]
    /\ entry \in [Daemons -> Entries]
    /\ retry \in [Daemons -> Retries]
    /\ tomb \in [Daemons -> BOOLEAN]
    /\ work \in [Daemons -> Workers]
    /\ fins \in [Daemons -> SUBSET Plans]
    /\ reap \in [Daemons -> Passes]
    /\ minted \in 0..NRuns /\ ops \in 0..MaxOps

Executing(d) == work[d].pc = "exec"

\* Daemons that take turns never have two engines executing nodes for one
\* card, whatever lapses: what keeps a second one away once a claim is given
\* back under a live engine (shutdown, force-reap) is the hold on the card's
\* last run and the run's lock (loop.go, lastRunHoldBeforeClaim).  Daemons that overlap can: a retry that has passed
\* the hold resumes its own run without looking at the card again
\* (loop.go, resolveRunID).
OneEngine ==
    \A d, e \in Daemons : Executing(d) /\ Executing(e) => d = e

\* Without lapses, a dispatch owns the card as long as its run is in
\* progress (claimsession.go).
DispatchOwnsCard ==
    \A d \in Daemons : entry[d].on => Owned(entry[d].tok)

\* A claim under which a run is in progress is ended by that dispatch or,
\* once its lease has expired, taken over by the watchdog; never by what is
\* left of an earlier dispatch (native/store_lifecycle.go, ownedIssueLocked:
\* marker and epoch).
ClaimEndsWithItsDispatch ==
    [][\A d \in Daemons :
          entry[d].on /\ Owned(entry[d].tok) /\ card'.claim # card.claim
          => ~entry'[d].on \/ (~card.fresh /\ card'.claim.rec)]_vars

\* Where every daemon runs the claim watchdog, no card stays in in_progress for
\* ever: its run ends and the card is moved, by its dispatch, by the watchdog
\* after a crash, or by a later dispatch.  The watchdog is off by default
\* (reaper.go, claimReaperEnv): then the card of a daemon that died on another
\* host stays there, and nothing is promised.
\* What holds it there is a person's to lift: an operator's cancel, or a
\* question whose daemon died before it parked the card (stuckcard.go: "the
\* retained claim is the parking brake").  The bound on identifiers ends a
\* behaviour too.
NeverStranded ==
    card.col = "in_progress" /\ Watchdogs = Daemons
        ~> \/ card.col # "in_progress"
           \/ StatusOf(card.last) \in {"cancelled", "paused"}
           \/ minted = NRuns
=============================================================================
