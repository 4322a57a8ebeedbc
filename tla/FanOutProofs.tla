---------------------------- MODULE FanOutProofs -----------------------------
(***************************************************************************)
(* Proofs about FanOut, for every router: any branches and programs, any   *)
(* parallelism, await strategy, save policy, faults and number of resumes. *)
(* The durable checkpoint never regresses, gates need answers, signals and *)
(* pauses survive, an invocation's end is final, and the whole implements  *)
(* RunJournal.                                                             *)
(***************************************************************************)
EXTENDS FanOut, TLAPS

-----------------------------------------------------------------------------
(* The inductive invariant.                                                *)

\* An invocation is under way: its memory is ahead of the document.
Active == phase \in {"collect", "retire", "flush", "settle"}

\* The holder of the save lock is between its snapshot and its write.
Writing == {"pausing", "saveNext", "saveResumed", "saveDone", "saveCut",
            "savePark", "saveSpend", "saveDrop"}

\* The branch has an outcome and unwinds through its defers.
Leaving == {"spend", "saveSpend", "drop", "saveDrop", "leave", "panicked",
            "sent"}

\* The branch is at a node of its path.
Visiting == {"run", "exec", "parked", "wake", "advance", "pausing",
             "saveNext", "saveResumed"}

\* The branch has read its cursor and may still write it.
Placed == Visiting \cup {"saveDone", "savePark", "cut", "saveCut", "spend",
                         "saveSpend", "drop", "saveDrop"}

\* Every cursor, in memory, stored or about to be, lies on its branch's path.
CursorInv ==
    \A b \in Branches :
        /\ mem.cur[b] \in 1 .. End(b)
        /\ doc.cp.cur[b] \in 1 .. End(b)
        /\ \A w \in Branches \cup {Saver} : snap[w].cur[b] \in 1 .. End(b)

\* A branch behind a node's executor is not at the convergence node, and is at
\* a gate exactly when it has consumed that gate's answer.
PathOf(b, x) ==
    /\ x.pos \in 1 .. End(b)
    /\ x.pc \in {"exec", "parked", "wake", "advance"} => x.pos < End(b)
    /\ x.pc \in {"exec", "parked", "wake"} =>
          Node(b, x.pos) \notin {"human", "emit"}
    /\ x.pc = "advance" => (x.gate <=> Node(b, x.pos) = "human")
    /\ x.gate => x.pc \in {"advance", "saveResumed", "cut", "saveCut"}
                           \cup Leaving
    /\ x.res = "paused" => x.pc \in Leaving /\ ~x.gate

PathInv == \A b \in Branches : PathOf(b, branch[b])

\* A claimed pause still has its question and the invocation it is due.
ClaimInv ==
    phase = "claimed" =>
        /\ doc.status = "running"
        /\ doc.cp.pending # None
        /\ entered < MaxInvocations

\* The save lock is held by whoever writes, its snapshot is the memory, and
\* nobody holds it once a retired invocation has flushed.
LockInv ==
    /\ \A b \in Branches : lock = b <=> branch[b].pc \in Writing
    /\ lock # None => snap[lock] = mem
    /\ retired => phase \in {"flush", "settle", "over", "down", "claimed"}
    /\ phase \in {"flush", "settle", "over"} => retired
    /\ phase \in {"settle", "over"} => lock = None

\* A checkpoint's pending branch is parked on a gate, a recorded answer was
\* given there, and every gate a cursor has passed was answered.
CheckpointInv(cp) ==
    /\ cp.pending # None =>
          /\ IsGate(cp.pending, cp.cur[cp.pending])
          /\ cp.pending \notin cp.done
          /\ cp.answered => Gate(cp) \in answers
    /\ \A b \in Branches, p \in Nat :
          IsGate(b, p) /\ p < cp.cur[b] => <<b, p>> \in answers

\* The second checkpoint has come at least as far as the first.
Behind(old, new) ==
    /\ \A b \in Branches : old.cur[b] <= new.cur[b]
    /\ old.done \subseteq new.done

MemoryInv ==
    /\ CheckpointInv(mem)
    /\ CheckpointInv(doc.cp)
    /\ Active => Behind(doc.cp, mem)

\* A branch in state x is never behind its cursor in the checkpoint cp, and on
\* it while its gate is pending.
PlaceOf(b, x, cp) ==
    /\ x.pc \in Placed =>
          /\ cp.cur[b] <= x.pos
          /\ cp.pending = b => x.pos = cp.cur[b]
          /\ \A p \in Nat : IsGate(b, p) /\ p < x.pos => <<b, p>> \in answers
    /\ x.pc \in Visiting => b \notin cp.done
    /\ x.res = "ok" => retired \/ b \in cp.done

PlaceInv == \A b \in Branches : PlaceOf(b, branch[b], mem)

\* An answer is consumed by the branch whose turn it is, at its own gate; the
\* branch that asks is the pending one.
AnswerOf(b, x, cp, of) ==
    /\ \/ x.pc = "run" /\ x.ans
       \/ x.pc = "advance" /\ x.gate
       => of = b /\ cp.pending = b /\ <<b, x.pos>> \in answers
    /\ x.ans => x.pc \in {"run", "cut", "saveCut"} \cup Leaving
    /\ x.pc = "pausing" => cp.pending = b /\ cp.asked /\ ~cp.answered

AnswerInv ==
    /\ mem.pending # None /\ mem.answered => turn.of = mem.pending
    /\ \A b \in Branches : AnswerOf(b, branch[b], mem, turn.of)

\* A paused document has its question; until its invocation is over the memory
\* agrees with it and the branch that asked is on its way out.
PauseInv ==
    doc.status = "paused" =>
        /\ doc.ptr
        /\ doc.cp.pending # None
        /\ Active =>
              /\ mem.pending = doc.cp.pending
              /\ mem.cur[mem.pending] = doc.cp.cur[mem.pending]
              /\ mem.asked /\ ~mem.answered /\ ~doc.cp.answered
              /\ branch[mem.pending].res = "paused"

\* The verdict accounts for every branch: one that was abandoned or undecided
\* makes it undecided, one that paused keeps it from a join.
VerdictInv ==
    /\ Active => doc.status \in {"running", "paused"}
    /\ \A b \in collected : branch[b].pc = "sent"
    /\ phase \in {"retire", "flush", "settle"} /\ verdict # "undecided" =>
          /\ collected = Branches
          /\ \A b \in Branches : branch[b].res # "undecided"
          /\ doc.status = "paused" => verdict \in {"cut", "paused"}
    /\ verdict = "joined" /\ WaitAll =>
          \A b \in Branches : branch[b].pc = "sent" /\ b \in mem.done

\* The event is fired once a branch, or a cursor, is past the node that emits.
SignalInv ==
    \A b \in Branches, p \in Nat :
        p \in 1 .. Len(Prog[b]) /\ Node(b, p) = "emit" =>
          /\ doc.cp.cur[b] > p => doc.fired
          /\ Active \/ phase = "over" =>
               /\ mem.cur[b] > p => fired
               /\ branch[b].pc \in Placed /\ branch[b].pos > p => fired
               /\ branch[b].pc = "advance" /\ branch[b].pos = p => fired

IndInv ==
    /\ TypeOK /\ CursorInv /\ PathInv /\ ClaimInv /\ LockInv /\ MemoryInv
    /\ PlaceInv /\ AnswerInv /\ PauseInv /\ VerdictInv /\ SignalInv

-----------------------------------------------------------------------------
(* Facts about the operators.                                              *)

Cells == [pc: PCs, pos: Nat, res: Results, ans: BOOLEAN, gate: BOOLEAN]

\* A path has a natural length, and its end lies behind its last node.
LEMMA Ends ==
    ASSUME NEW b \in Branches
    PROVE  /\ Len(Prog[b]) \in Nat
           /\ End(b) \in Nat /\ End(b) >= 1
           /\ \A p \in Nat : IsGate(b, p) => p < End(b)
BY ProgAssumption DEF End, IsGate

\* What writing a branch's cursor changes of a checkpoint.
LEMMA CursorWritten ==
    ASSUME NEW cp \in Checkpoints, NEW b \in Branches, NEW p \in Nat
    PROVE  /\ WithCursor(cp, b, p) \in Checkpoints
           /\ WithCursor(cp, b, p).cur[b] = p
           /\ \A c \in Branches \ {b} : WithCursor(cp, b, p).cur[c] = cp.cur[c]
           /\ WithCursor(cp, b, p).done = cp.done
           /\ WithCursor(cp, b, p).pending = cp.pending
           /\ WithCursor(cp, b, p).asked = cp.asked
           /\ WithCursor(cp, b, p).answered <=> cp.answered /\ cp.pending # b
BY DEF WithCursor, Checkpoints

\* What giving up the pending interaction changes of a checkpoint.
LEMMA PendingCleared ==
    ASSUME NEW cp \in Checkpoints
    PROVE  /\ ClearPending(cp) \in Checkpoints
           /\ ClearPending(cp).cur = cp.cur
           /\ ClearPending(cp).done = cp.done
           /\ ClearPending(cp).pending = None
           /\ ~ClearPending(cp).asked /\ ~ClearPending(cp).answered
BY DEF ClearPending, Checkpoints

\* An invocation starts on a checkpoint of nothing but first nodes.
LEMMA Fresh ==
    /\ FreshInvocation \in Checkpoints
    /\ FreshBranch \in Cells
    /\ Unlocked \in [Branches \cup {Saver} -> Checkpoints]
BY DEF FreshInvocation, FreshBranch, Unlocked, Checkpoints, Cells, PCs, Results

-----------------------------------------------------------------------------
(* The control of a branch.                                                *)

\* Only branch b moves.
Alone(b) ==
    /\ branch' \in [Branches -> Cells]
    /\ \A c \in Branches \ {b} : branch'[c] = branch[c]

\* The branches' part of the type invariant, with the path of each.
ControlInv == branch \in [Branches -> Cells] /\ PathInv

\* GoTo changes the place of one branch and nothing else of it.
LEMMA GoToMoves ==
    ASSUME ControlInv, NEW b \in Branches, NEW pc \in PCs, GoTo(b, pc)
    PROVE  /\ Alone(b)
           /\ branch'[b].pc = pc
           /\ branch'[b].pos = branch[b].pos
           /\ branch'[b].res = branch[b].res
           /\ branch'[b].ans = branch[b].ans
           /\ branch'[b].gate = branch[b].gate
BY DEF ControlInv, GoTo, Alone, Cells

\* LeaveWith changes the place and the result of one branch.
LEMMA LeaveMoves ==
    ASSUME ControlInv, NEW b \in Branches, NEW pc \in PCs, NEW res \in Results,
           LeaveWith(b, pc, res)
    PROVE  /\ Alone(b)
           /\ branch'[b].pc = pc
           /\ branch'[b].pos = branch[b].pos
           /\ branch'[b].res = res
           /\ branch'[b].ans = branch[b].ans
           /\ branch'[b].gate = branch[b].gate
BY DEF ControlInv, LeaveWith, Alone, Cells

\* A branch that gets its slot reads its cursor and its recorded answer, and
\* returns at once if it is complete (branchSlot.acquire, execBranch).
LEMMA AcquireMoves ==
    ASSUME ControlInv, CursorInv, NEW b \in Branches, AcquireSlot(b)
    PROVE  \/ LeaveWith(b, "leave", "cancelled") /\ UNCHANGED held
           \/ /\ Alone(b)
              /\ branch'[b].pos = mem.cur[b]
              /\ branch'[b].pc = IF b \in mem.done THEN "leave" ELSE "run"
              /\ branch'[b].res = IF b \in mem.done THEN "ok" ELSE "none"
              /\ branch'[b].ans = (mem.pending = b /\ mem.answered)
              /\ branch'[b].gate = branch[b].gate
<1>1. CASE LeaveWith(b, "leave", "cancelled") /\ UNCHANGED held
  BY <1>1
<1>2. CASE ~(LeaveWith(b, "leave", "cancelled") /\ UNCHANGED held)
  <2> DEFINE x == [branch[b] EXCEPT
                     !.pos = mem.cur[b],
                     !.ans = mem.pending = b /\ mem.answered,
                     !.pc  = IF b \in mem.done THEN "leave" ELSE "run",
                     !.res = IF b \in mem.done THEN "ok" ELSE "none"]
  <2>1. branch' = [branch EXCEPT ![b] = x]
    BY <1>2 DEF AcquireSlot, CursorOf
  <2>2. branch[b] \in Cells /\ branch \in [Branches -> Cells]
    BY DEF ControlInv
  <2>3. mem.cur[b] \in Nat
    BY Ends DEF CursorInv
  <2>4. x \in Cells
    BY <2>2, <2>3 DEF Cells, PCs, Results
  <2>5. Alone(b) /\ branch'[b] = x
    BY <2>1, <2>2, <2>4 DEF Alone
  <2> HIDE DEF x
  <2>6. x.pos = mem.cur[b]
    BY <2>2 DEF x, Cells
  <2> QED BY <2>2, <2>5 DEF x, Cells
<1> QED BY <1>1, <1>2

\* A consumed answer is gone from the branch.
LEMMA ConsumeMoves ==
    ASSUME ControlInv, NEW b \in Branches, ConsumeAnswer(b)
    PROVE  /\ Alone(b)
           /\ branch'[b].pc = "advance" /\ branch'[b].gate /\ ~branch'[b].ans
           /\ branch'[b].pos = branch[b].pos
           /\ branch'[b].res = branch[b].res
<1>1. branch' = [branch EXCEPT ![b].ans = FALSE, ![b].gate = TRUE,
                               ![b].pc = "advance"]
  BY DEF ConsumeAnswer
<1> QED BY <1>1 DEF ControlInv, Alone, Cells, PCs

\* Branch b goes one node further.
Stepped(b, pc) ==
    /\ Alone(b)
    /\ branch'[b].pc = pc
    /\ branch'[b].pos = branch[b].pos + 1
    /\ branch'[b].res = branch[b].res
    /\ branch'[b].ans = branch[b].ans
    /\ branch'[b].gate = branch[b].gate

\* One branch is put on another node of its path.
LEMMA PositionMoves ==
    ASSUME ControlInv, NEW b \in Branches, NEW p \in Nat, NEW pc \in PCs,
           branch' = [branch EXCEPT ![b].pos = p, ![b].pc = pc]
    PROVE  /\ Alone(b)
           /\ branch'[b].pc = pc
           /\ branch'[b].pos = p
           /\ branch'[b].res = branch[b].res
           /\ branch'[b].ans = branch[b].ans
           /\ branch'[b].gate = branch[b].gate
BY DEF ControlInv, Alone, Cells

\* The same, one node further.
LEMMA StepMoves ==
    ASSUME ControlInv, NEW b \in Branches, NEW pc \in PCs,
           branch' = [branch EXCEPT ![b].pos = branch[b].pos + 1, ![b].pc = pc]
    PROVE  Stepped(b, pc)
<1> DEFINE next == branch[b].pos + 1
<1>1. next \in Nat
  BY DEF ControlInv, Cells
<1> QED BY <1>1, PositionMoves, Zenon DEF Stepped

\* After an output, a branch stops, moves on, or moves on and writes.
LEMMA AdvanceMoves ==
    ASSUME ControlInv, NEW b \in Branches, Advance(b)
    PROVE  \/ /\ retired /\ LeaveWith(b, "cut", "cancelled")
              /\ UNCHANGED <<mem, dirty, lock, snap>>
           \/ RefuseOutput(b) /\ UNCHANGED <<mem, dirty, lock, snap>>
           \/ /\ ~retired /\ Node(b, branch[b].pos) # "loop"
              /\ Stepped(b, "run") /\ UNCHANGED <<mem, dirty, lock, snap>>
           \/ /\ ~retired /\ Node(b, branch[b].pos) = "loop"
              /\ Stepped(b, "run") /\ lock = None /\ UNCHANGED <<lock, snap>>
              /\ mem' = WithCursor(mem, b, branch[b].pos + 1)
           \/ /\ ~retired /\ Node(b, branch[b].pos) = "loop"
              /\ Stepped(b, "saveNext") /\ TakeLock(b)
              /\ Snapshot(b, WithCursor(mem, b, branch[b].pos + 1))
<1>1. ASSUME NEW pc \in PCs,
             branch' = [[branch EXCEPT ![b].pos = branch[b].pos + 1]
                          EXCEPT ![b].pc = pc]
      PROVE  Stepped(b, pc)
  <2>1. branch' = [branch EXCEPT ![b].pos = branch[b].pos + 1, ![b].pc = pc]
    BY <1>1
  <2> QED BY <2>1, StepMoves, Zenon
<1>2. "run" \in PCs /\ "saveNext" \in PCs
  BY DEF PCs
<1> QED BY <1>1, <1>2, Zenon DEF Advance

\* After an answer, a branch stops, or moves on and writes.
LEMMA AdvanceGateMoves ==
    ASSUME ControlInv, NEW b \in Branches, AdvanceGate(b)
    PROVE  \/ /\ retired /\ LeaveWith(b, "cut", "cancelled")
              /\ UNCHANGED <<mem, lock, snap, turn>>
           \/ RefuseOutput(b) /\ UNCHANGED <<mem, lock, snap, turn>>
           \/ ~retired /\ Stepped(b, "saveResumed") /\ TakeLock(b)
<1>1. ASSUME branch' = [branch EXCEPT ![b].pos = branch[b].pos + 1,
                                      ![b].pc = "saveResumed"]
      PROVE  Stepped(b, "saveResumed")
  <2>1. "saveResumed" \in PCs
    BY DEF PCs
  <2> QED BY <1>1, <2>1, StepMoves, Zenon
<1>2. \/ /\ retired /\ LeaveWith(b, "cut", "cancelled")
         /\ UNCHANGED <<mem, lock, snap, turn>>
      \/ RefuseOutput(b) /\ UNCHANGED <<mem, lock, snap, turn>>
      \/ /\ ~retired /\ TakeLock(b)
         /\ branch' = [branch EXCEPT ![b].pos = branch[b].pos + 1,
                                     ![b].pc = "saveResumed"]
  BY DEF AdvanceGate
<1> QED BY <1>1, <1>2, Zenon

\* At a gate without an answer, a branch is retired, deferred or elected.
LEMMA ReachMoves ==
    ASSUME ControlInv, NEW b \in Branches, ReachGate(b)
    PROVE  /\ Alone(b)
           /\ branch'[b].pc = IF retired THEN "spend"
                              ELSE IF Elected(b) THEN "pausing" ELSE "savePark"
           /\ branch'[b].pos = branch[b].pos
           /\ branch'[b].res = IF ~retired /\ Elected(b) THEN branch[b].res
                               ELSE "deferred"
           /\ ~branch'[b].ans
           /\ branch'[b].gate = branch[b].gate
<1>1. \/ retired /\ branch' = [branch EXCEPT ![b].pc = "spend",
                                 ![b].res = "deferred", ![b].ans = FALSE]
      \/ /\ ~retired /\ ~Elected(b)
         /\ branch' = [branch EXCEPT ![b].pc = "savePark",
                                 ![b].res = "deferred", ![b].ans = FALSE]
      \/ /\ ~retired /\ Elected(b)
         /\ branch' = [branch EXCEPT ![b].pc = "pausing", ![b].ans = FALSE]
  BY DEF ReachGate
<1> QED BY <1>1 DEF ControlInv, Alone, Cells, PCs, Results

\* After its write, a branch goes where the write was to take it.
LEMMA SaveMoves ==
    ASSUME ControlInv, NEW b \in Branches, SaveBranch(b)
    PROVE  /\ Alone(b)
           /\ <<branch[b].pc, branch'[b].pc>> \in
                 {<<"saveNext", "run">>, <<"saveResumed", "run">>,
                  <<"saveDone", "spend">>, <<"savePark", "spend">>,
                  <<"saveCut", "spend">>, <<"saveSpend", "drop">>,
                  <<"saveDrop", "leave">>}
           /\ branch'[b].pos = branch[b].pos
           /\ branch'[b].res = branch[b].res
           /\ branch'[b].ans = branch[b].ans
           /\ branch'[b].gate = (branch[b].gate /\ branch[b].pc # "saveResumed")
<1> DEFINE to == AfterSave[branch[b].pc]
<1>1. /\ branch[b].pc \in {"saveNext", "saveResumed", "saveDone", "savePark",
                            "saveCut", "saveSpend", "saveDrop"}
      /\ branch' = [branch EXCEPT ![b].pc = to,
                       ![b].gate = branch[b].gate /\ branch[b].pc # "saveResumed"]
  BY DEF SaveBranch, AfterSave, At
<1>2. <<branch[b].pc, to>> \in
                 {<<"saveNext", "run">>, <<"saveResumed", "run">>,
                  <<"saveDone", "spend">>, <<"savePark", "spend">>,
                  <<"saveCut", "spend">>, <<"saveSpend", "drop">>,
                  <<"saveDrop", "leave">>}
  BY <1>1 DEF AfterSave
<1>3. to \in PCs
  BY <1>1 DEF AfterSave, PCs
<1> HIDE DEF to
<1> QED BY <1>1, <1>2, <1>3 DEF ControlInv, Alone, Cells, PCs

\* A step of a branch leaves the others where they are and keeps to its path.
LEMMA ControlStep ==
    ASSUME ControlInv, CursorInv, NEW b \in Branches, BranchStep(b)
    PROVE  Alone(b) /\ PathOf(b, branch'[b])
<1>0. branch[b] \in Cells /\ PathOf(b, branch[b])
  BY DEF ControlInv, PathInv
<1> USE <1>0, Ends DEF PathOf, At, Leaving
<1>1. CASE WaitTurn(b) BY <1>1, GoToMoves DEF WaitTurn, PCs
<1>2. CASE PassTurn(b) BY <1>2, GoToMoves, LeaveMoves DEF PassTurn, PCs, Results
<1>3. CASE AcquireSlot(b)
  BY <1>3, AcquireMoves, LeaveMoves DEF AcquireSlot, CursorInv, PCs, Results
<1>4. CASE ObserveCancel(b) BY <1>4, LeaveMoves DEF ObserveCancel, PCs, Results
<1>5. CASE RefuseBudget(b) BY <1>5, LeaveMoves DEF RefuseBudget, PCs, Results
<1>6. CASE StartNode(b) BY <1>6, GoToMoves DEF StartNode, PCs
<1>7. CASE NodeReturns(b) BY <1>7, GoToMoves DEF NodeReturns, PCs
<1>8. CASE NodeFails(b) BY <1>8, LeaveMoves DEF NodeFails, PCs, Results
<1>9. CASE EmitEvent(b) BY <1>9, GoToMoves DEF EmitEvent, PCs
<1>10. CASE ParkOnEvent(b) BY <1>10, GoToMoves DEF ParkOnEvent, PCs
<1>11. CASE AwaitEvent(b)
  BY <1>11, GoToMoves, LeaveMoves DEF AwaitEvent, PCs, Results
<1>12. CASE ReacquireSlot(b)
  BY <1>12, GoToMoves, LeaveMoves DEF ReacquireSlot, PCs, Results
<1>13. CASE ConsumeAnswer(b)
  <2>1. IsGate(b, branch[b].pos) /\ branch[b].pc = "run" /\ branch[b].pos \in Nat
    BY <1>13 DEF ConsumeAnswer, Cells
  <2>2. branch[b].pos < End(b) /\ Node(b, branch[b].pos) = "human"
    BY <2>1 DEF IsGate
  <2> QED BY <1>13, <2>1, <2>2, ConsumeMoves
<1>14. CASE Panic(b) BY <1>14, LeaveMoves DEF Panic, PCs, Results
<1>15. CASE Recover(b) BY <1>15, GoToMoves DEF Recover, PCs
<1>16. CASE Deliver(b) BY <1>16, GoToMoves DEF Deliver, PCs
<1>17. CASE CompleteBranch(b)
  BY <1>17, LeaveMoves DEF CompleteBranch, PCs, Results
<1>18. CASE Advance(b)
  <2>1. branch[b].pc = "advance" /\ ~branch[b].gate
    BY <1>18 DEF Advance
  <2> QED BY <1>18, <2>1, AdvanceMoves, LeaveMoves
          DEF RefuseOutput, Stepped, PCs, Results
<1>19. CASE AdvanceGate(b)
  <2>1. branch[b].pc = "advance"
    BY <1>19 DEF AdvanceGate
  <2> QED BY <1>19, <2>1, AdvanceGateMoves, LeaveMoves
          DEF RefuseOutput, Stepped, PCs, Results
<1>20. CASE ReachGate(b)
  <2>1. branch[b].pc = "run"
    BY <1>20 DEF ReachGate
  <2> QED BY <1>20, <2>1, ReachMoves
<1>21. CASE PauseRun(b) BY <1>21, LeaveMoves DEF PauseRun, PCs, Results
<1>22. CASE SaveBranch(b) BY <1>22, SaveMoves
<1>23. CASE CheckpointCut(b) BY <1>23, GoToMoves DEF CheckpointCut, PCs
<1>24. CASE PersistSpend(b) BY <1>24, GoToMoves DEF PersistSpend, PCs
<1>25. CASE AbandonResume(b) BY <1>25, GoToMoves DEF AbandonResume, PCs
<1> QED BY <1>1, <1>2, <1>3, <1>4, <1>5, <1>6, <1>7, <1>8, <1>9, <1>10,
           <1>11, <1>12, <1>13, <1>14, <1>15, <1>16, <1>17, <1>18, <1>19,
           <1>20, <1>21, <1>22, <1>23, <1>24, <1>25 DEF BranchStep

-----------------------------------------------------------------------------
(* The shared checkpoint.                                                  *)

\* The checkpoint in memory becomes cp by a step of branch b: b's cursor does
\* not go back, and the pending interaction changes only if it is b's or none.
Grows(b, cp) ==
    /\ cp \in Checkpoints
    /\ \A c \in Branches \ {b} : cp.cur[c] = mem.cur[c]
    /\ cp.cur[b] \in 1 .. End(b) /\ mem.cur[b] <= cp.cur[b]
    /\ cp.done \in {mem.done, mem.done \cup {b}}
    /\ \/ /\ cp.pending = mem.pending /\ cp.asked = mem.asked
          /\ (cp.answered <=> mem.answered) \/ (cp.pending = b /\ ~cp.answered)
       \/ mem.pending \in {None, b} /\ cp.pending \in {None, b} /\ ~cp.answered

\* What a step of branch b does to the checkpoint, the document and the lock.
Shares(b) ==
    \/ UNCHANGED <<doc, mem, lock, snap>>
    \/ /\ lock = None /\ ~retired /\ doc' = doc
       /\ Grows(b, mem') /\ CheckpointInv(mem')
       /\ \/ lock' = None /\ snap' = snap /\ branch'[b].pc = "run"
          \/ lock' = b /\ snap' = [snap EXCEPT ![b] = mem']
    \/ /\ lock = b /\ lock' = None
       /\ snap' = [snap EXCEPT ![b] = FreshInvocation]
       /\ \/ mem' = mem /\ doc' \in {doc, Stored(mem)}
          \/ /\ branch[b].pc = "pausing" /\ mem' = mem
             /\ doc' = [doc EXCEPT !.status = "paused", !.cp = mem,
                                   !.fired = fired, !.ptr = TRUE]
          \/ branch[b].pc = "pausing" /\ mem' = ClearPending(mem) /\ doc' = doc

\* A branch that writes its own position, past answered gates only, makes the
\* checkpoint grow.
LEMMA CursorGrows ==
    ASSUME mem \in Checkpoints, CursorInv, CheckpointInv(mem),
           NEW b \in Branches, NEW p \in 1 .. End(b),
           mem.cur[b] <= p,
           mem.pending = b => p = mem.cur[b],
           \A q \in Nat : IsGate(b, q) /\ q < p => <<b, q>> \in answers
    PROVE  /\ Grows(b, WithCursor(mem, b, p))
           /\ CheckpointInv(WithCursor(mem, b, p))
<1> DEFINE cp == WithCursor(mem, b, p)
<1>1. p \in Nat /\ End(b) \in Nat
  BY Ends
<1>2. /\ cp \in Checkpoints
      /\ cp.cur[b] = p
      /\ \A c \in Branches \ {b} : cp.cur[c] = mem.cur[c]
      /\ cp.done = mem.done /\ cp.pending = mem.pending /\ cp.asked = mem.asked
      /\ cp.answered <=> mem.answered /\ mem.pending # b
  BY <1>1, CursorWritten
<1> HIDE DEF cp
<1>3. Grows(b, cp)
  BY <1>1, <1>2 DEF Grows
<1>4. ASSUME cp.pending # None
      PROVE  /\ IsGate(cp.pending, cp.cur[cp.pending])
             /\ cp.pending \notin cp.done
             /\ cp.answered => Gate(cp) \in answers
  <2>1. cp.pending \in Branches /\ cp.cur[cp.pending] = mem.cur[cp.pending]
    BY <1>2, <1>4 DEF Checkpoints
  <2> QED BY <1>2, <1>4, <2>1 DEF CheckpointInv, Gate
<1>5. ASSUME NEW c \in Branches, NEW q \in Nat, IsGate(c, q), q < cp.cur[c]
      PROVE  <<c, q>> \in answers
  <2>1. CASE c = b
    BY <1>2, <1>5, <2>1
  <2>2. CASE c # b
    BY <1>2, <1>5, <2>2 DEF CheckpointInv
  <2> QED BY <2>1, <2>2
<1>6. CheckpointInv(cp)
  BY <1>4, <1>5 DEF CheckpointInv
<1> QED BY <1>3, <1>6 DEF cp

\* Giving the pending interaction up keeps a checkpoint sound.
LEMMA ClearingKeeps ==
    ASSUME NEW cp \in Checkpoints,
           \A b \in Branches, q \in Nat :
              IsGate(b, q) /\ q < cp.cur[b] => <<b, q>> \in answers
    PROVE  CheckpointInv(ClearPending(cp))
BY PendingCleared DEF CheckpointInv

\* What the invariant says of one branch.
LEMMA AtBranch ==
    ASSUME IndInv, NEW b \in Branches
    PROVE  /\ ControlInv /\ CursorInv
           /\ mem \in Checkpoints /\ CheckpointInv(mem)
           /\ branch[b] \in Cells /\ branch[b].pos \in Nat
           /\ PathOf(b, branch[b])
           /\ lock = b <=> branch[b].pc \in Writing
           /\ lock = b => snap[b] = mem
           /\ b # None /\ b # Saver
<1>1. ControlInv /\ CursorInv /\ mem \in Checkpoints /\ CheckpointInv(mem)
  BY DEF IndInv, TypeOK, ControlInv, Cells, MemoryInv
<1>2. branch[b] \in Cells /\ branch[b].pos \in Nat /\ PathOf(b, branch[b])
  BY <1>1 DEF ControlInv, PathInv, Cells
<1>3. b # None /\ b # Saver
  BY BranchesAssumption
<1>4. lock = b <=> branch[b].pc \in Writing
  BY DEF IndInv, LockInv
<1>5. lock = b => snap[b] = mem
  BY <1>3 DEF IndInv, LockInv
<1> QED BY <1>1, <1>2, <1>3, <1>4, <1>5

\* Where a branch stands, by the invariant.
LEMMA AtPlace ==
    ASSUME IndInv, NEW b \in Branches, branch[b].pc \in Placed
    PROVE  /\ mem.cur[b] <= branch[b].pos
           /\ mem.pending = b => /\ branch[b].pos = mem.cur[b]
                                 /\ IsGate(b, branch[b].pos)
           /\ \A p \in Nat :
                 IsGate(b, p) /\ p < branch[b].pos => <<b, p>> \in answers
<1>1. b # None /\ CheckpointInv(mem)
  BY AtBranch
<1> QED BY <1>1 DEF IndInv, PlaceInv, PlaceOf, CheckpointInv

\* A step of a branch reads and writes the shared checkpoint as Shares says.
LEMMA SharesStep ==
    ASSUME IndInv, NEW b \in Branches, BranchStep(b)
    PROVE  /\ Shares(b)
           /\ lock' = b <=> branch'[b].pc \in Writing
<1>0. /\ ControlInv /\ CursorInv
      /\ mem \in Checkpoints /\ CheckpointInv(mem)
      /\ branch[b] \in Cells /\ branch[b].pos \in Nat
      /\ PathOf(b, branch[b])
      /\ lock = b <=> branch[b].pc \in Writing
      /\ lock = b => snap[b] = mem
      /\ b # None /\ b # Saver
  BY AtBranch
<1>a. CASE \/ WaitTurn(b) \/ PassTurn(b) \/ AcquireSlot(b)
           \/ ObserveCancel(b) \/ RefuseBudget(b)
           \/ StartNode(b) \/ NodeReturns(b) \/ NodeFails(b)
           \/ EmitEvent(b) \/ ParkOnEvent(b) \/ AwaitEvent(b)
           \/ ReacquireSlot(b) \/ ConsumeAnswer(b)
           \/ Panic(b) \/ Recover(b) \/ Deliver(b)
  <2> SUFFICES /\ UNCHANGED <<doc, mem, lock, snap>>
               /\ branch[b].pc \notin Writing
               /\ branch'[b].pc \notin Writing
    BY <1>0 DEF Shares
  <2> USE <1>0 DEF At, Writing
  <2>1. CASE WaitTurn(b) BY <2>1, GoToMoves DEF WaitTurn, PCs
  <2>2. CASE PassTurn(b) BY <2>2, GoToMoves, LeaveMoves DEF PassTurn, PCs, Results
  <2>3. CASE AcquireSlot(b)
    BY <2>3, AcquireMoves, LeaveMoves DEF AcquireSlot, PCs, Results
  <2>4. CASE ObserveCancel(b) BY <2>4, LeaveMoves DEF ObserveCancel, PCs, Results
  <2>5. CASE RefuseBudget(b) BY <2>5, LeaveMoves DEF RefuseBudget, PCs, Results
  <2>6. CASE StartNode(b) BY <2>6, GoToMoves DEF StartNode, PCs
  <2>7. CASE NodeReturns(b) BY <2>7, GoToMoves DEF NodeReturns, PCs
  <2>8. CASE NodeFails(b) BY <2>8, LeaveMoves DEF NodeFails, PCs, Results
  <2>9. CASE EmitEvent(b) BY <2>9, GoToMoves DEF EmitEvent, PCs
  <2>10. CASE ParkOnEvent(b) BY <2>10, GoToMoves DEF ParkOnEvent, PCs
  <2>11. CASE AwaitEvent(b)
    BY <2>11, GoToMoves, LeaveMoves DEF AwaitEvent, PCs, Results
  <2>12. CASE ReacquireSlot(b)
    BY <2>12, GoToMoves, LeaveMoves DEF ReacquireSlot, PCs, Results
  <2>13. CASE ConsumeAnswer(b) BY <2>13, ConsumeMoves DEF ConsumeAnswer
  <2>14. CASE Panic(b) BY <2>14, LeaveMoves DEF Panic, PCs, Results
  <2>15. CASE Recover(b) BY <2>15, GoToMoves DEF Recover, PCs
  <2>16. CASE Deliver(b) BY <2>16, GoToMoves DEF Deliver, PCs
  <2> QED BY <1>a, <2>1, <2>2, <2>3, <2>4, <2>5, <2>6, <2>7, <2>8, <2>9, <2>10,
             <2>11, <2>12, <2>13, <2>14, <2>15, <2>16
<1>1. CASE CompleteBranch(b)
  <2>1. branch[b].pc = "run" /\ branch[b].pos = End(b) /\ branch[b].pc \in Placed
    BY <1>1 DEF CompleteBranch, At, Placed, Visiting
  <2>2. CASE retired
    <3>1. branch'[b].pc = "spend"
      BY <1>0, <1>1, <2>2, LeaveMoves DEF CompleteBranch, PCs, Results
    <3> QED BY <1>0, <1>1, <2>1, <2>2, <3>1 DEF CompleteBranch, Shares, Writing
  <2>3. CASE ~retired
    <3> DEFINE cp == WithCursor(mem, b, End(b))
               new == [cp EXCEPT !.done = cp.done \cup {b}]
    <3>1. /\ lock = None /\ lock' = b /\ doc' = doc
          /\ mem' = new /\ snap' = [snap EXCEPT ![b] = new]
          /\ LeaveWith(b, "saveDone", "ok")
      BY <1>1, <2>3 DEF CompleteBranch, TakeLock, Snapshot
    <3>2. branch'[b].pc = "saveDone"
      BY <1>0, <3>1, LeaveMoves DEF PCs, Results
    <3>3. mem.pending # b
      BY <2>1, AtPlace, Ends
    <3>4. Grows(b, cp) /\ CheckpointInv(cp)
      BY <1>0, <2>1, <3>3, CursorGrows, AtPlace, Ends
    <3>5. cp.pending = mem.pending
      BY <1>0, CursorWritten, Ends
    <3> HIDE DEF cp
    <3>6. cp \in Checkpoints
      BY <3>4 DEF Grows
    <3>7. /\ new \in Checkpoints /\ new.cur = cp.cur
          /\ new.done = cp.done \cup {b} /\ new.pending = cp.pending
          /\ new.asked = cp.asked /\ new.answered = cp.answered
      BY <3>6 DEF Checkpoints
    <3> HIDE DEF new
    <3>8. Grows(b, new)
      BY <3>4, <3>7 DEF Grows
    <3>9. CheckpointInv(new)
      BY <3>3, <3>4, <3>5, <3>7 DEF CheckpointInv, Gate
    <3> QED BY <2>3, <3>1, <3>2, <3>8, <3>9 DEF Shares, Writing
  <2> QED BY <2>2, <2>3
<1>2. CASE Advance(b)
  <2>1. branch[b].pc = "advance" /\ branch[b].pc \in Placed /\ ~branch[b].gate
    BY <1>2 DEF Advance, At, Placed, Visiting
  <2>2. branch[b].pc \notin Writing /\ lock # b
    BY <1>0, <2>1 DEF Writing
  <2> DEFINE cp == WithCursor(mem, b, branch[b].pos + 1)
  <2>3. doc' = doc
    BY <1>2 DEF Advance
  <2>4. CASE UNCHANGED <<mem, lock, snap>> /\ branch'[b].pc \notin Writing
    BY <1>0, <2>2, <2>3, <2>4 DEF Shares
  <2>5. CASE /\ Node(b, branch[b].pos) = "loop" /\ ~retired
             /\ lock = None /\ mem' = cp
             /\ \/ lock' = None /\ snap' = snap /\ branch'[b].pc = "run"
                \/ /\ lock' = b /\ snap' = [snap EXCEPT ![b] = cp]
                   /\ branch'[b].pc = "saveNext"
    <3>1. mem.pending # b
      BY <2>1, <2>5, AtPlace DEF IsGate
    <3>2. /\ branch[b].pos + 1 \in 1 .. End(b)
          /\ mem.cur[b] <= branch[b].pos + 1
      BY <1>0, <2>1, AtPlace, Ends DEF PathOf, CursorInv
    <3>3. ASSUME NEW q \in Nat, IsGate(b, q), q < branch[b].pos + 1
          PROVE  <<b, q>> \in answers
      BY <1>0, <2>1, <2>5, <3>3, AtPlace DEF IsGate
    <3>4. Grows(b, cp) /\ CheckpointInv(cp)
      BY <1>0, <3>1, <3>2, <3>3, CursorGrows
    <3> HIDE DEF cp
    <3> QED BY <1>0, <2>3, <2>5, <3>4 DEF Shares, Writing
  <2>6. \/ LeaveWith(b, "cut", "cancelled") /\ UNCHANGED <<mem, lock, snap>>
        \/ RefuseOutput(b) /\ UNCHANGED <<mem, lock, snap>>
        \/ Stepped(b, "run") /\ UNCHANGED <<mem, lock, snap>>
        \/ <2>5!1
    BY <1>0, <1>2, AdvanceMoves DEF Stepped, TakeLock, Snapshot
  <2>7. ASSUME LeaveWith(b, "cut", "cancelled") \/ RefuseOutput(b)
               \/ Stepped(b, "run")
        PROVE  branch'[b].pc \notin Writing
    BY <1>0, <2>7, LeaveMoves DEF RefuseOutput, Stepped, PCs, Results, Writing
  <2> QED BY <2>4, <2>5, <2>6, <2>7
<1>3. CASE AdvanceGate(b)
  <2>1. branch[b].pc = "advance" /\ branch[b].pc \in Placed /\ branch[b].gate
    BY <1>3 DEF AdvanceGate, At, Placed, Visiting
  <2>2. branch[b].pc \notin Writing /\ lock # b /\ doc' = doc
    BY <1>0, <1>3, <2>1 DEF Writing, AdvanceGate
  <2>3. CASE /\ LeaveWith(b, "cut", "cancelled") \/ RefuseOutput(b)
             /\ UNCHANGED <<mem, lock, snap, turn>>
    <3>1. branch'[b].pc \notin Writing
      BY <1>0, <2>3, LeaveMoves DEF RefuseOutput, PCs, Results, Writing
    <3> QED BY <1>0, <2>2, <2>3, <3>1 DEF Shares
  <2> DEFINE cp == WithCursor(mem, b, branch[b].pos + 1)
             new == ClearPending(cp)
  <2>4. CASE Stepped(b, "saveResumed") /\ ~retired
    <3>1. turn.of = b /\ mem.pending = b /\ <<b, branch[b].pos>> \in answers
      BY <2>1 DEF IndInv, AnswerInv, AnswerOf
    <3>2. branch'[b].pc = "saveResumed"
      BY <2>4 DEF Stepped
    <3>3. ~LeaveWith(b, "cut", "cancelled") /\ ~RefuseOutput(b)
      BY <1>0, <3>2, LeaveMoves DEF RefuseOutput, PCs, Results
    <3>4. /\ lock = None /\ lock' = b
          /\ mem' = new /\ snap' = [snap EXCEPT ![b] = new]
      BY <1>3, <3>1, <3>3 DEF AdvanceGate, TakeLock, Snapshot
    <3>5. /\ branch[b].pos + 1 \in 1 .. End(b) /\ branch[b].pos + 1 \in Nat
          /\ mem.cur[b] <= branch[b].pos + 1
      BY <1>0, <2>1, AtPlace, Ends DEF PathOf, CursorInv
    <3>6. /\ cp \in Checkpoints
          /\ cp.cur[b] = branch[b].pos + 1
          /\ \A c \in Branches \ {b} : cp.cur[c] = mem.cur[c]
          /\ cp.done = mem.done
      <4> DEFINE next == branch[b].pos + 1
      <4>1. next \in Nat /\ mem \in Checkpoints
        BY <1>0, <3>5
      <4> HIDE DEF next
      <4>2. /\ WithCursor(mem, b, next) \in Checkpoints
            /\ WithCursor(mem, b, next).cur[b] = next
            /\ \A c \in Branches \ {b} :
                  WithCursor(mem, b, next).cur[c] = mem.cur[c]
            /\ WithCursor(mem, b, next).done = mem.done
        BY <4>1, CursorWritten
      <4> QED BY <4>2, Zenon DEF next
    <3> HIDE DEF cp
    <3>7. Grows(b, new)
      BY <3>1, <3>5, <3>6, PendingCleared DEF Grows
    <3>8. ASSUME NEW c \in Branches, NEW q \in Nat, IsGate(c, q), q < cp.cur[c]
          PROVE  <<c, q>> \in answers
      <4>1. CASE c = b
        <5>1. q < branch[b].pos \/ q = branch[b].pos
          BY <1>0, <3>6, <3>8, <4>1
        <5> QED BY <2>1, <3>1, <3>8, <4>1, <5>1, AtPlace
      <4>2. CASE c # b
        BY <1>0, <3>6, <3>8, <4>2 DEF CheckpointInv
      <4> QED BY <4>1, <4>2
    <3>9. CheckpointInv(new)
      BY <3>6, <3>8, ClearingKeeps
    <3> HIDE DEF new
    <3> QED BY <1>0, <2>2, <2>4, <3>2, <3>4, <3>7, <3>9 DEF Shares, Writing
  <2> QED BY <1>0, <1>3, <2>3, <2>4, AdvanceGateMoves
<1>4. CASE ReachGate(b)
  <2>1. /\ branch[b].pc = "run" /\ branch[b].pc \in Placed
        /\ branch[b].pc \notin Writing /\ IsGate(b, branch[b].pos)
        /\ lock = None /\ doc' = doc
    BY <1>4 DEF ReachGate, At, Placed, Visiting, Writing
  <2> DEFINE cp == WithCursor(mem, b, branch[b].pos)
             new == [cp EXCEPT !.pending = b, !.asked = TRUE, !.answered = FALSE]
  <2>2. Grows(b, cp) /\ CheckpointInv(cp)
    BY <1>0, <2>1, CursorGrows, AtPlace DEF PathOf
  <2>3. cp.cur[b] = branch[b].pos /\ cp.done = mem.done
    BY <1>0, CursorWritten
  <2>4. CASE retired
    <3>1. branch'[b].pc = "spend"
      BY <1>0, <1>4, <2>4, ReachMoves
    <3> QED BY <1>0, <1>4, <2>1, <2>4, <3>1 DEF ReachGate, Shares, Writing
  <2>5. CASE ~retired /\ ~Elected(b)
    <3>1. branch'[b].pc = "savePark"
      BY <1>0, <1>4, <2>5, ReachMoves
    <3>2. lock' = b /\ mem' = cp /\ snap' = [snap EXCEPT ![b] = cp]
      BY <1>4, <2>5 DEF ReachGate, TakeLock, Snapshot
    <3> HIDE DEF cp
    <3> QED BY <2>1, <2>2, <2>5, <3>1, <3>2 DEF Shares, Writing
  <2>6. CASE ~retired /\ Elected(b)
    <3>1. branch'[b].pc = "pausing"
      BY <1>0, <1>4, <2>6, ReachMoves
    <3>2. lock' = b /\ mem' = new /\ snap' = [snap EXCEPT ![b] = new]
      BY <1>4, <2>6 DEF ReachGate, TakeLock, Snapshot
    <3>3. cp \in Checkpoints
      BY <2>2 DEF Grows
    <3> HIDE DEF cp
    <3>4. /\ new \in Checkpoints /\ new.cur = cp.cur /\ new.done = cp.done
          /\ new.pending = b /\ new.asked /\ ~new.answered
      BY <3>3 DEF Checkpoints
    <3> HIDE DEF new
    <3>5. b \notin mem.done
      BY <2>1 DEF IndInv, PlaceInv, PlaceOf, Visiting
    <3>6. Grows(b, new)
      BY <2>2, <2>6, <3>4 DEF Grows, Elected
    <3>7. CheckpointInv(new)
      BY <2>1, <2>2, <2>3, <3>4, <3>5 DEF CheckpointInv
    <3> QED BY <2>1, <2>6, <3>1, <3>2, <3>6, <3>7 DEF Shares, Writing
  <2> QED BY <2>4, <2>5, <2>6
<1>5. CASE PauseRun(b)
  <2>1. branch[b].pc = "pausing" /\ lock = b /\ snap[b] = mem
    BY <1>0, <1>5 DEF PauseRun, At, Writing
  <2>2. branch'[b].pc = "spend"
    BY <1>0, <1>5, LeaveMoves DEF PauseRun, PCs, Results
  <2> QED BY <1>0, <1>5, <2>1, <2>2 DEF PauseRun, Unlock, Shares, Writing
<1>6. CASE SaveBranch(b)
  <2>1. branch[b].pc \in Writing /\ branch'[b].pc \notin Writing
    BY <1>0, <1>6, SaveMoves DEF Writing
  <2>2. /\ mem' = mem /\ doc' \in {doc, Stored(snap[b])}
        /\ lock' = None /\ snap' = [snap EXCEPT ![b] = FreshInvocation]
    BY <1>6 DEF SaveBranch, Save, Unlock
  <2> QED BY <1>0, <2>1, <2>2 DEF Shares
<1>7. CASE CheckpointCut(b)
  <2>1. /\ branch[b].pc = "cut" /\ branch[b].pc \in Placed
        /\ branch[b].pc \notin Writing /\ lock = None /\ doc' = doc
    BY <1>7 DEF CheckpointCut, At, Placed, Writing
  <2> DEFINE cp == WithCursor(mem, b, branch[b].pos)
  <2>2. Grows(b, cp) /\ CheckpointInv(cp)
    BY <1>0, <2>1, CursorGrows, AtPlace DEF PathOf
  <2>3. CASE retired
    <3>1. branch'[b].pc = "spend"
      BY <1>0, <1>7, <2>3, GoToMoves DEF CheckpointCut, PCs
    <3> QED BY <1>0, <1>7, <2>1, <2>3, <3>1 DEF CheckpointCut, Shares, Writing
  <2>4. CASE ~retired
    <3>1. branch'[b].pc = "saveCut"
      BY <1>0, <1>7, <2>4, GoToMoves DEF CheckpointCut, PCs
    <3>2. lock' = b /\ mem' = cp /\ snap' = [snap EXCEPT ![b] = cp]
      BY <1>7, <2>4 DEF CheckpointCut, TakeLock, Snapshot
    <3> HIDE DEF cp
    <3> QED BY <2>1, <2>2, <2>4, <3>1, <3>2 DEF Shares, Writing
  <2> QED BY <2>3, <2>4
<1>8. CASE PersistSpend(b)
  <2>1. branch[b].pc = "spend" /\ branch[b].pc \notin Writing /\ doc' = doc
    BY <1>8 DEF PersistSpend, At, Writing
  <2>2. CASE GoTo(b, "drop") /\ UNCHANGED <<mem, lock, snap>>
    <3>1. branch'[b].pc = "drop"
      BY <1>0, <2>2, GoToMoves DEF PCs
    <3> QED BY <1>0, <2>1, <2>2, <3>1 DEF Shares, Writing
  <2>3. CASE ~retired /\ TakeLock(b) /\ Snapshot(b, mem) /\ GoTo(b, "saveSpend")
    <3>1. branch'[b].pc = "saveSpend"
      BY <1>0, <2>3, GoToMoves DEF PCs
    <3>2. Grows(b, mem)
      BY <1>0, Ends DEF Grows, CursorInv
    <3> QED BY <1>0, <2>1, <2>3, <3>1, <3>2
            DEF Shares, Writing, TakeLock, Snapshot
  <2> QED BY <1>8, <2>2, <2>3 DEF PersistSpend
<1>9. CASE AbandonResume(b)
  <2>1. /\ branch[b].pc = "drop" /\ branch[b].pc \in Placed
        /\ branch[b].pc \notin Writing /\ doc' = doc
    BY <1>9 DEF AbandonResume, At, Placed, Writing
  <2> DEFINE cp == WithCursor(mem, b, branch[b].pos)
             new == ClearPending(cp)
  <2>2. CASE GoTo(b, "leave") /\ UNCHANGED <<mem, lock, snap>>
    <3>1. branch'[b].pc = "leave"
      BY <1>0, <2>2, GoToMoves DEF PCs
    <3> QED BY <1>0, <2>1, <2>2, <3>1 DEF Shares, Writing
  <2>3. CASE /\ ~retired /\ mem.pending = b /\ TakeLock(b) /\ Snapshot(b, new)
             /\ GoTo(b, "saveDrop")
    <3>1. branch'[b].pc = "saveDrop"
      BY <1>0, <2>3, GoToMoves DEF PCs
    <3>2. Grows(b, cp) /\ CheckpointInv(cp)
      BY <1>0, <2>1, CursorGrows, AtPlace DEF PathOf
    <3>3. lock = None /\ lock' = b /\ mem' = new /\ snap' = [snap EXCEPT ![b] = new]
      BY <2>3 DEF TakeLock, Snapshot
    <3> HIDE DEF cp
    <3>4. Grows(b, new)
      BY <2>3, <3>2, PendingCleared DEF Grows
    <3>5. CheckpointInv(new)
      BY <3>2, ClearingKeeps DEF CheckpointInv, Grows
    <3> HIDE DEF new
    <3> QED BY <2>1, <2>3, <3>1, <3>3, <3>4, <3>5 DEF Shares, Writing
  <2> QED BY <1>9, <2>2, <2>3 DEF AbandonResume
<1> QED BY <1>a, <1>1, <1>2, <1>3, <1>4, <1>5, <1>6, <1>7, <1>8, <1>9
        DEF BranchStep
-----------------------------------------------------------------------------
(* What a step of a branch leaves alone.                                   *)

\* A branch never touches the trunk's state, and one whose result is sent has
\* returned.
LEMMA BranchFrame ==
    ASSUME NEW b \in Branches, BranchStep(b)
    PROVE  /\ UNCHANGED <<retired, answers, phase, collected, verdict,
                          parentDone, entered>>
           /\ branch[b].pc # "sent"
           /\ fired' \in {fired, TRUE}
<1> USE DEF trunkVars, At
<1>1. CASE WaitTurn(b) \/ PassTurn(b) \/ AcquireSlot(b) \/ ObserveCancel(b)
           \/ RefuseBudget(b)
  BY <1>1 DEF WaitTurn, PassTurn, AcquireSlot, ObserveCancel, RefuseBudget
<1>2. CASE StartNode(b) \/ NodeReturns(b) \/ NodeFails(b) \/ EmitEvent(b)
           \/ ParkOnEvent(b)
  BY <1>2 DEF StartNode, NodeReturns, NodeFails, EmitEvent, ParkOnEvent
<1>3. CASE AwaitEvent(b) \/ ReacquireSlot(b) \/ ConsumeAnswer(b) \/ Panic(b)
           \/ Recover(b) \/ Deliver(b)
  BY <1>3 DEF AwaitEvent, ReacquireSlot, ConsumeAnswer, Panic, Recover, Deliver
<1>4. CASE CompleteBranch(b) \/ Advance(b) \/ AdvanceGate(b)
  BY <1>4 DEF CompleteBranch, Advance, AdvanceGate
<1>5. CASE ReachGate(b) \/ PauseRun(b) \/ SaveBranch(b)
  BY <1>5 DEF ReachGate, PauseRun, SaveBranch, AfterSave
<1>6. CASE CheckpointCut(b) \/ PersistSpend(b) \/ AbandonResume(b)
  BY <1>6 DEF CheckpointCut, PersistSpend, AbandonResume
<1> QED BY <1>1, <1>2, <1>3, <1>4, <1>5, <1>6 DEF BranchStep

Turns == [of: Branches \cup {None}, armed: BOOLEAN, closed: BOOLEAN]

\* The resume barrier: only the branch whose turn it is ends the turn, and with
\* it the pending interaction.
LEMMA BarrierStep ==
    ASSUME turn \in Turns, mem \in Checkpoints, NEW b \in Branches,
           branch[b].pos \in Nat, BranchStep(b)
    PROVE  /\ turn' \in Turns
           /\ \/ turn'.of = turn.of
              \/ turn.of = b /\ mem'.pending = None
<1>1. CASE UNCHANGED turn
  BY <1>1
<1>2. CASE ReleaseWaiters(b)
  BY <1>2 DEF ReleaseWaiters, Turns
<1>3. CASE SaveBranch(b)
  BY <1>3 DEF SaveBranch, Turns
<1>4. CASE AdvanceGate(b) /\ turn' # turn
  <2> DEFINE next == branch[b].pos + 1
             cp == WithCursor(mem, b, next)
  <2>1. /\ turn.of = b /\ turn' = [turn EXCEPT !.of = None, !.armed = FALSE]
        /\ mem' = ClearPending(cp)
    BY <1>4 DEF AdvanceGate, Snapshot
  <2>2. next \in Nat
    OBVIOUS
  <2> HIDE DEF next
  <2>3. cp \in Checkpoints
    BY <2>2, CursorWritten
  <2> HIDE DEF cp
  <2>4. mem'.pending = None
    BY <2>1, <2>3, PendingCleared
  <2> QED BY <2>1, <2>4 DEF Turns
<1>5. \/ UNCHANGED turn \/ ReleaseWaiters(b) \/ SaveBranch(b) \/ AdvanceGate(b)
  <2>1. CASE WaitTurn(b) \/ PassTurn(b) \/ AcquireSlot(b) \/ ObserveCancel(b)
             \/ RefuseBudget(b) \/ StartNode(b) \/ NodeReturns(b)
             \/ NodeFails(b) \/ EmitEvent(b) \/ ParkOnEvent(b)
    BY <2>1 DEF WaitTurn, PassTurn, AcquireSlot, ObserveCancel, RefuseBudget,
                StartNode, NodeReturns, NodeFails, EmitEvent, ParkOnEvent
  <2>2. CASE AwaitEvent(b) \/ ReacquireSlot(b) \/ ConsumeAnswer(b) \/ Panic(b)
             \/ Recover(b) \/ Deliver(b) \/ CompleteBranch(b) \/ Advance(b)
    BY <2>2 DEF AwaitEvent, ReacquireSlot, ConsumeAnswer, Panic, Recover,
                Deliver, CompleteBranch, Advance
  <2>3. CASE ReachGate(b) \/ PauseRun(b) \/ CheckpointCut(b)
             \/ PersistSpend(b) \/ AbandonResume(b)
    BY <2>3 DEF ReachGate, PauseRun, CheckpointCut, PersistSpend, AbandonResume
  <2> QED BY <2>1, <2>2, <2>3 DEF BranchStep
<1> QED BY <1>1, <1>2, <1>3, <1>4, <1>5

\* The remaining variables a branch writes stay in their ranges.
LEMMA RangesStep ==
    ASSUME TypeOK, NEW b \in Branches, BranchStep(b)
    PROVE  /\ held' \subseteq Branches
           /\ dirty' \in {"clean", "kicked", "unwritten"}
           /\ ctxDone' \in BOOLEAN
<1>1. /\ held' \in {held, held \cup {b}, held \ {b}}
      /\ dirty' \in {dirty, "clean", "kicked"}
      /\ ctxDone' \in {ctxDone, ctxDone \/ CancelsSiblings(branch[b].res)}
  <2>1. CASE WaitTurn(b) \/ PassTurn(b) \/ AcquireSlot(b) \/ ObserveCancel(b)
             \/ RefuseBudget(b) \/ StartNode(b) \/ NodeReturns(b)
             \/ NodeFails(b) \/ EmitEvent(b) \/ ParkOnEvent(b)
    BY <2>1 DEF WaitTurn, PassTurn, AcquireSlot, ObserveCancel, RefuseBudget,
                StartNode, NodeReturns, NodeFails, EmitEvent, ParkOnEvent
  <2>2. CASE AwaitEvent(b) \/ ReacquireSlot(b) \/ ConsumeAnswer(b) \/ Panic(b)
             \/ Recover(b) \/ Deliver(b) \/ CompleteBranch(b) \/ Advance(b)
    BY <2>2 DEF AwaitEvent, ReacquireSlot, ConsumeAnswer, Panic, Recover,
                Deliver, CompleteBranch, Advance
  <2>3. CASE ReachGate(b) \/ PauseRun(b) \/ CheckpointCut(b)
             \/ PersistSpend(b) \/ AbandonResume(b)
    BY <2>3 DEF ReachGate, PauseRun, CheckpointCut, PersistSpend, AbandonResume
  <2>4. CASE AdvanceGate(b) \/ SaveBranch(b)
    BY <2>4 DEF AdvanceGate, SaveBranch, Save
  <2> QED BY <2>1, <2>2, <2>3, <2>4 DEF BranchStep
<1>2. CancelsSiblings(branch[b].res) \in BOOLEAN
  BY DEF CancelsSiblings
<1> QED BY <1>1, <1>2 DEF TypeOK
-----------------------------------------------------------------------------
(* Where a step of a branch leaves it.                                     *)

\* The steps of a branch that leave the shared checkpoint alone.
Private(b) ==
    \/ WaitTurn(b) \/ PassTurn(b) \/ AcquireSlot(b)
    \/ ObserveCancel(b) \/ RefuseBudget(b)
    \/ StartNode(b) \/ NodeReturns(b) \/ NodeFails(b)
    \/ EmitEvent(b) \/ ParkOnEvent(b) \/ AwaitEvent(b)
    \/ ReacquireSlot(b) \/ ConsumeAnswer(b)
    \/ Panic(b) \/ Recover(b) \/ Deliver(b)

\* Such a step leaves the branch on or ahead of its cursor.
LEMMA PrivatePlace ==
    ASSUME IndInv, NEW b \in Branches, Private(b)
    PROVE  mem' = mem /\ PlaceOf(b, branch'[b], mem)
<1>0. /\ ControlInv /\ CursorInv
      /\ mem \in Checkpoints /\ CheckpointInv(mem)
      /\ branch[b] \in Cells /\ branch[b].pos \in Nat
      /\ PlaceOf(b, branch[b], mem)
  BY AtBranch DEF IndInv, PlaceInv, PlaceOf
<1> USE <1>0 DEF At, PlaceOf, Placed, Visiting
<1>1. CASE WaitTurn(b) BY <1>1, GoToMoves DEF WaitTurn, PCs
<1>2. CASE PassTurn(b) BY <1>2, GoToMoves, LeaveMoves DEF PassTurn, PCs, Results
<1>3. CASE AcquireSlot(b)
  <2>1. mem' = mem
    BY <1>3 DEF AcquireSlot
  <2>2. CASE LeaveWith(b, "leave", "cancelled")
    BY <2>1, <2>2, LeaveMoves DEF PCs, Results
  <2>3. CASE /\ branch'[b].pos = mem.cur[b]
             /\ branch'[b].pc = IF b \in mem.done THEN "leave" ELSE "run"
             /\ branch'[b].res = IF b \in mem.done THEN "ok" ELSE "none"
    <3>1. mem.cur[b] \in Nat
      BY Ends DEF CursorInv
    <3> QED BY <2>1, <2>3, <3>1 DEF CheckpointInv
  <2> QED BY <1>3, <2>2, <2>3, AcquireMoves
<1>4. CASE ObserveCancel(b) BY <1>4, LeaveMoves DEF ObserveCancel, PCs, Results
<1>5. CASE RefuseBudget(b) BY <1>5, LeaveMoves DEF RefuseBudget, PCs, Results
<1>6. CASE StartNode(b) BY <1>6, GoToMoves DEF StartNode, PCs
<1>7. CASE NodeReturns(b) BY <1>7, GoToMoves DEF NodeReturns, PCs
<1>8. CASE NodeFails(b) BY <1>8, LeaveMoves DEF NodeFails, PCs, Results
<1>9. CASE EmitEvent(b) BY <1>9, GoToMoves DEF EmitEvent, PCs
<1>10. CASE ParkOnEvent(b) BY <1>10, GoToMoves DEF ParkOnEvent, PCs
<1>11. CASE AwaitEvent(b)
  BY <1>11, GoToMoves, LeaveMoves DEF AwaitEvent, PCs, Results
<1>12. CASE ReacquireSlot(b)
  BY <1>12, GoToMoves, LeaveMoves DEF ReacquireSlot, PCs, Results
<1>13. CASE ConsumeAnswer(b)
  <2>1. mem' = mem /\ branch[b].pc = "run"
    BY <1>13 DEF ConsumeAnswer
  <2> QED BY <1>13, <2>1, ConsumeMoves
<1>14. CASE Panic(b) BY <1>14, LeaveMoves DEF Panic, PCs, Results
<1>15. CASE Recover(b) BY <1>15, GoToMoves DEF Recover, PCs
<1>16. CASE Deliver(b) BY <1>16, GoToMoves DEF Deliver, PCs
<1> QED BY <1>1, <1>2, <1>3, <1>4, <1>5, <1>6, <1>7, <1>8, <1>9, <1>10,
           <1>11, <1>12, <1>13, <1>14, <1>15, <1>16 DEF Private

\* A step that writes the branch's own cursor p and leaves the branch on p.
LEMMA PlacedAt ==
    ASSUME NEW b \in Branches, NEW cp \in Checkpoints, NEW x \in Cells,
           cp.cur[b] = x.pos,
           \A p \in Nat : IsGate(b, p) /\ p < x.pos => <<b, p>> \in answers,
           x.pc \in Visiting => b \notin cp.done,
           x.res = "ok" => retired \/ b \in cp.done
    PROVE  PlaceOf(b, x, cp)
BY DEF PlaceOf, Cells

\* So does a step that writes the shared checkpoint.
LEMMA SharedPlace ==
    ASSUME IndInv, NEW b \in Branches, BranchStep(b), ~Private(b)
    PROVE  PlaceOf(b, branch'[b], mem')
<1>0. /\ ControlInv /\ CursorInv
      /\ mem \in Checkpoints /\ CheckpointInv(mem)
      /\ branch[b] \in Cells /\ branch[b].pos \in Nat
      /\ PathOf(b, branch[b])
      /\ PlaceOf(b, branch[b], mem)
  BY AtBranch DEF IndInv, PlaceInv, PlaceOf
<1>00. Alone(b) /\ branch'[b] \in Cells
  BY <1>0, ControlStep DEF Alone
<1>1. CASE CompleteBranch(b)
  <2>1. branch[b].pc = "run" /\ branch[b].pos = End(b) /\ branch[b].pc \in Placed
    BY <1>1 DEF CompleteBranch, At, Placed, Visiting
  <2>2. CASE retired
    <3>1. /\ branch'[b].pc = "spend" /\ branch'[b].pos = branch[b].pos
          /\ mem' = mem
      BY <1>0, <1>1, <2>2, LeaveMoves DEF CompleteBranch, PCs, Results
    <3> QED BY <1>0, <2>1, <2>2, <3>1 DEF PlaceOf, Visiting
  <2>3. CASE ~retired
    <3> DEFINE cp == WithCursor(mem, b, End(b))
               new == [cp EXCEPT !.done = cp.done \cup {b}]
    <3>1. mem' = new /\ LeaveWith(b, "saveDone", "ok")
      BY <1>1, <2>3 DEF CompleteBranch, TakeLock, Snapshot
    <3>2. branch'[b].pc = "saveDone" /\ branch'[b].pos = branch[b].pos
      BY <1>0, <3>1, LeaveMoves DEF PCs, Results
    <3>3. cp \in Checkpoints /\ cp.cur[b] = End(b)
      BY <1>0, CursorWritten, Ends
    <3> HIDE DEF cp
    <3>4. new \in Checkpoints /\ new.cur[b] = End(b) /\ b \in new.done
      BY <3>3 DEF Checkpoints
    <3> HIDE DEF new
    <3> QED BY <1>00, <2>1, <3>1, <3>2, <3>4, PlacedAt, AtPlace DEF Visiting
  <2> QED BY <2>2, <2>3
<1>2. CASE Advance(b)
  <2>1. branch[b].pc = "advance" /\ branch[b].pc \in Placed /\ ~branch[b].gate
    BY <1>2 DEF Advance, At, Placed, Visiting
  <2>2. /\ Node(b, branch[b].pos) # "human" /\ ~IsGate(b, branch[b].pos)
        /\ b \notin mem.done
    BY <1>0, <2>1 DEF PathOf, PlaceOf, Visiting, IsGate
  <2>3. mem.pending # b
    BY <2>1, <2>2, AtPlace
  <2>4. ASSUME NEW q \in Nat, IsGate(b, q), q < branch[b].pos + 1
        PROVE  <<b, q>> \in answers
    BY <1>0, <2>1, <2>2, <2>4, AtPlace
  <2>5. CASE (LeaveWith(b, "cut", "cancelled") \/ RefuseOutput(b)) /\ mem' = mem
    <3>1. /\ branch'[b].pc \in {"cut", "spend"}
          /\ branch'[b].pos = branch[b].pos /\ branch'[b].res # "ok"
      BY <1>0, <2>5, LeaveMoves DEF RefuseOutput, PCs, Results
    <3> QED BY <1>0, <2>1, <2>5, <3>1 DEF PlaceOf, Visiting
  <2>6. CASE Stepped(b, "run") /\ mem' = mem
    <3>1. /\ branch'[b].pc = "run" /\ branch'[b].pos = branch[b].pos + 1
          /\ branch'[b].res = branch[b].res
      BY <2>6 DEF Stepped
    <3>2. mem.cur[b] <= branch[b].pos + 1
      BY <1>0, <2>1, AtPlace, Ends DEF CursorInv
    <3> QED BY <1>0, <2>2, <2>3, <2>4, <2>6, <3>1, <3>2 DEF PlaceOf
  <2>7. CASE /\ Stepped(b, "run") \/ Stepped(b, "saveNext")
             /\ mem' = WithCursor(mem, b, branch[b].pos + 1)
    <3>1. /\ branch'[b].pos = branch[b].pos + 1
          /\ branch'[b].res = branch[b].res
      BY <2>7 DEF Stepped
    <3> DEFINE next == branch[b].pos + 1
    <3>2. next \in Nat /\ branch'[b].pos = next
      BY <1>0, <3>1
    <3>3. mem' = WithCursor(mem, b, next)
      BY <2>7
    <3>4. \A q \in Nat : IsGate(b, q) /\ q < next => <<b, q>> \in answers
      BY <2>4
    <3> HIDE DEF next
    <3>5. mem' \in Checkpoints /\ mem'.cur[b] = next /\ mem'.done = mem.done
      BY <1>0, <3>2, <3>3, CursorWritten
    <3>6. branch[b].res = "ok" => retired \/ b \in mem.done
      BY <1>0 DEF PlaceOf
    <3> QED BY <1>00, <2>2, <3>1, <3>2, <3>4, <3>5, <3>6, PlacedAt
  <2> QED BY <1>0, <1>2, <2>5, <2>6, <2>7, AdvanceMoves DEF Snapshot
<1>3. CASE AdvanceGate(b)
  <2>1. branch[b].pc = "advance" /\ branch[b].pc \in Placed /\ branch[b].gate
    BY <1>3 DEF AdvanceGate, At, Placed, Visiting
  <2>2. CASE (LeaveWith(b, "cut", "cancelled") \/ RefuseOutput(b)) /\ mem' = mem
    <3>1. /\ branch'[b].pc \in {"cut", "spend"}
          /\ branch'[b].pos = branch[b].pos /\ branch'[b].res # "ok"
      BY <1>0, <2>2, LeaveMoves DEF RefuseOutput, PCs, Results
    <3> QED BY <1>0, <2>1, <2>2, <3>1 DEF PlaceOf, Visiting
  <2>3. CASE Stepped(b, "saveResumed") /\ ~retired
    <3>1. turn.of = b /\ <<b, branch[b].pos>> \in answers /\ b \notin mem.done
      BY <1>0, <2>1 DEF IndInv, AnswerInv, AnswerOf, PlaceOf, Visiting
    <3>2. /\ branch'[b].pc = "saveResumed"
          /\ branch'[b].pos = branch[b].pos + 1
          /\ branch'[b].res = branch[b].res
      BY <2>3 DEF Stepped
    <3>3. ~LeaveWith(b, "cut", "cancelled") /\ ~RefuseOutput(b)
      BY <1>0, <3>2, LeaveMoves DEF RefuseOutput, PCs, Results
    <3> DEFINE next == branch[b].pos + 1
               cp == WithCursor(mem, b, next)
    <3>4. mem' = ClearPending(cp)
      BY <1>3, <3>1, <3>3 DEF AdvanceGate, TakeLock, Snapshot
    <3>5. next \in Nat /\ branch'[b].pos = next
      BY <1>0, <3>2
    <3>6. \A q \in Nat : IsGate(b, q) /\ q < next => <<b, q>> \in answers
      <4> SUFFICES ASSUME NEW q \in Nat, IsGate(b, q), q < next
                   PROVE  <<b, q>> \in answers
        OBVIOUS
      <4>1. q < branch[b].pos \/ q = branch[b].pos
        BY <1>0
      <4> QED BY <2>1, <3>1, <4>1, AtPlace
    <3> HIDE DEF next
    <3>7. cp \in Checkpoints /\ cp.cur[b] = next /\ cp.done = mem.done
      BY <1>0, <3>5, CursorWritten
    <3> HIDE DEF cp
    <3>8. mem' \in Checkpoints /\ mem'.cur[b] = next /\ mem'.done = mem.done
      BY <3>4, <3>7, PendingCleared
    <3>9. branch[b].res = "ok" => retired \/ b \in mem.done
      BY <1>0 DEF PlaceOf
    <3> QED BY <1>00, <3>1, <3>2, <3>5, <3>6, <3>8, <3>9, PlacedAt
  <2> QED BY <1>0, <1>3, <2>2, <2>3, AdvanceGateMoves
<1>4. CASE ReachGate(b)
  <2>1. branch[b].pc = "run" /\ branch[b].pc \in Placed
    BY <1>4 DEF ReachGate, At, Placed, Visiting
  <2>2. b \notin mem.done
    BY <1>0, <2>1 DEF PlaceOf, Visiting
  <2>3. branch[b].res = "ok" => retired \/ b \in mem.done
    BY <1>0 DEF PlaceOf
  <2> DEFINE cp == WithCursor(mem, b, branch[b].pos)
             new == [cp EXCEPT !.pending = b, !.asked = TRUE, !.answered = FALSE]
  <2>4. cp \in Checkpoints /\ cp.cur[b] = branch[b].pos /\ cp.done = mem.done
    BY <1>0, CursorWritten
  <2>5. mem' = IF retired THEN mem ELSE IF Elected(b) THEN new ELSE cp
    BY <1>4 DEF ReachGate, Snapshot
  <2> HIDE DEF cp
  <2>6. new \in Checkpoints /\ new.cur = cp.cur /\ new.done = cp.done
    BY <2>4 DEF Checkpoints
  <2> HIDE DEF new
  <2>7. /\ branch'[b].pos = branch[b].pos
        /\ branch'[b].res \in {branch[b].res, "deferred"}
        /\ retired => branch'[b].pc = "spend"
    BY <1>0, <1>4, ReachMoves
  <2>8. CASE retired
    BY <1>0, <2>1, <2>5, <2>7, <2>8 DEF PlaceOf, Visiting
  <2>9. CASE ~retired
    <3>1. mem' \in Checkpoints /\ mem'.cur[b] = branch[b].pos /\ mem'.done = mem.done
      BY <2>4, <2>5, <2>6, <2>9
    <3> QED BY <1>00, <2>1, <2>2, <2>3, <2>7, <3>1, PlacedAt, AtPlace
  <2> QED BY <2>8, <2>9
<1>5. CASE PauseRun(b)
  <2>1. branch[b].pc = "pausing" /\ branch[b].pc \in Placed
    BY <1>5 DEF PauseRun, At, Placed, Visiting
  <2>2. /\ branch'[b].pc = "spend" /\ branch'[b].pos = branch[b].pos
        /\ branch'[b].res # "ok"
    BY <1>0, <1>5, LeaveMoves DEF PauseRun, PCs, Results
  <2>3. mem' \in {mem, ClearPending(mem)}
    BY <1>5 DEF PauseRun
  <2>4. mem'.cur = mem.cur /\ mem'.pending \in {mem.pending, None}
    BY <1>0, <2>3, PendingCleared
  <2> QED BY <1>0, <2>1, <2>2, <2>4, AtBranch DEF PlaceOf, Visiting
<1>6. CASE SaveBranch(b)
  <2>1. mem' = mem
    BY <1>6 DEF SaveBranch
  <2>2. /\ branch'[b].pos = branch[b].pos /\ branch'[b].res = branch[b].res
        /\ branch'[b].pc \in Placed => branch[b].pc \in Placed
        /\ branch'[b].pc \in Visiting => branch[b].pc \in Visiting
    BY <1>0, <1>6, SaveMoves DEF Placed, Visiting
  <2> QED BY <1>0, <2>1, <2>2 DEF PlaceOf
<1>7. CASE CheckpointCut(b)
  <2>1. branch[b].pc = "cut" /\ branch[b].pc \in Placed
    BY <1>7 DEF CheckpointCut, At, Placed
  <2>2. /\ branch'[b].pc \in {"spend", "saveCut"}
        /\ branch'[b].pos = branch[b].pos /\ branch'[b].res = branch[b].res
    BY <1>0, <1>7, GoToMoves DEF CheckpointCut, PCs
  <2>3. CASE mem' = mem
    BY <1>0, <2>1, <2>2, <2>3 DEF PlaceOf, Visiting
  <2> DEFINE cp == WithCursor(mem, b, branch[b].pos)
  <2>4. CASE mem' = cp
    <3>1. cp \in Checkpoints /\ cp.cur[b] = branch[b].pos /\ cp.done = mem.done
      BY <1>0, CursorWritten
    <3> HIDE DEF cp
    <3>2. branch[b].res = "ok" => retired \/ b \in mem.done
      BY <1>0 DEF PlaceOf
    <3> QED BY <1>00, <2>1, <2>2, <2>4, <3>1, <3>2, PlacedAt, AtPlace DEF Visiting
  <2> QED BY <1>7, <2>3, <2>4 DEF CheckpointCut, Snapshot
<1>8. CASE PersistSpend(b)
  <2>1. branch[b].pc = "spend" /\ branch[b].pc \in Placed /\ mem' = mem
    BY <1>8 DEF PersistSpend, At, Placed, Snapshot
  <2>2. /\ branch'[b].pc \in {"drop", "saveSpend"}
        /\ branch'[b].pos = branch[b].pos /\ branch'[b].res = branch[b].res
    BY <1>0, <1>8, GoToMoves DEF PersistSpend, PCs
  <2> QED BY <1>0, <2>1, <2>2 DEF PlaceOf, Visiting
<1>9. CASE AbandonResume(b)
  <2>1. branch[b].pc = "drop" /\ branch[b].pc \in Placed
    BY <1>9 DEF AbandonResume, At, Placed
  <2>2. /\ branch'[b].pc \in {"leave", "saveDrop"}
        /\ branch'[b].pos = branch[b].pos /\ branch'[b].res = branch[b].res
    BY <1>0, <1>9, GoToMoves DEF AbandonResume, PCs
  <2>3. CASE mem' = mem
    BY <1>0, <2>1, <2>2, <2>3 DEF PlaceOf, Visiting
  <2> DEFINE cp == WithCursor(mem, b, branch[b].pos)
  <2>4. CASE mem' = ClearPending(cp)
    <3>1. cp \in Checkpoints /\ cp.cur[b] = branch[b].pos /\ cp.done = mem.done
      BY <1>0, CursorWritten
    <3> HIDE DEF cp
    <3>2. mem' \in Checkpoints /\ mem'.cur[b] = branch[b].pos /\ mem'.done = mem.done
      BY <2>4, <3>1, PendingCleared
    <3>3. branch[b].res = "ok" => retired \/ b \in mem.done
      BY <1>0 DEF PlaceOf
    <3> QED BY <1>00, <2>1, <2>2, <3>2, <3>3, PlacedAt, AtPlace DEF Visiting
  <2> QED BY <1>9, <2>3, <2>4 DEF AbandonResume, Snapshot
<1> QED BY <1>1, <1>2, <1>3, <1>4, <1>5, <1>6, <1>7, <1>8, <1>9
        DEF BranchStep, Private

\* A step of a branch leaves it on or ahead of its cursor.
LEMMA PlaceStep ==
    ASSUME IndInv, NEW b \in Branches, BranchStep(b)
    PROVE  PlaceOf(b, branch'[b], mem')
BY PrivatePlace, SharedPlace

\* A step of a branch keeps its claim on the answer: it loads the recorded one
\* on its turn, consumes it at its gate, and asks only when elected.
LEMMA PrivateAnswer ==
    ASSUME IndInv, NEW b \in Branches, Private(b)
    PROVE  AnswerOf(b, branch'[b], mem, turn.of)
<1>0. /\ ControlInv /\ CursorInv
      /\ mem \in Checkpoints /\ CheckpointInv(mem)
      /\ branch[b] \in Cells /\ branch[b].pos \in Nat
      /\ PathOf(b, branch[b])
      /\ AnswerOf(b, branch[b], mem, turn.of)
      /\ b # None
  BY AtBranch DEF IndInv, AnswerInv
<1>1. branch[b].pc = "run" /\ branch[b].ans => IsGate(b, branch[b].pos)
  BY <1>0, AtPlace DEF AnswerOf, Placed, Visiting
<1>2. branch[b].pc \in {"start", "turn", "slot"} => ~branch[b].ans
  BY <1>0 DEF AnswerOf, Leaving
<1> USE <1>0 DEF At, AnswerOf, Leaving
<1>3. CASE WaitTurn(b) BY <1>2, <1>3, GoToMoves DEF WaitTurn, PCs
<1>4. CASE PassTurn(b)
  BY <1>2, <1>4, GoToMoves, LeaveMoves DEF PassTurn, PCs, Results
<1>5. CASE AcquireSlot(b)
  <2>1. CASE LeaveWith(b, "leave", "cancelled")
    BY <2>1, LeaveMoves DEF PCs, Results
  <2>2. CASE /\ branch'[b].pos = mem.cur[b]
             /\ branch'[b].pc = IF b \in mem.done THEN "leave" ELSE "run"
             /\ branch'[b].ans = (mem.pending = b /\ mem.answered)
    <3>1. mem.pending = b /\ mem.answered =>
             turn.of = b /\ <<b, mem.cur[b]>> \in answers
      BY DEF IndInv, AnswerInv, CheckpointInv, Gate
    <3> QED BY <2>2, <3>1
  <2> QED BY <1>5, <2>1, <2>2, AcquireMoves
<1>6. CASE ObserveCancel(b) BY <1>6, LeaveMoves DEF ObserveCancel, PCs, Results
<1>7. CASE RefuseBudget(b) BY <1>7, LeaveMoves DEF RefuseBudget, PCs, Results
<1>8. CASE StartNode(b)
  <2>1. ~branch[b].ans /\ ~branch[b].gate
    BY <1>1, <1>8 DEF StartNode, IsGate, PathOf
  <2> QED BY <1>8, <2>1, GoToMoves DEF StartNode, PCs
<1>9. CASE NodeReturns(b)
  <2>1. ~branch[b].ans /\ ~branch[b].gate
    BY <1>9 DEF NodeReturns, PathOf
  <2> QED BY <1>9, <2>1, GoToMoves DEF NodeReturns, PCs
<1>10. CASE NodeFails(b) BY <1>10, LeaveMoves DEF NodeFails, PCs, Results
<1>11. CASE EmitEvent(b)
  <2>1. ~branch[b].ans /\ ~branch[b].gate
    BY <1>1, <1>11 DEF EmitEvent, IsGate, PathOf
  <2> QED BY <1>11, <2>1, GoToMoves DEF EmitEvent, PCs
<1>12. CASE ParkOnEvent(b)
  <2>1. ~branch[b].ans
    BY <1>1, <1>12 DEF ParkOnEvent, IsGate
  <2> QED BY <1>12, <2>1, GoToMoves DEF ParkOnEvent, PCs
<1>13. CASE AwaitEvent(b)
  BY <1>13, GoToMoves, LeaveMoves DEF AwaitEvent, PCs, Results
<1>14. CASE ReacquireSlot(b)
  <2>1. ~branch[b].ans /\ ~branch[b].gate
    BY <1>14 DEF ReacquireSlot, PathOf
  <2> QED BY <1>14, <2>1, GoToMoves, LeaveMoves DEF ReacquireSlot, PCs, Results
<1>15. CASE ConsumeAnswer(b)
  <2>1. branch[b].pc = "run" /\ branch[b].ans
    BY <1>15 DEF ConsumeAnswer
  <2> QED BY <1>15, <2>1, ConsumeMoves
<1>16. CASE Panic(b) BY <1>16, LeaveMoves DEF Panic, PCs, Results
<1>17. CASE Recover(b) BY <1>17, GoToMoves DEF Recover, PCs
<1>18. CASE Deliver(b) BY <1>18, GoToMoves DEF Deliver, PCs
<1> QED BY <1>3, <1>4, <1>5, <1>6, <1>7, <1>8, <1>9, <1>10,
           <1>11, <1>12, <1>13, <1>14, <1>15, <1>16, <1>17, <1>18 DEF Private

\* A step that writes the shared checkpoint ends the claim on the answer, or
\* makes the branch the one that asks.
LEMMA SharedAnswer ==
    ASSUME IndInv, NEW b \in Branches, BranchStep(b), ~Private(b),
           NEW of
    PROVE  AnswerOf(b, branch'[b], mem', of)
<1>0. /\ ControlInv /\ CursorInv
      /\ mem \in Checkpoints
      /\ branch[b] \in Cells /\ branch[b].pos \in Nat
      /\ PathOf(b, branch[b])
      /\ AnswerOf(b, branch[b], mem, turn.of)
  BY AtBranch DEF IndInv, AnswerInv
<1>1. CASE /\ branch'[b].pc \in {"cut", "saveCut"} \cup Leaving
  BY <1>1 DEF AnswerOf, Leaving
<1>2. CASE /\ branch'[b].pc \in {"run", "saveNext", "saveResumed", "saveDone",
                                 "savePark"}
           /\ ~branch'[b].ans
  BY <1>2 DEF AnswerOf, Leaving
<1>3. CASE CompleteBranch(b)
  <2>1. ~IsGate(b, branch[b].pos) /\ branch[b].pc = "run"
    BY <1>0, <1>3, Ends DEF CompleteBranch, IsGate, At
  <2>2. ~branch[b].ans
    BY <1>0, <2>1, AtPlace DEF AnswerOf, Placed, Visiting
  <2>3. /\ branch'[b].pc \in {"spend", "saveDone"}
        /\ branch'[b].ans = branch[b].ans
    BY <1>0, <1>3, LeaveMoves DEF CompleteBranch, PCs, Results
  <2> QED BY <1>1, <1>2, <2>2, <2>3 DEF Leaving
<1>4. CASE Advance(b)
  <2>1. branch[b].pc = "advance" /\ ~branch[b].ans
    BY <1>0, <1>4 DEF Advance, At, AnswerOf, Leaving
  <2>2. CASE LeaveWith(b, "cut", "cancelled") \/ RefuseOutput(b)
    <3>1. branch'[b].pc \in {"cut", "spend"}
      BY <1>0, <2>2, LeaveMoves DEF RefuseOutput, PCs, Results
    <3> QED BY <1>1, <3>1 DEF Leaving
  <2>3. CASE Stepped(b, "run") \/ Stepped(b, "saveNext")
    BY <1>2, <2>1, <2>3 DEF Stepped
  <2> QED BY <1>0, <1>4, <2>2, <2>3, AdvanceMoves
<1>5. CASE AdvanceGate(b)
  <2>1. branch[b].pc = "advance" /\ ~branch[b].ans
    BY <1>0, <1>5 DEF AdvanceGate, At, AnswerOf, Leaving
  <2>2. CASE LeaveWith(b, "cut", "cancelled") \/ RefuseOutput(b)
    <3>1. branch'[b].pc \in {"cut", "spend"}
      BY <1>0, <2>2, LeaveMoves DEF RefuseOutput, PCs, Results
    <3> QED BY <1>1, <3>1 DEF Leaving
  <2>3. CASE Stepped(b, "saveResumed")
    BY <1>2, <2>1, <2>3 DEF Stepped
  <2> QED BY <1>0, <1>5, <2>2, <2>3, AdvanceGateMoves
<1>6. CASE ReachGate(b)
  <2>1. ~branch'[b].ans
    BY <1>0, <1>6, ReachMoves
  <2>2. CASE branch'[b].pc # "pausing"
    BY <1>0, <1>2, <1>6, <2>1, <2>2, ReachMoves DEF AnswerOf
  <2>3. CASE branch'[b].pc = "pausing"
    <3>1. ~retired /\ Elected(b)
      BY <1>0, <1>6, <2>3, ReachMoves
    <3> DEFINE cp == WithCursor(mem, b, branch[b].pos)
               new == [cp EXCEPT !.pending = b, !.asked = TRUE, !.answered = FALSE]
    <3>2. mem' = new
      BY <1>6, <3>1 DEF ReachGate, Snapshot
    <3>3. cp \in Checkpoints
      BY <1>0, CursorWritten
    <3> HIDE DEF cp
    <3>4. new.pending = b /\ new.asked /\ ~new.answered
      BY <3>3 DEF Checkpoints
    <3> QED BY <2>1, <2>3, <3>2, <3>4 DEF AnswerOf
  <2> QED BY <2>2, <2>3
<1>7. CASE PauseRun(b)
  BY <1>0, <1>1, <1>7, LeaveMoves DEF PauseRun, PCs, Results, Leaving
<1>8. CASE SaveBranch(b)
  <2>1. branch'[b].ans = branch[b].ans
    BY <1>0, <1>8, SaveMoves
  <2>2. branch'[b].pc = "run" => ~branch[b].ans
    BY <1>0, <1>8, SaveMoves DEF AnswerOf, Leaving
  <2>3. branch'[b].pc \in {"run"} \cup Leaving
    BY <1>0, <1>8, SaveMoves DEF Leaving
  <2> QED BY <1>1, <1>2, <2>1, <2>2, <2>3
<1>9. CASE CheckpointCut(b)
  BY <1>0, <1>1, <1>9, GoToMoves DEF CheckpointCut, PCs, Leaving
<1>10. CASE PersistSpend(b)
  BY <1>0, <1>1, <1>10, GoToMoves DEF PersistSpend, PCs, Leaving
<1>11. CASE AbandonResume(b)
  BY <1>0, <1>1, <1>11, GoToMoves DEF AbandonResume, PCs, Leaving
<1> QED BY <1>3, <1>4, <1>5, <1>6, <1>7, <1>8, <1>9, <1>10, <1>11
        DEF BranchStep, Private

\* A branch that has paused only unwinds: the checkpoint stays as it asked.
LEMMA PausedUnwinds ==
    ASSUME IndInv, NEW b \in Branches, BranchStep(b),
           branch[b].res = "paused"
    PROVE  /\ mem' = mem /\ branch'[b].res = "paused"
<1>0. /\ ControlInv
      /\ branch[b].pc \in Leaving /\ ~branch[b].gate
  BY AtBranch DEF PathOf
<1> USE <1>0 DEF At, Leaving
<1>1. ~AcquireSlot(b) /\ ~WaitTurn(b) /\ ~PassTurn(b)
      /\ ~ObserveCancel(b) /\ ~RefuseBudget(b) /\ ~StartNode(b)
      /\ ~NodeReturns(b) /\ ~NodeFails(b) /\ ~EmitEvent(b)
  BY DEF AcquireSlot, WaitTurn, PassTurn, ObserveCancel, RefuseBudget, StartNode,
         NodeReturns, NodeFails, EmitEvent
<1>2. ~ParkOnEvent(b) /\ ~AwaitEvent(b) /\ ~ReacquireSlot(b) /\ ~Advance(b)
      /\ ~ConsumeAnswer(b) /\ ~AdvanceGate(b) /\ ~ReachGate(b) /\ ~PauseRun(b)
      /\ ~CheckpointCut(b) /\ ~Panic(b) /\ ~CompleteBranch(b)
  BY DEF ParkOnEvent, AwaitEvent, ReacquireSlot, Advance, ConsumeAnswer,
         AdvanceGate, ReachGate, PauseRun, CheckpointCut, Panic, CompleteBranch
<1>3. CASE SaveBranch(b)
  BY <1>3, SaveMoves DEF SaveBranch
<1>4. CASE PersistSpend(b)
  BY <1>4, GoToMoves DEF PersistSpend, Snapshot, PCs
<1>5. CASE AbandonResume(b)
  BY <1>5, GoToMoves DEF AbandonResume, PCs
<1>6. CASE Recover(b) \/ Deliver(b)
  BY <1>6, GoToMoves DEF Recover, Deliver, PCs
<1> QED BY <1>1, <1>2, <1>3, <1>4, <1>5, <1>6 DEF BranchStep

\* A branch goes on from its own cursor or node by node; it is behind an emit
\* node only once the event is fired.
LEMMA PositionStep ==
    ASSUME IndInv, NEW b \in Branches, BranchStep(b)
    PROVE  /\ branch'[b].pc \in Placed =>
                 \/ branch[b].pc \in Placed /\ branch'[b].pos = branch[b].pos
                 \/ branch[b].pc = "advance" /\ branch'[b].pos = branch[b].pos + 1
                 \/ branch'[b].pos = mem.cur[b]
           /\ branch'[b].pc = "advance" /\ Node(b, branch'[b].pos) = "emit"
                 => fired'
<1>0. ControlInv /\ CursorInv /\ PathOf(b, branch[b])
  BY AtBranch
<1>00. fired' \in {fired, TRUE}
  BY BranchFrame
<1> USE <1>0 DEF At, Placed, Visiting
<1>1. CASE WaitTurn(b) BY <1>1, GoToMoves DEF WaitTurn, PCs
<1>2. CASE PassTurn(b) BY <1>2, GoToMoves, LeaveMoves DEF PassTurn, PCs, Results
<1>3. CASE AcquireSlot(b)
  BY <1>3, AcquireMoves, LeaveMoves DEF PCs, Results
<1>4. CASE ObserveCancel(b) BY <1>4, LeaveMoves DEF ObserveCancel, PCs, Results
<1>5. CASE RefuseBudget(b) BY <1>5, LeaveMoves DEF RefuseBudget, PCs, Results
<1>6. CASE StartNode(b) BY <1>6, GoToMoves DEF StartNode, PCs
<1>7. CASE NodeReturns(b) BY <1>7, GoToMoves DEF NodeReturns, PCs, PathOf
<1>8. CASE NodeFails(b) BY <1>8, LeaveMoves DEF NodeFails, PCs, Results
<1>9. CASE EmitEvent(b) BY <1>9, GoToMoves DEF EmitEvent, PCs
<1>10. CASE ParkOnEvent(b) BY <1>10, GoToMoves DEF ParkOnEvent, PCs
<1>11. CASE AwaitEvent(b)
  BY <1>11, GoToMoves, LeaveMoves DEF AwaitEvent, PCs, Results
<1>12. CASE ReacquireSlot(b)
  BY <1>12, GoToMoves, LeaveMoves DEF ReacquireSlot, PCs, Results, PathOf
<1>13. CASE ConsumeAnswer(b)
  <2>1. branch[b].pc = "run" /\ Node(b, branch[b].pos) = "human"
    BY <1>13 DEF ConsumeAnswer, IsGate
  <2> QED BY <1>13, <2>1, ConsumeMoves
<1>14. CASE Panic(b) BY <1>14, LeaveMoves DEF Panic, PCs, Results
<1>15. CASE Recover(b) BY <1>15, GoToMoves DEF Recover, PCs
<1>16. CASE Deliver(b) BY <1>16, GoToMoves DEF Deliver, PCs
<1>17. CASE CompleteBranch(b)
  BY <1>17, LeaveMoves DEF CompleteBranch, PCs, Results
<1>18. CASE Advance(b)
  <2>1. branch[b].pc = "advance"
    BY <1>18 DEF Advance
  <2> QED BY <1>18, <2>1, AdvanceMoves, LeaveMoves
          DEF RefuseOutput, Stepped, PCs, Results
<1>19. CASE AdvanceGate(b)
  <2>1. branch[b].pc = "advance"
    BY <1>19 DEF AdvanceGate
  <2> QED BY <1>19, <2>1, AdvanceGateMoves, LeaveMoves
          DEF RefuseOutput, Stepped, PCs, Results
<1>20. CASE ReachGate(b)
  <2>1. branch[b].pc = "run"
    BY <1>20 DEF ReachGate
  <2> QED BY <1>20, <2>1, ReachMoves
<1>21. CASE PauseRun(b) BY <1>21, LeaveMoves DEF PauseRun, PCs, Results
<1>22. CASE SaveBranch(b) BY <1>22, SaveMoves
<1>23. CASE CheckpointCut(b) BY <1>23, GoToMoves DEF CheckpointCut, PCs
<1>24. CASE PersistSpend(b) BY <1>24, GoToMoves DEF PersistSpend, PCs
<1>25. CASE AbandonResume(b) BY <1>25, GoToMoves DEF AbandonResume, PCs
<1> QED BY <1>1, <1>2, <1>3, <1>4, <1>5, <1>6, <1>7, <1>8, <1>9, <1>10,
           <1>11, <1>12, <1>13, <1>14, <1>15, <1>16, <1>17, <1>18, <1>19,
           <1>20, <1>21, <1>22, <1>23, <1>24, <1>25 DEF BranchStep

-----------------------------------------------------------------------------
(* A step of a branch keeps the invariant.                                 *)

Docs == [status: Statuses, cp: Checkpoints, fired: BOOLEAN, ptr: BOOLEAN]

\* What a landed write makes of the document.
LEMMA StoredFields ==
    ASSUME doc \in Docs, fired \in BOOLEAN, NEW cp \in Checkpoints
    PROVE  /\ Stored(cp) \in Docs
           /\ Stored(cp).status = doc.status
           /\ Stored(cp).cp = cp
           /\ Stored(cp).fired = fired
           /\ Stored(cp).ptr <=> cp.asked /\ doc.status = "paused"
<1> DEFINE ptr == cp.asked /\ doc.status = "paused"
<1>1. ptr \in BOOLEAN
  OBVIOUS
<1>2. Stored(cp) = [doc EXCEPT !.cp = cp, !.fired = fired, !.ptr = ptr]
  BY DEF Stored
<1>3. Stored(cp).ptr = ptr
  BY <1>2 DEF Docs
<1> HIDE DEF ptr
<1>4. /\ Stored(cp) \in Docs /\ Stored(cp).status = doc.status
      /\ Stored(cp).cp = cp /\ Stored(cp).fired = fired
  BY <1>1, <1>2 DEF Docs
<1> QED BY <1>3, <1>4 DEF ptr

\* What the pause's write makes of the document.
LEMMA PausedFields ==
    ASSUME doc \in Docs, fired \in BOOLEAN, NEW cp \in Checkpoints, NEW d,
           d = [doc EXCEPT !.status = "paused", !.cp = cp, !.fired = fired,
                           !.ptr = TRUE]
    PROVE  /\ d \in Docs
           /\ d.status = "paused" /\ d.cp = cp /\ d.fired = fired /\ d.ptr
BY DEF Docs, Statuses

\* The document stays, or takes the memory as it is now and the events.
Written(b) ==
    /\ lock = b /\ mem' = mem
    /\ doc'.cp = mem /\ doc'.fired = fired
    /\ \/ /\ doc'.status = doc.status
          /\ doc'.ptr <=> mem.asked /\ doc.status = "paused"
       \/ /\ doc'.status = "paused" /\ doc'.ptr
          /\ branch[b].pc = "pausing" /\ branch'[b].res = "paused"

\* The effect of a branch's step on the shared state, field by field.
LEMMA Effects ==
    ASSUME IndInv, NEW b \in Branches, BranchStep(b)
    PROVE  /\ mem' \in Checkpoints /\ CheckpointInv(mem')
           /\ Grows(b, mem')
           /\ mem' # mem => branch'[b].pc \in Placed
           /\ doc' \in Docs
           /\ doc' = doc \/ Written(b)
           /\ \/ UNCHANGED <<doc, mem, lock, snap>>
              \/ lock = None /\ ~retired /\ lock' \in {None, b}
              \/ lock = b /\ lock' = None
           /\ snap' \in [Branches \cup {Saver} -> Checkpoints]
           /\ \A w \in Branches \cup {Saver} :
                 snap'[w] \in {snap[w], mem', FreshInvocation}
           /\ lock' # None => snap'[lock'] = mem'
<1>0. /\ mem \in Checkpoints /\ CheckpointInv(mem) /\ CursorInv
      /\ doc \in Docs /\ fired \in BOOLEAN
      /\ snap \in [Branches \cup {Saver} -> Checkpoints]
      /\ lock # None => snap[lock] = mem
      /\ b # None /\ ControlInv
  BY AtBranch DEF IndInv, TypeOK, LockInv, Docs
<1>1. /\ Shares(b)
      /\ lock' = b <=> branch'[b].pc \in Writing
  BY SharesStep
<1>2. Grows(b, mem)
  BY <1>0, Ends DEF Grows, CursorInv
<1>3. CASE UNCHANGED <<doc, mem, lock, snap>>
  BY <1>0, <1>2, <1>3
<1>4. CASE /\ lock = None /\ ~retired /\ doc' = doc
           /\ Grows(b, mem') /\ CheckpointInv(mem')
           /\ \/ lock' = None /\ snap' = snap /\ branch'[b].pc = "run"
              \/ lock' = b /\ snap' = [snap EXCEPT ![b] = mem']
  <2>1. branch'[b].pc \in Placed
    BY <1>0, <1>1, <1>4 DEF Writing, Placed, Visiting
  <2>2. mem' \in Checkpoints
    BY <1>4 DEF Grows
  <2>3. /\ snap' \in [Branches \cup {Saver} -> Checkpoints]
        /\ \A w \in Branches \cup {Saver} : snap'[w] \in {snap[w], mem'}
        /\ lock' # None => snap'[lock'] = mem'
    BY <1>0, <1>4, <2>2
  <2> QED BY <1>0, <1>4, <2>1, <2>2, <2>3
<1>5. CASE /\ lock = b /\ lock' = None
           /\ snap' = [snap EXCEPT ![b] = FreshInvocation]
           /\ \/ mem' = mem /\ doc' \in {doc, Stored(mem)}
              \/ /\ branch[b].pc = "pausing" /\ mem' = mem
                 /\ doc' = [doc EXCEPT !.status = "paused", !.cp = mem,
                                       !.fired = fired, !.ptr = TRUE]
              \/ branch[b].pc = "pausing" /\ mem' = ClearPending(mem) /\ doc' = doc
  <2>1. /\ snap' \in [Branches \cup {Saver} -> Checkpoints]
        /\ \A w \in Branches \cup {Saver} :
              snap'[w] \in {snap[w], FreshInvocation}
    BY <1>0, <1>5, Fresh
  <2>2. CASE mem' = mem /\ doc' \in {doc, Stored(mem)}
    BY <1>0, <1>2, <1>5, <2>1, <2>2, StoredFields DEF Written
  <2>3. ASSUME branch[b].pc = "pausing"
        PROVE  /\ PauseRun(b) /\ branch'[b].pc = "spend"
               /\ \/ mem' = mem /\ doc' # doc => branch'[b].res = "paused"
                  \/ doc' = doc
               /\ mem.pending = b
    <3>1. PauseRun(b)
      <4> USE <2>3 DEF At
      <4>1. ~AcquireSlot(b) /\ ~WaitTurn(b) /\ ~PassTurn(b)
            /\ ~ObserveCancel(b) /\ ~RefuseBudget(b) /\ ~StartNode(b)
            /\ ~NodeReturns(b) /\ ~NodeFails(b) /\ ~EmitEvent(b)
            /\ ~ParkOnEvent(b) /\ ~AwaitEvent(b) /\ ~ReacquireSlot(b)
        BY DEF AcquireSlot, WaitTurn, PassTurn, ObserveCancel, RefuseBudget,
               StartNode, NodeReturns, NodeFails, EmitEvent, ParkOnEvent,
               AwaitEvent, ReacquireSlot
      <4>2. ~Advance(b) /\ ~ConsumeAnswer(b) /\ ~AdvanceGate(b) /\ ~ReachGate(b)
            /\ ~CheckpointCut(b) /\ ~Panic(b) /\ ~CompleteBranch(b)
            /\ ~SaveBranch(b) /\ ~PersistSpend(b) /\ ~AbandonResume(b)
            /\ ~Recover(b) /\ ~Deliver(b)
        BY DEF Advance, ConsumeAnswer, AdvanceGate, ReachGate, CheckpointCut,
               Panic, CompleteBranch, SaveBranch, AfterSave, PersistSpend,
               AbandonResume, Recover, Deliver
      <4> QED BY <4>1, <4>2 DEF BranchStep
    <3>2. mem.pending = b
      BY <2>3 DEF IndInv, AnswerInv, AnswerOf
    <3>3. CASE LeaveWith(b, "spend", "paused")
      BY <1>0, <3>1, <3>2, <3>3, LeaveMoves DEF PCs, Results
    <3>4. CASE LeaveWith(b, "spend", "fail") /\ doc' = doc
      BY <1>0, <3>1, <3>2, <3>4, LeaveMoves DEF PCs, Results
    <3> QED BY <3>1, <3>3, <3>4 DEF PauseRun
  <2>4. CASE /\ branch[b].pc = "pausing" /\ mem' = mem
             /\ doc' = [doc EXCEPT !.status = "paused", !.cp = mem,
                                   !.fired = fired, !.ptr = TRUE]
    <3>1. /\ doc' \in Docs /\ doc'.status = "paused" /\ doc'.cp = mem
          /\ doc'.fired = fired /\ doc'.ptr
      BY <1>0, <2>4, PausedFields, Zenon
    <3>2. doc' = doc \/ Written(b)
      BY <1>5, <2>3, <2>4, <3>1 DEF Written
    <3> QED BY <1>0, <1>2, <1>5, <2>1, <2>4, <3>1, <3>2
  <2>5. CASE branch[b].pc = "pausing" /\ mem' = ClearPending(mem) /\ doc' = doc
    <3>1. /\ mem' \in Checkpoints /\ mem'.cur = mem.cur /\ mem'.done = mem.done
          /\ mem'.pending = None /\ ~mem'.answered
      BY <1>0, <2>5, PendingCleared
    <3>2. Grows(b, mem')
      BY <1>2, <2>3, <2>5, <3>1 DEF Grows
    <3>3. CheckpointInv(mem')
      BY <1>0, <2>5, ClearingKeeps DEF CheckpointInv
    <3>4. branch'[b].pc \in Placed
      BY <2>3, <2>5 DEF Placed
    <3> QED BY <1>0, <1>5, <2>1, <2>5, <3>1, <3>2, <3>3, <3>4
  <2> QED BY <1>5, <2>2, <2>4, <2>5
<1> QED BY <1>1, <1>3, <1>4, <1>5 DEF Shares

\* The parts of the invariant about ranges, paths and the save lock.
LEMMA BranchKeepsRanges ==
    ASSUME IndInv, Running, NEW b \in Branches, BranchStep(b)
    PROVE  (TypeOK /\ CursorInv /\ PathInv /\ ClaimInv /\ LockInv)'
<1>0. /\ TypeOK /\ CursorInv /\ PathInv /\ LockInv
      /\ ControlInv /\ mem \in Checkpoints /\ branch[b].pos \in Nat
      /\ b # None /\ b # Saver
  BY AtBranch DEF IndInv
<1>1. /\ UNCHANGED <<retired, answers, phase, collected, verdict, parentDone,
                     entered>>
      /\ fired' \in {fired, TRUE}
  BY BranchFrame
<1>2. Alone(b) /\ PathOf(b, branch'[b])
  BY <1>0, ControlStep
<1>3. PathInv'
  <2> SUFFICES ASSUME NEW c \in Branches
               PROVE  PathOf(c, branch'[c])
    BY DEF PathInv, PathOf, Node, End, IsGate
  <2>1. CASE c = b BY <1>2, <2>1
  <2>2. CASE c # b BY <1>0, <1>2, <2>2 DEF Alone, PathInv
  <2> QED BY <2>1, <2>2
<1>4. /\ mem' \in Checkpoints
      /\ Grows(b, mem')
      /\ doc' \in Docs
      /\ doc' = doc \/ Written(b)
      /\ \/ UNCHANGED <<doc, mem, lock, snap>>
         \/ lock = None /\ ~retired /\ lock' \in {None, b}
         \/ lock = b /\ lock' = None
      /\ snap' \in [Branches \cup {Saver} -> Checkpoints]
      /\ \A w \in Branches \cup {Saver} :
            snap'[w] \in {snap[w], mem', FreshInvocation}
      /\ lock' # None => snap'[lock'] = mem'
  BY Effects
<1>5. CursorInv'
  <2> SUFFICES ASSUME NEW c \in Branches
               PROVE  /\ mem'.cur[c] \in 1 .. End(c)
                      /\ doc'.cp.cur[c] \in 1 .. End(c)
                      /\ \A w \in Branches \cup {Saver} :
                            snap'[w].cur[c] \in 1 .. End(c)
    BY DEF CursorInv, End
  <2>1. mem'.cur[c] \in 1 .. End(c)
    BY <1>0, <1>4 DEF Grows, CursorInv
  <2>2. FreshInvocation.cur[c] \in 1 .. End(c)
    BY Ends DEF FreshInvocation
  <2>3. doc'.cp \in {doc.cp, mem'}
    BY <1>4 DEF Written
  <2> QED BY <1>0, <1>4, <2>1, <2>2, <2>3 DEF CursorInv
<1>6. TypeOK'
  <2>1. turn' \in Turns
    BY <1>0, BarrierStep DEF TypeOK, Turns
  <2>2. /\ held' \subseteq Branches
        /\ dirty' \in {"clean", "kicked", "unwritten"}
        /\ ctxDone' \in BOOLEAN
    BY <1>0, RangesStep
  <2>3. lock' \in Branches \cup {None, Saver}
    BY <1>0, <1>4 DEF TypeOK
  <2>4. /\ branch' \in [Branches -> [pc: PCs, pos: Nat, res: Results,
                                     ans: BOOLEAN, gate: BOOLEAN]]
        /\ \A c \in Branches : branch'[c].pos \in 1 .. End(c)
    BY <1>2, <1>3 DEF Alone, Cells, PathInv, PathOf, End
  <2>5. {retired, fired, ctxDone, parentDone}' \subseteq BOOLEAN
    BY <1>0, <1>1, <2>2 DEF TypeOK
  <2>6. /\ (collected \subseteq Branches)' /\ (answers \subseteq Branches \X Nat)'
        /\ (phase \in Phases)' /\ (verdict \in Verdicts)'
        /\ (entered \in 0 .. MaxInvocations)'
    BY <1>0, <1>1 DEF TypeOK
  <2> QED BY <1>4, <2>1, <2>2, <2>3, <2>4, <2>5, <2>6
          DEF TypeOK, Docs, Turns, End
<1>7. ClaimInv'
  BY <1>1 DEF ClaimInv, Running
<1>8. LockInv'
  <2>1. ASSUME NEW c \in Branches
        PROVE  (lock' = c) <=> (branch'[c].pc \in Writing)
    <3>1. CASE c = b BY <3>1, SharesStep
    <3>2. CASE c # b
      <4>1. branch'[c] = branch[c]
        BY <1>2, <3>2 DEF Alone
      <4>2. c # None
        BY BranchesAssumption
      <4>3. (lock' = c) <=> (lock = c)
        BY <1>0, <1>4, <3>2, <4>2
      <4> QED BY <1>0, <4>1, <4>3 DEF LockInv
    <3> QED BY <3>1, <3>2
  <2>2. (phase \in {"settle", "over"} => lock = None)'
    BY <1>0, <1>1, <1>4 DEF LockInv
  <2>3. /\ (retired => phase \in {"flush", "settle", "over", "down", "claimed"})'
        /\ (phase \in {"flush", "settle", "over"} => retired)'
    BY <1>0, <1>1 DEF LockInv
  <2> QED BY <1>4, <2>1, <2>2, <2>3 DEF LockInv, Writing
<1> QED BY <1>3, <1>5, <1>6, <1>7, <1>8

\* The parts about the checkpoints and the places of the branches.
LEMMA BranchKeepsMemory ==
    ASSUME IndInv, Running, NEW b \in Branches, BranchStep(b)
    PROVE  (MemoryInv /\ PlaceInv)'
<1>0. /\ MemoryInv /\ PlaceInv /\ CursorInv /\ TypeOK
      /\ mem \in Checkpoints /\ doc.cp \in Checkpoints /\ b # None
  BY AtBranch DEF IndInv, TypeOK, Docs
<1>1. UNCHANGED <<retired, answers, phase>>
  BY BranchFrame
<1>2. Alone(b)
  BY AtBranch, ControlStep
<1>3. /\ mem' \in Checkpoints /\ CheckpointInv(mem')
      /\ Grows(b, mem')
      /\ doc' = doc \/ Written(b)
  BY Effects
<1>4. Behind(mem, mem')
  <2> SUFFICES ASSUME NEW c \in Branches PROVE mem.cur[c] <= mem'.cur[c]
    BY <1>3 DEF Behind, Grows
  <2> QED BY <1>0, <1>3, Ends DEF Grows, CursorInv
<1>5. MemoryInv'
  <2>1. CheckpointInv(mem)'
    BY <1>1, <1>3 DEF CheckpointInv, Gate, IsGate, Node
  <2>2. CheckpointInv(doc.cp)'
    <3>1. CheckpointInv(doc'.cp)
      BY <1>0, <1>3 DEF Written, MemoryInv
    <3> QED BY <1>1, <3>1 DEF CheckpointInv, Gate, IsGate, Node
  <2>3. ASSUME Active' PROVE Behind(doc'.cp, mem')
    <3>1. Behind(doc.cp, mem)
      BY <1>0, <1>1, <2>3 DEF MemoryInv, Active
    <3>2. CASE doc' = doc
      <4> SUFFICES ASSUME NEW c \in Branches PROVE doc.cp.cur[c] <= mem'.cur[c]
        BY <1>4, <3>1, <3>2 DEF Behind
      <4>1. doc.cp.cur[c] \in Nat /\ mem.cur[c] \in Nat /\ mem'.cur[c] \in Nat
        BY <1>0, <1>3 DEF Checkpoints
      <4> QED BY <1>4, <3>1, <4>1 DEF Behind
    <3>3. CASE Written(b)
      BY <1>4, <3>3 DEF Written, Behind
    <3> QED BY <1>3, <3>2, <3>3
  <2> QED BY <2>1, <2>2, <2>3 DEF MemoryInv, Behind
<1>6. PlaceInv'
  <2> SUFFICES ASSUME NEW c \in Branches
               PROVE  PlaceOf(c, branch'[c], mem')
    BY <1>1 DEF PlaceInv, PlaceOf, IsGate, Node
  <2>1. CASE c = b BY <2>1, PlaceStep
  <2>2. CASE c # b
    <3>1. branch'[c] = branch[c]
      BY <1>2, <2>2 DEF Alone
    <3>2. /\ mem'.cur[c] = mem.cur[c]
          /\ mem'.pending = c => mem.pending = c
          /\ c \in mem'.done <=> c \in mem.done
      BY <1>3, <2>2, BranchesAssumption DEF Grows
    <3>3. PlaceOf(c, branch[c], mem)
      BY <1>0 DEF PlaceInv
    <3> QED BY <3>1, <3>2, <3>3 DEF PlaceOf
  <2> QED BY <2>1, <2>2
<1> QED BY <1>5, <1>6

\* The part about answers: the barrier's turn stays with the pending branch.
LEMMA BranchKeepsAnswer ==
    ASSUME IndInv, Running, NEW b \in Branches, BranchStep(b)
    PROVE  AnswerInv'
<1>0. /\ AnswerInv /\ LockInv
      /\ mem \in Checkpoints /\ turn \in Turns /\ branch[b].pos \in Nat
      /\ b # None
  BY AtBranch DEF IndInv, TypeOK, Turns
<1>1. UNCHANGED <<retired, answers, phase>>
  BY BranchFrame
<1>2. Alone(b)
  BY AtBranch, ControlStep
<1>3. /\ Grows(b, mem')
      /\ \/ UNCHANGED <<doc, mem, lock, snap>>
         \/ lock = None \/ lock = b
  BY Effects
<1>4. \/ turn'.of = turn.of
      \/ turn.of = b /\ mem'.pending = None
  BY <1>0, BarrierStep
<1>5. (mem.pending # None /\ mem.answered => turn.of = mem.pending)'
  BY <1>0, <1>3, <1>4 DEF AnswerInv, Grows
<1>6. ASSUME NEW c \in Branches
      PROVE  AnswerOf(c, branch'[c], mem', turn'.of)
  <2>1. CASE c = b
    <3>1. CASE Private(b)
      <4>1. mem' = mem /\ AnswerOf(b, branch'[b], mem, turn.of)
        BY <3>1, PrivatePlace, PrivateAnswer
      <4>2. turn'.of = turn.of \/ mem.pending = None
        BY <1>4, <4>1
      <4> QED BY <1>0, <2>1, <4>1, <4>2 DEF AnswerOf
    <3>2. CASE ~Private(b)
      BY <2>1, <3>2, SharedAnswer
    <3> QED BY <3>1, <3>2
  <2>2. CASE c # b
    <3>1. branch'[c] = branch[c] /\ AnswerOf(c, branch[c], mem, turn.of)
      BY <1>0, <1>2, <2>2 DEF Alone, AnswerInv
    <3>2. c # None
      BY BranchesAssumption
    <3>3. /\ mem.pending = c => mem'.pending = c
          /\ turn.of = c => turn'.of = c
      BY <1>3, <1>4, <2>2, <3>2 DEF Grows
    <3>4. branch[c].pc = "pausing" => mem' = mem
      BY <1>0, <1>3, <2>2, <3>2 DEF LockInv, Writing
    <3> QED BY <3>1, <3>3, <3>4 DEF AnswerOf
  <2> QED BY <2>1, <2>2
<1>7. (\A c \in Branches : AnswerOf(c, branch[c], mem, turn.of))'
  BY <1>1, <1>6 DEF AnswerOf
<1> QED BY <1>5, <1>7 DEF AnswerInv

\* The part about the pause: siblings' writes leave it answerable.
LEMMA BranchKeepsPause ==
    ASSUME IndInv, Running, NEW b \in Branches, BranchStep(b)
    PROVE  PauseInv'
<1>0. /\ PauseInv /\ AnswerInv /\ LockInv /\ ClaimInv
      /\ mem \in Checkpoints /\ b # None /\ phase \in Phases
  BY AtBranch DEF IndInv, TypeOK
<1>1. UNCHANGED <<retired, answers, phase>>
  BY BranchFrame
<1>2. Alone(b)
  BY AtBranch, ControlStep
<1>3. /\ Grows(b, mem')
      /\ mem' \in Checkpoints
      /\ doc' = doc \/ Written(b)
      /\ \/ UNCHANGED <<doc, mem, lock, snap>>
         \/ lock = None /\ ~retired /\ lock' \in {None, b}
         \/ lock = b /\ lock' = None
  BY Effects
<1>4. CASE ~Active
  <2>1. phase = "over" /\ lock = None /\ retired
    BY <1>0, <1>4 DEF Active, Running, Phases, LockInv
  <2>2. doc' = doc
    BY <1>0, <1>3, <2>1 DEF Written
  <2>3. ~Active'
    BY <1>1, <1>4 DEF Active
  <2> QED BY <1>0, <2>2, <2>3 DEF PauseInv
<1>5. CASE Active /\ doc.status = "paused"
  <2> DEFINE a == mem.pending
  <2>1. /\ doc.ptr /\ a # None /\ a = doc.cp.pending
        /\ mem.cur[a] = doc.cp.cur[a]
        /\ mem.asked /\ ~mem.answered /\ ~doc.cp.answered
        /\ branch[a].res = "paused" /\ a \in Branches
    BY <1>0, <1>5 DEF PauseInv, Checkpoints
  <2>2. /\ mem'.pending = a /\ mem'.cur[a] = mem.cur[a]
        /\ mem'.asked = mem.asked /\ ~mem'.answered
        /\ branch'[a].res = "paused"
    <3>1. CASE a = b
      BY <2>1, <3>1, PausedUnwinds
    <3>2. CASE a # b
      BY <1>2, <1>3, <2>1, <3>2 DEF Grows, Alone
    <3> QED BY <3>1, <3>2
  <2>3. CASE doc' = doc
    BY <2>1, <2>2, <2>3 DEF PauseInv
  <2>4. CASE Written(b)
    BY <1>5, <2>1, <2>2, <2>4 DEF PauseInv, Written
  <2> QED BY <1>3, <2>3, <2>4
<1>6. CASE Active /\ doc.status # "paused"
  <2>1. CASE doc' = doc \/ doc'.status = doc.status
    BY <1>6, <2>1 DEF PauseInv
  <2>2. CASE Written(b) /\ doc'.status # doc.status
    <3>1. /\ doc'.status = "paused" /\ doc'.ptr /\ branch[b].pc = "pausing"
          /\ branch'[b].res = "paused" /\ mem' = mem /\ doc'.cp = mem
      BY <2>2 DEF Written
    <3>2. mem.pending = b /\ mem.asked /\ ~mem.answered
      BY <1>0, <3>1 DEF AnswerInv, AnswerOf
    <3> QED BY <1>0, <3>1, <3>2 DEF PauseInv
  <2> QED BY <1>3, <2>1, <2>2
<1> QED BY <1>4, <1>5, <1>6

\* The part about the verdict: once every result is in, no branch moves.
LEMMA BranchKeepsVerdict ==
    ASSUME IndInv, Running, NEW b \in Branches, BranchStep(b)
    PROVE  VerdictInv'
<1>0. /\ VerdictInv /\ LockInv
      /\ mem \in Checkpoints /\ b # None /\ phase \in Phases
      /\ collected \subseteq Branches
  BY AtBranch DEF IndInv, TypeOK
<1>1. /\ UNCHANGED <<retired, answers, phase, collected, verdict>>
      /\ branch[b].pc # "sent"
  BY BranchFrame
<1>2. Alone(b)
  BY AtBranch, ControlStep
<1>3. /\ doc' = doc \/ Written(b)
      /\ \/ UNCHANGED <<doc, mem, lock, snap>>
         \/ lock = None /\ ~retired /\ lock' \in {None, b}
         \/ lock = b /\ lock' = None
  BY Effects
<1>4. (Active => doc.status \in {"running", "paused"})'
  BY <1>0, <1>1, <1>3 DEF VerdictInv, Active, Written
<1>5. (\A c \in collected : branch[c].pc = "sent")'
  BY <1>0, <1>1, <1>2 DEF VerdictInv, Alone
<1>6. ~(phase \in {"retire", "flush", "settle"} /\ verdict # "undecided")
  BY <1>0, <1>1 DEF VerdictInv
<1>7. ~(verdict = "joined" /\ WaitAll)
  BY <1>0, <1>1 DEF VerdictInv
<1> QED BY <1>1, <1>4, <1>5, <1>6, <1>7 DEF VerdictInv

\* The part about signals: a write past an emit node carries the event.
LEMMA BranchKeepsSignal ==
    ASSUME IndInv, Running, NEW b \in Branches, BranchStep(b)
    PROVE  SignalInv'
<1>0. /\ SignalInv /\ CursorInv /\ mem \in Checkpoints /\ phase \in Phases
      /\ branch[b].pos \in Nat /\ fired \in BOOLEAN
  BY AtBranch DEF IndInv, TypeOK
<1>1. /\ UNCHANGED <<retired, answers, phase>>
      /\ fired' \in {fired, TRUE}
  BY BranchFrame
<1>2. Alone(b)
  BY AtBranch, ControlStep
<1>3. /\ Grows(b, mem')
      /\ mem' \in Checkpoints
      /\ mem' # mem => branch'[b].pc \in Placed
      /\ doc' = doc \/ Written(b)
  BY Effects
<1>4. PlaceOf(b, branch'[b], mem') /\ branch'[b] \in Cells
  BY <1>2, PlaceStep DEF Alone
<1>5. Active \/ phase = "over"
  BY <1>0 DEF Active, Running, Phases
<1> SUFFICES ASSUME NEW c \in Branches, NEW p \in Nat,
                    p \in 1 .. Len(Prog[c]), Node(c, p) = "emit"
             PROVE  /\ doc'.cp.cur[c] > p => doc'.fired
                    /\ mem'.cur[c] > p => fired'
                    /\ branch'[c].pc \in Placed /\ branch'[c].pos > p => fired'
                    /\ branch'[c].pc = "advance" /\ branch'[c].pos = p => fired'
  BY DEF SignalInv, Node
<1>6. /\ doc.cp.cur[c] > p => doc.fired
      /\ mem.cur[c] > p => fired
      /\ branch[c].pc \in Placed /\ branch[c].pos > p => fired
      /\ branch[c].pc = "advance" /\ branch[c].pos = p => fired
  BY <1>0, <1>5 DEF SignalInv
<1>7. doc'.cp.cur[c] > p => doc'.fired
  BY <1>3, <1>6 DEF Written
<1>8. CASE c # b
  <2>1. mem'.cur[c] = mem.cur[c] /\ branch'[c] = branch[c]
    BY <1>2, <1>3, <1>8 DEF Grows, Alone
  <2> QED BY <1>1, <1>6, <1>7, <2>1
<1>9. CASE c = b
  <2>1. branch'[c].pc \in Placed /\ branch'[c].pos > p => fired'
    <3> SUFFICES ASSUME branch'[b].pc \in Placed, branch'[b].pos > p
                 PROVE  fired'
      BY <1>9
    <3>1. CASE branch[b].pc \in Placed /\ branch'[b].pos = branch[b].pos
      BY <1>1, <1>6, <1>9, <3>1
    <3>2. CASE branch[b].pc = "advance" /\ branch'[b].pos = branch[b].pos + 1
      <4>1. branch[b].pos = p \/ branch[b].pos > p
        BY <1>0, <3>2
      <4> QED BY <1>1, <1>6, <1>9, <3>2, <4>1 DEF Placed, Visiting
    <3>3. CASE branch'[b].pos = mem.cur[b]
      BY <1>1, <1>6, <1>9, <3>3
    <3> QED BY <3>1, <3>2, <3>3, PositionStep
  <2>2. branch'[c].pc = "advance" /\ branch'[c].pos = p => fired'
    BY <1>9, PositionStep
  <2>3. mem'.cur[c] > p => fired'
    <3>1. CASE mem' = mem
      BY <1>1, <1>6, <3>1
    <3>2. CASE mem' # mem
      <4>1. mem'.cur[b] <= branch'[b].pos /\ mem'.cur[b] \in Nat
            /\ branch'[b].pos \in Nat
        BY <1>3, <1>4, <3>2 DEF PlaceOf, Cells, Checkpoints
      <4> QED BY <1>3, <1>9, <2>1, <3>2, <4>1
    <3> QED BY <3>1, <3>2
  <2> QED BY <1>7, <2>1, <2>2, <2>3
<1> QED BY <1>8, <1>9

\* A step of a branch keeps the inductive invariant.
LEMMA BranchKeeps ==
    ASSUME IndInv, Running, NEW b \in Branches, BranchStep(b)
    PROVE  IndInv'
BY BranchKeepsRanges, BranchKeepsMemory, BranchKeepsAnswer, BranchKeepsPause,
   BranchKeepsVerdict, BranchKeepsSignal DEF IndInv

-----------------------------------------------------------------------------
(* The saver, the collector and the trunk keep the invariant.              *)

\* What depends on the memory and the goroutines alone, when those stay; a
\* retirement and a new answer only make it easier.
LEMMA GoroutinesStay ==
    ASSUME IndInv, UNCHANGED <<mem, turn, branch>>, retired => retired',
           answers \subseteq answers'
    PROVE  (PathInv /\ PlaceInv /\ AnswerInv /\ CheckpointInv(mem))'
<1>0. PathInv /\ PlaceInv /\ AnswerInv /\ CheckpointInv(mem)
  BY DEF IndInv, MemoryInv
<1>1. PathInv'
  BY <1>0 DEF PathInv, PathOf, End, Node
<1>2. PlaceInv'
  BY <1>0 DEF PlaceInv, PlaceOf, IsGate, Node
<1>3. AnswerInv'
  BY <1>0 DEF AnswerInv, AnswerOf
<1>4. CheckpointInv(mem)'
  BY <1>0 DEF CheckpointInv, Gate, IsGate, Node
<1> QED BY <1>1, <1>2, <1>3, <1>4

\* What depends on the document, when it stays as well.
LEMMA DocumentStays ==
    ASSUME IndInv, UNCHANGED <<doc, mem, branch, answers, fired>>
    PROVE  /\ CheckpointInv(doc.cp)'
           /\ Active => Behind(doc'.cp, mem')
           /\ (\A b \in Branches : doc.cp.cur[b] \in 1 .. End(b))'
BY DEF IndInv, MemoryInv, CursorInv, CheckpointInv, Gate, IsGate, Node, End,
       Behind

\* The saver's and the trunk's writes of the checkpoint in memory keep a pause,
\* the answers and the signals.
LEMMA LandedKeeps ==
    ASSUME IndInv, Active, UNCHANGED <<mem, branch, answers, fired>>,
           doc' \in {doc, Stored(mem)}
    PROVE  /\ doc' \in Docs /\ doc'.status = doc.status
           /\ CheckpointInv(doc.cp)'
           /\ Behind(doc'.cp, mem')
           /\ \A b \in Branches : doc'.cp.cur[b] \in 1 .. End(b)
           /\ PauseInv'
           /\ \A b \in Branches, p \in Nat :
                p \in 1 .. Len(Prog[b]) /\ Node(b, p) = "emit"
                  /\ doc'.cp.cur[b] > p => doc'.fired
<1>0. /\ doc \in Docs /\ mem \in Checkpoints /\ fired \in BOOLEAN
      /\ CheckpointInv(doc.cp) /\ CheckpointInv(mem) /\ Behind(doc.cp, mem)
      /\ CursorInv /\ PauseInv /\ SignalInv
  BY DEF IndInv, TypeOK, MemoryInv, Docs
<1>1. CASE doc' = doc
  <2>1. CheckpointInv(doc.cp)'
    BY <1>0, <1>1 DEF CheckpointInv, Gate, IsGate, Node
  <2>2. PauseInv'
    BY <1>0, <1>1 DEF PauseInv
  <2> QED BY <1>0, <1>1, <2>1, <2>2 DEF CursorInv, SignalInv, Behind
<1>2. CASE doc' = Stored(mem)
  <2>1. /\ doc' \in Docs /\ doc'.status = doc.status /\ doc'.cp = mem
        /\ doc'.fired = fired
        /\ doc'.ptr <=> mem.asked /\ doc.status = "paused"
    BY <1>0, <1>2, StoredFields
  <2>2. CheckpointInv(doc.cp)'
    BY <1>0, <2>1 DEF CheckpointInv, Gate, IsGate, Node
  <2>3. Behind(mem, mem)
    BY <1>0 DEF Behind, Checkpoints
  <2>4. PauseInv'
    BY <1>0, <2>1 DEF PauseInv
  <2> QED BY <1>0, <2>1, <2>2, <2>3, <2>4 DEF CursorInv, SignalInv
<1> QED BY <1>1, <1>2

\* What the signals need, when the goroutines and the events stay.
LEMMA SignalsStay ==
    ASSUME IndInv, UNCHANGED <<mem, branch, fired>>,
           Active' \/ phase' = "over" => Active \/ phase = "over",
           \A b \in Branches, p \in Nat :
             p \in 1 .. Len(Prog[b]) /\ Node(b, p) = "emit"
               /\ doc'.cp.cur[b] > p => doc'.fired
    PROVE  SignalInv'
BY DEF IndInv, SignalInv, Node

\* The coalescing saver keeps the inductive invariant.
LEMMA SaverKeeps ==
    ASSUME IndInv, Running, SaverStep
    PROVE  IndInv'
<1>0. /\ TypeOK /\ CursorInv /\ ClaimInv /\ LockInv /\ MemoryInv /\ PauseInv
      /\ VerdictInv /\ SignalInv
      /\ mem \in Checkpoints /\ Saver # None /\ Saver \notin Branches
      /\ None \notin Branches
      /\ snap \in [Branches \cup {Saver} -> Checkpoints]
  BY BranchesAssumption DEF IndInv, TypeOK
<1>1. UNCHANGED <<mem, turn, branch, answers, fired, retired, held, ctxDone,
                  phase, collected, verdict, parentDone, entered>>
  BY DEF SaverStep, SaverWrites, SaverLands, Snapshot, trunkVars
<1>2. (PathInv /\ PlaceInv /\ AnswerInv /\ CheckpointInv(mem))'
  BY <1>1, GoroutinesStay
<1>3. ClaimInv'
  BY <1>1 DEF ClaimInv, Running
<1>4. CASE SaverWrites
  <2>1. /\ doc' = doc /\ lock = None /\ lock' = Saver
        /\ snap' = [snap EXCEPT ![Saver] = mem] /\ dirty' = "unwritten" /\ ~retired
    BY <1>4 DEF SaverWrites, TakeLock, Snapshot
  <2>2. /\ snap' \in [Branches \cup {Saver} -> Checkpoints]
        /\ snap'[Saver] = mem
        /\ \A w \in Branches : snap'[w] = snap[w]
    BY <1>0, <2>1
  <2>3. TypeOK'
    BY <1>0, <1>1, <2>1, <2>2 DEF TypeOK, End
  <2>4. CursorInv'
    BY <1>0, <1>1, <2>1, <2>2 DEF CursorInv, End
  <2>5. LockInv'
    BY <1>0, <1>1, <2>1, <2>2 DEF LockInv
  <2>6. MemoryInv'
    BY <1>0, <1>1, <1>2, <2>1, DocumentStays DEF MemoryInv, Active, Behind
  <2>7. PauseInv' /\ VerdictInv' /\ SignalInv'
    BY <1>0, <1>1, <2>1
       DEF PauseInv, VerdictInv, SignalInv, Active, Node
  <2> QED BY <1>2, <1>3, <2>3, <2>4, <2>5, <2>6, <2>7 DEF IndInv
<1>5. CASE SaverLands
  <2>1. /\ lock = Saver /\ lock' = None /\ snap[Saver] = mem
        /\ doc' \in {doc, Stored(mem)} /\ dirty' \in {dirty, "clean"}
        /\ snap' = [snap EXCEPT ![Saver] = FreshInvocation]
    BY <1>0, <1>5 DEF SaverLands, Save, Unlock, LockInv
  <2>2. Active
    BY <1>0, <2>1 DEF Active, Running, LockInv, TypeOK, Phases
  <2>3. /\ doc' \in Docs /\ doc'.status = doc.status
        /\ CheckpointInv(doc.cp)'
        /\ Behind(doc'.cp, mem')
        /\ \A b \in Branches : doc'.cp.cur[b] \in 1 .. End(b)
        /\ PauseInv'
        /\ \A b \in Branches, p \in Nat :
             p \in 1 .. Len(Prog[b]) /\ Node(b, p) = "emit"
               /\ doc'.cp.cur[b] > p => doc'.fired
    BY <1>1, <2>1, <2>2, LandedKeeps
  <2>4. /\ snap' \in [Branches \cup {Saver} -> Checkpoints]
        /\ \A w \in Branches \cup {Saver} : snap'[w] \in {snap[w], FreshInvocation}
    BY <1>0, <2>1, Fresh
  <2>5. TypeOK'
    BY <1>0, <1>1, <2>1, <2>3, <2>4 DEF TypeOK, End, Docs
  <2>6. CursorInv'
    <3>1. \A b \in Branches : FreshInvocation.cur[b] \in 1 .. End(b)
      BY Ends DEF FreshInvocation
    <3> QED BY <1>0, <1>1, <2>3, <2>4, <3>1 DEF CursorInv, End
  <2>7. LockInv'
    BY <1>0, <1>1, <2>1 DEF LockInv
  <2>8. MemoryInv'
    BY <1>2, <2>3 DEF MemoryInv, Behind
  <2>9. VerdictInv'
    BY <1>0, <1>1, <2>3 DEF VerdictInv, Active
  <2>10. SignalInv'
    BY <1>1, <2>2, <2>3, SignalsStay DEF Active
  <2> QED BY <1>2, <1>3, <2>3, <2>5, <2>6, <2>7, <2>8, <2>9, <2>10 DEF IndInv
<1> QED BY <1>4, <1>5 DEF SaverStep

\* The collector and the end of the run's context touch neither the document
\* nor the goroutines.
LEMMA CollectorKeeps ==
    ASSUME IndInv,
           ContextEnds \/ (\E b \in Branches : CollectResult(b)) \/ EndCollect
             \/ Retire
    PROVE  IndInv'
<1>0. /\ TypeOK /\ CursorInv /\ ClaimInv /\ LockInv /\ MemoryInv /\ PauseInv
      /\ PlaceInv /\ VerdictInv /\ SignalInv /\ mem.pending \in Branches \cup {None}
  BY DEF IndInv, TypeOK, Checkpoints
<1>1. /\ UNCHANGED <<doc, mem, turn, dirty, lock, snap, branch, held, fired,
                     answers, entered>>
      /\ phase \in {"collect", "retire"} /\ phase' \in {"collect", "retire", "flush"}
      /\ retired => retired'
      /\ phase = "collect" => phase' # "flush"
  BY <1>0 DEF ContextEnds, CollectResult, EndCollect, Retire, TypeOK
<1>2. (PathInv /\ PlaceInv /\ AnswerInv /\ CheckpointInv(mem))'
  BY <1>1, GoroutinesStay
<1>3. Active /\ Active'
  BY <1>1 DEF Active
<1>4. CursorInv' /\ ClaimInv'
  BY <1>0, <1>1 DEF CursorInv, ClaimInv, End
<1>5. MemoryInv'
  BY <1>0, <1>1, <1>2, <1>3, DocumentStays DEF MemoryInv, Behind
<1>6. PauseInv'
  BY <1>0, <1>1, <1>3 DEF PauseInv
<1>7. SignalInv'
  BY <1>0, <1>1, <1>3, SignalsStay DEF SignalInv
<1>8. CASE ContextEnds
  <2>1. /\ UNCHANGED <<retired, phase, collected, verdict>>
        /\ parentDone' = TRUE /\ ctxDone' = TRUE
    BY <1>8 DEF ContextEnds
  <2>2. TypeOK'
    BY <1>0, <1>1, <2>1 DEF TypeOK, End
  <2>3. LockInv' /\ VerdictInv'
    BY <1>0, <1>1, <2>1 DEF LockInv, VerdictInv, Active
  <2> QED BY <1>2, <1>4, <1>5, <1>6, <1>7, <2>2, <2>3 DEF IndInv
<1>9. CASE \E b \in Branches : CollectResult(b)
  <2>1. PICK b \in Branches : CollectResult(b)
    BY <1>9
  <2>2. /\ UNCHANGED <<retired, phase, verdict, parentDone, ctxDone>>
        /\ phase = "collect" /\ branch[b].pc = "sent"
        /\ collected' = collected \cup {b}
    BY <2>1 DEF CollectResult, At
  <2>3. TypeOK'
    BY <1>0, <1>1, <2>2 DEF TypeOK, End
  <2>4. LockInv' /\ VerdictInv'
    BY <1>0, <1>1, <2>2 DEF LockInv, VerdictInv, Active
  <2> QED BY <1>2, <1>4, <1>5, <1>6, <1>7, <2>3, <2>4 DEF IndInv
<1>10. CASE EndCollect
  <2>1. /\ UNCHANGED <<retired, parentDone, ctxDone>>
        /\ phase = "collect" /\ phase' = "retire"
        /\ verdict' = Ruling(collected')
        /\ collected' \subseteq Branches
        /\ \A b \in collected' : branch[b].pc = "sent"
    BY <1>0, <1>10 DEF EndCollect, At, TypeOK, VerdictInv
  <2> DEFINE res == {branch[b].res : b \in collected'}
  <2>2. /\ verdict' \in Verdicts
        /\ verdict' # "undecided" =>
              /\ collected' = Branches /\ "undecided" \notin res
              /\ "paused" \in res => verdict' \in {"cut", "paused"}
        /\ verdict' = "joined" /\ WaitAll => res = {"ok"} /\ collected' = Branches
    BY <2>1 DEF Ruling, Verdicts
  <2>3. TypeOK'
    BY <1>0, <1>1, <2>1, <2>2 DEF TypeOK, End, Phases
  <2>4. LockInv'
    BY <1>0, <1>1, <2>1 DEF LockInv
  <2>5. ASSUME verdict' # "undecided"
        PROVE  /\ collected' = Branches
               /\ \A b \in Branches : branch[b].res # "undecided"
               /\ doc.status = "paused" => verdict' \in {"cut", "paused"}
    <3>1. doc.status = "paused" => "paused" \in res
      BY <1>0, <1>3, <2>2, <2>5 DEF PauseInv
    <3> QED BY <2>2, <2>5, <3>1
  <2>6. ASSUME verdict' = "joined", WaitAll
        PROVE  \A b \in Branches : branch[b].pc = "sent" /\ b \in mem.done
    <3>1. ~retired
      BY <1>0, <2>1 DEF LockInv
    <3> QED BY <1>0, <2>1, <2>2, <2>6, <3>1 DEF PlaceInv, PlaceOf
  <2>7. VerdictInv'
    BY <1>0, <1>1, <1>3, <2>1, <2>5, <2>6 DEF VerdictInv
  <2> QED BY <1>2, <1>4, <1>5, <1>6, <1>7, <2>3, <2>4, <2>7 DEF IndInv
<1>11. CASE Retire
  <2>1. /\ UNCHANGED <<parentDone, ctxDone, collected, verdict>>
        /\ phase = "retire" /\ phase' = "flush" /\ retired' = TRUE
    BY <1>11 DEF Retire
  <2>2. TypeOK'
    BY <1>0, <1>1, <2>1 DEF TypeOK, End, Phases
  <2>3. LockInv'
    BY <1>0, <1>1, <2>1 DEF LockInv
  <2>4. VerdictInv'
    BY <1>0, <1>1, <1>3, <2>1 DEF VerdictInv
  <2> QED BY <1>2, <1>4, <1>5, <1>6, <1>7, <2>2, <2>3, <2>4 DEF IndInv
<1> QED BY <1>8, <1>9, <1>10, <1>11

\* The flush of a retired invocation.
LEMMA FlushKeeps ==
    ASSUME IndInv, Flush
    PROVE  IndInv'
<1>0. /\ TypeOK /\ CursorInv /\ LockInv /\ VerdictInv
  BY DEF IndInv
<1>1. /\ UNCHANGED <<mem, retired, turn, lock, snap, branch, held, fired, ctxDone,
                     parentDone, collected, verdict, answers, entered>>
      /\ phase = "flush" /\ phase' = "settle" /\ lock = None
      /\ doc' \in {doc, Stored(mem)} /\ dirty' \in {dirty, "clean"}
  BY DEF Flush
<1>2. (PathInv /\ PlaceInv /\ AnswerInv /\ CheckpointInv(mem))'
  BY <1>1, GoroutinesStay
<1>3. Active /\ Active'
  BY <1>1 DEF Active
<1>4. /\ doc' \in Docs /\ doc'.status = doc.status
      /\ CheckpointInv(doc.cp)'
      /\ Behind(doc'.cp, mem')
      /\ \A b \in Branches : doc'.cp.cur[b] \in 1 .. End(b)
      /\ PauseInv'
      /\ \A b \in Branches, p \in Nat :
           p \in 1 .. Len(Prog[b]) /\ Node(b, p) = "emit"
             /\ doc'.cp.cur[b] > p => doc'.fired
  BY <1>1, <1>3, LandedKeeps
<1>5. TypeOK'
  BY <1>0, <1>1, <1>4 DEF TypeOK, End, Docs, Phases
<1>6. CursorInv' /\ ClaimInv'
  BY <1>0, <1>1, <1>4 DEF CursorInv, End, ClaimInv
<1>7. LockInv'
  BY <1>0, <1>1 DEF LockInv
<1>8. MemoryInv'
  BY <1>2, <1>4 DEF MemoryInv, Behind
<1>9. VerdictInv'
  BY <1>0, <1>1, <1>3, <1>4 DEF VerdictInv
<1>10. SignalInv'
  BY <1>1, <1>3, <1>4, SignalsStay
<1> QED BY <1>2, <1>4, <1>5, <1>6, <1>7, <1>8, <1>9, <1>10 DEF IndInv

\* What an invocation may leave of the document, field by field.
LastWrite ==
    \/ doc' = doc /\ (verdict \in {"paused", "cut"} \/ Fault("store"))
    \/ /\ verdict = "joined" /\ doc'.status = "joined"
       /\ doc'.cp = doc.cp /\ doc'.fired = doc.fired
    \/ /\ verdict \notin {"paused", "joined"}
       /\ \/ doc'.status = "ended"
          \/ doc'.status = IF verdict = "undecided" THEN "undecided" ELSE "failed"
       /\ \/ doc'.cp = mem /\ doc'.fired = fired
          \/ doc'.cp = doc.cp /\ doc'.fired = doc.fired

LEMMA SettledFields ==
    ASSUME IndInv, Settle
    PROVE  doc' \in Docs /\ LastWrite
<1>0. doc \in Docs /\ mem \in Checkpoints /\ fired \in BOOLEAN
  BY DEF IndInv, TypeOK, Docs
<1>1. CASE verdict = "paused"
  BY <1>0, <1>1 DEF Settle, LastWrite
<1>2. CASE verdict = "joined"
  <2>1. doc' = [doc EXCEPT !.status = "joined"]
    BY <1>2 DEF Settle
  <2> QED BY <1>0, <1>2, <2>1 DEF Docs, Statuses, LastWrite
<1>3. CASE verdict \notin {"paused", "joined"}
  <2>1. doc' = Recorded \/ Unrecorded
    BY <1>3 DEF Settle
  <2>2. /\ Recorded \in Docs /\ Recorded.cp = mem /\ Recorded.fired = fired
        /\ Recorded.status = IF verdict = "undecided" THEN "undecided" ELSE "failed"
    BY <1>0 DEF Recorded, Docs, Statuses
  <2>3. ASSUME NEW d \in Docs
        PROVE  LET e == [d EXCEPT !.status = "ended"]
               IN  e \in Docs /\ e.status = "ended" /\ e.cp = d.cp /\ e.fired = d.fired
    BY DEF Docs, Statuses
  <2>4. CASE doc' = Recorded
    BY <1>3, <2>2, <2>4 DEF LastWrite
  <2>5. CASE doc' = doc /\ Unrecorded
    BY <1>0, <2>5 DEF LastWrite, Unrecorded
  <2>6. CASE doc' \in {[doc EXCEPT !.status = "ended"], [Recorded EXCEPT !.status = "ended"]}
    <3>1. CASE doc' = [doc EXCEPT !.status = "ended"]
      BY <1>0, <1>3, <2>3, <3>1 DEF LastWrite
    <3>2. CASE doc' = [Recorded EXCEPT !.status = "ended"]
      BY <1>3, <2>2, <2>3, <3>2 DEF LastWrite
    <3> QED BY <2>6, <3>1, <3>2
  <2> QED BY <2>1, <2>4, <2>5, <2>6 DEF Unrecorded
<1> QED BY <1>1, <1>2, <1>3

\* The trunk's last write keeps the inductive invariant.
LEMMA SettleKeeps ==
    ASSUME IndInv, Settle
    PROVE  IndInv'
<1>0. /\ TypeOK /\ CursorInv /\ LockInv /\ MemoryInv /\ PauseInv /\ VerdictInv
      /\ SignalInv
  BY DEF IndInv
<1>1. /\ UNCHANGED <<mem, retired, turn, dirty, lock, snap, branch, held, fired,
                     ctxDone, parentDone, collected, verdict, answers, entered>>
      /\ phase = "settle" /\ phase' = "over"
  BY DEF Settle
<1>2. (PathInv /\ PlaceInv /\ AnswerInv /\ CheckpointInv(mem))'
  BY <1>1, GoroutinesStay
<1>3. Active /\ ~Active'
  BY <1>1 DEF Active
<1>4. doc' \in Docs /\ LastWrite
  BY SettledFields
<1>5. TypeOK'
  BY <1>0, <1>1, <1>4 DEF TypeOK, End, Docs, Phases
<1>6. CursorInv' /\ ClaimInv' /\ LockInv'
  BY <1>0, <1>1, <1>4 DEF CursorInv, End, ClaimInv, LockInv, LastWrite
<1>7. MemoryInv'
  <2>1. CheckpointInv(doc'.cp)
    BY <1>0, <1>4 DEF MemoryInv, LastWrite
  <2>2. CheckpointInv(doc.cp)'
    BY <1>1, <2>1 DEF CheckpointInv, Gate, IsGate, Node
  <2> QED BY <1>2, <1>3, <2>2 DEF MemoryInv
<1>8. PauseInv'
  BY <1>0, <1>3, <1>4 DEF PauseInv, LastWrite
<1>9. VerdictInv'
  BY <1>0, <1>1, <1>3 DEF VerdictInv
<1>10. SignalInv'
  <2>1. \A b \in Branches, p \in Nat :
          p \in 1 .. Len(Prog[b]) /\ Node(b, p) = "emit"
            /\ doc'.cp.cur[b] > p => doc'.fired
    BY <1>0, <1>3, <1>4 DEF SignalInv, LastWrite
  <2> QED BY <1>1, <1>3, <2>1, SignalsStay
<1> QED BY <1>2, <1>5, <1>6, <1>7, <1>8, <1>9, <1>10 DEF IndInv

\* What a crash leaves of the document.
LEMMA CrashedFields ==
    ASSUME IndInv, Crash
    PROVE  /\ doc' \in Docs
           /\ doc'.cp = doc.cp /\ doc'.fired = doc.fired
           /\ doc'.status = IF doc.status = "running" THEN "failed" ELSE doc.status
           /\ doc'.ptr <=> doc.ptr /\ doc.status = "paused"
<1> DEFINE status == IF doc.status = "running" THEN "failed" ELSE doc.status
           ptr == doc.ptr /\ doc.status = "paused"
<1>0. doc \in Docs
  BY DEF IndInv, TypeOK, Docs
<1>1. doc' = [doc EXCEPT !.status = status, !.ptr = ptr]
  BY DEF Crash
<1>2. status \in Statuses /\ ptr \in BOOLEAN
  BY <1>0 DEF Docs, Statuses
<1> HIDE DEF status, ptr
<1>3. doc' \in Docs /\ doc'.cp = doc.cp /\ doc'.fired = doc.fired
      /\ doc'.status = status /\ doc'.ptr = ptr
  BY <1>0, <1>1, <1>2 DEF Docs
<1> QED BY <1>3 DEF status, ptr

\* The steps that only rewrite the document of an invocation that is gone: the
\* death of the process, an operator's answer, a delivery's claim.
LEMMA GoneKeeps ==
    ASSUME IndInv,
           UNCHANGED <<mem, retired, turn, dirty, lock, snap, branch, held, fired,
                       ctxDone, parentDone, collected, verdict, entered>>,
           doc' \in Docs, ~Active',
           phase' \in Phases, phase' = "over" => phase = "over",
           phase' \in {"over", "down", "claimed"},
           phase' = "claimed" => /\ doc'.status = "running"
                                 /\ doc'.cp.pending # None
                                 /\ entered < MaxInvocations,
           doc'.status = "paused" => doc.status = "paused" /\ (doc.ptr => doc'.ptr),
           doc'.cp.cur = doc.cp.cur, doc'.cp.done = doc.cp.done,
           doc'.cp.pending = doc.cp.pending,
           doc'.fired = doc.fired,
           answers \subseteq answers', answers' \subseteq Branches \X Nat,
           doc.cp.pending # None /\ doc'.cp.answered =>
              doc.cp.answered \/ Gate(doc.cp) \in answers'
    PROVE  IndInv'
<1>0. /\ TypeOK /\ CursorInv /\ LockInv /\ MemoryInv /\ PauseInv /\ VerdictInv
      /\ SignalInv
  BY DEF IndInv
<1>1. (PathInv /\ PlaceInv /\ AnswerInv /\ CheckpointInv(mem))'
  BY GoroutinesStay
<1>2. TypeOK'
  BY <1>0 DEF TypeOK, End, Docs
<1>3. CursorInv' /\ ClaimInv' /\ LockInv'
  BY <1>0 DEF CursorInv, End, ClaimInv, LockInv
<1>4. CheckpointInv(doc.cp)'
  BY <1>0 DEF MemoryInv, CheckpointInv, Gate, IsGate, Node
<1>5. MemoryInv'
  BY <1>1, <1>4 DEF MemoryInv
<1>6. PauseInv'
  BY <1>0 DEF PauseInv
<1>7. VerdictInv'
  BY <1>0 DEF VerdictInv
<1>8. SignalInv'
  <2>1. \A b \in Branches, p \in Nat :
          p \in 1 .. Len(Prog[b]) /\ Node(b, p) = "emit"
            /\ doc'.cp.cur[b] > p => doc'.fired
    BY <1>0 DEF SignalInv
  <2> QED BY <2>1, SignalsStay
<1> QED BY <1>1, <1>2, <1>3, <1>5, <1>6, <1>7, <1>8 DEF IndInv

\* So does the death of the process, at any point.
LEMMA CrashKeeps ==
    ASSUME IndInv, Crash
    PROVE  IndInv'
<1>1. /\ UNCHANGED <<mem, retired, turn, dirty, lock, snap, branch, held, fired,
                     ctxDone, parentDone, collected, verdict, answers, entered>>
      /\ phase' = "down"
  BY DEF Crash
<1>2. /\ doc' \in Docs
      /\ doc'.cp = doc.cp /\ doc'.fired = doc.fired
      /\ doc'.status = IF doc.status = "running" THEN "failed" ELSE doc.status
      /\ doc'.ptr <=> doc.ptr /\ doc.status = "paused"
  BY CrashedFields
<1>3. answers \subseteq Branches \X Nat
  BY DEF IndInv, TypeOK
<1>4. doc'.status = "paused" => doc.status = "paused" /\ (doc.ptr => doc'.ptr)
  BY <1>2
<1> QED BY <1>1, <1>2, <1>3, <1>4, GoneKeeps DEF Active, Phases

\* So does the scan that finds the run left running.
LEMMA ReconcileKeeps ==
    ASSUME IndInv, ReconcileOrphan
    PROVE  IndInv'
<1>0. doc \in Docs /\ answers \subseteq Branches \X Nat
  BY DEF IndInv, TypeOK, Docs
<1>1. /\ UNCHANGED <<mem, retired, turn, dirty, lock, snap, branch, held, fired,
                     ctxDone, parentDone, collected, verdict, answers, entered,
                     phase>>
      /\ phase = "over" /\ doc' = [doc EXCEPT !.status = "failed"]
  BY DEF ReconcileOrphan, trunkVars
<1>2. /\ doc' \in Docs /\ doc'.status = "failed" /\ doc'.cp = doc.cp
      /\ doc'.fired = doc.fired
  BY <1>0, <1>1 DEF Docs, Statuses
<1> QED BY <1>0, <1>1, <1>2, GoneKeeps DEF Active, Phases

\* What recording an answer makes of the document, while it waits or after a
\* delivery has claimed it.
LEMMA AnsweredFields ==
    ASSUME NEW d \in Docs
    PROVE  LET cp == [d.cp EXCEPT !.answered = TRUE]
               e == [d EXCEPT !.cp = cp]
           IN  /\ cp \in Checkpoints
               /\ cp.cur = d.cp.cur /\ cp.done = d.cp.done
               /\ cp.pending = d.cp.pending /\ cp.answered
               /\ cp.asked = d.cp.asked
               /\ e \in Docs /\ e.cp = cp
               /\ e.status = d.status /\ e.fired = d.fired /\ e.ptr = d.ptr
<1> DEFINE cp == [d.cp EXCEPT !.answered = TRUE]
           e == [d EXCEPT !.cp = cp]
<1>1. /\ cp \in Checkpoints
      /\ cp.cur = d.cp.cur /\ cp.done = d.cp.done
      /\ cp.pending = d.cp.pending /\ cp.answered
      /\ cp.asked = d.cp.asked
  BY DEF Docs, Checkpoints
<1> HIDE DEF cp
<1>2. /\ e \in Docs /\ e.cp = cp
      /\ e.status = d.status /\ e.fired = d.fired /\ e.ptr = d.ptr
  BY <1>1 DEF Docs
<1> QED BY <1>1, <1>2 DEF cp

\* The pending gate of a sound checkpoint is a node of its branch.
LEMMA GateIsPlace ==
    ASSUME NEW cp \in Checkpoints, cp.pending # None
    PROVE  Gate(cp) \in Branches \X Nat
BY DEF Gate, Checkpoints

\* So does an answer recorded while the run is paused.
LEMMA RecordAnswerKeeps ==
    ASSUME IndInv, RecordAnswer
    PROVE  IndInv'
<1>0. doc \in Docs /\ doc.cp \in Checkpoints /\ answers \subseteq Branches \X Nat
      /\ phase \in Phases
  BY DEF IndInv, TypeOK, Docs
<1>1. /\ UNCHANGED <<mem, retired, turn, dirty, lock, snap, branch, held, fired,
                     ctxDone, parentDone, collected, verdict, entered, phase>>
      /\ phase \in {"over", "down"} /\ doc.cp.pending # None
      /\ answers' = answers \cup {Gate(doc.cp)}
  BY DEF RecordAnswer, Stopped, trunkVars
<1> DEFINE cp == [doc.cp EXCEPT !.answered = TRUE]
<1>2. doc' = [doc EXCEPT !.cp = cp]
  BY DEF RecordAnswer
<1>3. /\ doc' \in Docs /\ doc'.cp.cur = doc.cp.cur /\ doc'.cp.done = doc.cp.done
      /\ doc'.cp.pending = doc.cp.pending
      /\ doc'.status = doc.status /\ doc'.fired = doc.fired /\ doc'.ptr = doc.ptr
  BY <1>0, <1>2, AnsweredFields
<1> HIDE DEF cp
<1>4. answers' \subseteq Branches \X Nat
  BY <1>0, <1>1, GateIsPlace
<1> QED BY <1>0, <1>1, <1>3, <1>4, GoneKeeps DEF Active

\* What a claim makes of the document.
LEMMA ClaimedFields ==
    ASSUME NEW d \in Docs
    PROVE  LET e == [d EXCEPT !.status = "running", !.ptr = FALSE]
           IN  /\ e \in Docs /\ e.status = "running" /\ e.cp = d.cp
               /\ e.fired = d.fired /\ ~e.ptr
BY DEF Docs, Statuses

\* So does a delivery's claim of a paused run.
LEMMA ClaimFirstKeeps ==
    ASSUME IndInv, ClaimFirst
    PROVE  IndInv'
<1>0. doc \in Docs /\ answers \subseteq Branches \X Nat
  BY DEF IndInv, TypeOK, Docs
<1>1. /\ UNCHANGED <<mem, retired, turn, dirty, lock, snap, branch, held, fired,
                     ctxDone, parentDone, collected, verdict, answers, entered>>
      /\ phase' = "claimed" /\ doc.cp.pending # None /\ entered < MaxInvocations
      /\ doc' = [doc EXCEPT !.status = "running", !.ptr = FALSE]
  BY DEF ClaimFirst, Stopped
<1>2. /\ doc' \in Docs /\ doc'.status = "running" /\ doc'.cp = doc.cp
      /\ doc'.fired = doc.fired
  BY <1>0, <1>1, ClaimedFields
<1> QED BY <1>0, <1>1, <1>2, GoneKeeps DEF Active, Phases

-----------------------------------------------------------------------------
(* The router is entered again.                                            *)

\* The goroutines of a new invocation have read nothing yet.
LEMMA FreshFields ==
    /\ FreshBranch.pc = "start" /\ FreshBranch.pos = 1 /\ FreshBranch.res = "none"
    /\ ~FreshBranch.ans /\ ~FreshBranch.gate
    /\ FreshInvocation.done = {} /\ FreshInvocation.pending = None
    /\ ~FreshInvocation.asked /\ ~FreshInvocation.answered
    /\ \A b \in Branches : FreshInvocation.cur[b] = 1
    /\ \A w \in Branches \cup {Saver} : Unlocked[w] = FreshInvocation
BY DEF FreshBranch, FreshInvocation, Unlocked

\* The barrier is armed for the branch with a recorded answer, and for no other.
LEMMA TurnFields ==
    ASSUME NEW cp \in Checkpoints
    PROVE  /\ TurnOf(cp) \in Turns
           /\ cp.pending # None /\ cp.answered => TurnOf(cp).of = cp.pending
BY DEF TurnOf, Turns, Checkpoints

\* A router entered on a sound checkpoint that is the stored one, but for the
\* answer that may have failed to land, restores the invariant.
LEMMA EnteredSound ==
    ASSUME NEW cp \in Checkpoints, EnterRouter(cp),
           doc' \in Docs, doc'.status = "running",
           doc'.cp.cur = cp.cur, doc'.cp.done = cp.done,
           \A b \in Branches : cp.cur[b] \in 1 .. End(b),
           fired' \in BOOLEAN,
           \A b \in Branches, p \in Nat :
              p \in 1 .. Len(Prog[b]) /\ Node(b, p) = "emit" /\ cp.cur[b] > p
                => doc'.fired /\ fired',
           CheckpointInv(mem)', CheckpointInv(doc.cp)',
           answers' \subseteq Branches \X Nat,
           entered' \in 0 .. MaxInvocations
    PROVE  IndInv'
<1>1. /\ mem' = cp /\ turn' = TurnOf(cp)
      /\ branch' = [b \in Branches |-> FreshBranch]
      /\ held' = {} /\ collected' = {} /\ verdict' = "none" /\ phase' = "collect"
      /\ lock' = None /\ snap' = Unlocked /\ retired' = FALSE /\ dirty' = "clean"
      /\ ctxDone' = FALSE /\ parentDone' = FALSE
  BY DEF EnterRouter
<1>2. \A b \in Branches :
        /\ branch'[b].pc = "start" /\ branch'[b].pos = 1
        /\ branch'[b].res = "none" /\ ~branch'[b].ans /\ ~branch'[b].gate
  BY <1>1, FreshFields
<1>3. /\ turn' \in Turns
      /\ cp.pending # None /\ cp.answered => turn'.of = cp.pending
  BY <1>1, TurnFields
<1>4. TypeOK'
  <2>1. branch' \in [Branches -> Cells]
    BY <1>1, Fresh
  <2>2. snap' \in [Branches \cup {Saver} -> Checkpoints]
    BY <1>1, Fresh
  <2>3. \A b \in Branches : branch'[b].pos \in 1 .. End(b)
    BY <1>2, Ends
  <2> QED BY <1>1, <1>3, <2>1, <2>2, <2>3
          DEF TypeOK, Docs, Turns, Cells, Phases, Verdicts, End
<1>5. CursorInv'
  <2> SUFFICES ASSUME NEW b \in Branches
               PROVE  /\ mem'.cur[b] \in 1 .. End(b)
                      /\ doc'.cp.cur[b] \in 1 .. End(b)
                      /\ \A w \in Branches \cup {Saver} :
                            snap'[w].cur[b] \in 1 .. End(b)
    BY DEF CursorInv, End
  <2> QED BY <1>1, FreshFields, Ends
<1>6. PathInv'
  <2> SUFFICES ASSUME NEW b \in Branches PROVE PathOf(b, branch'[b])
    BY DEF PathInv, PathOf, Node, End
  <2> QED BY <1>2, Ends DEF PathOf
<1>7. ClaimInv' /\ LockInv'
  BY <1>1, <1>2, BranchesAssumption DEF ClaimInv, LockInv, Writing
<1>8. MemoryInv'
  <2>1. Behind(doc'.cp, mem')
    BY <1>1 DEF Behind, Checkpoints
  <2> QED BY <2>1 DEF MemoryInv, Behind
<1>9. PlaceInv'
  BY <1>2 DEF PlaceInv, PlaceOf, Placed, Visiting
<1>10. AnswerInv'
  BY <1>1, <1>2, <1>3 DEF AnswerInv, AnswerOf
<1>11. PauseInv'
  BY DEF PauseInv
<1>12. VerdictInv'
  BY <1>1, <1>2 DEF VerdictInv, Active
<1>13. SignalInv'
  BY <1>1, <1>2 DEF SignalInv, Placed, Visiting, Node
<1> QED BY <1>4, <1>5, <1>6, <1>7, <1>8, <1>9, <1>10, <1>11, <1>12, <1>13
        DEF IndInv

\* The facts every entry reads off the stored document.
LEMMA StoredSound ==
    ASSUME IndInv
    PROVE  /\ doc \in Docs /\ doc.cp \in Checkpoints /\ doc.fired \in BOOLEAN
           /\ \A b \in Branches : doc.cp.cur[b] \in 1 .. End(b)
           /\ \A b \in Branches, p \in Nat :
                p \in 1 .. Len(Prog[b]) /\ Node(b, p) = "emit"
                  /\ doc.cp.cur[b] > p => doc.fired
           /\ CheckpointInv(doc.cp)
           /\ answers \subseteq Branches \X Nat
           /\ entered \in 0 .. MaxInvocations /\ MaxInvocations \in Nat
BY ParametersAssumption
   DEF IndInv, TypeOK, Docs, CursorInv, SignalInv, MemoryInv

\* A resume of an answered pause or of a failure keeps the inductive invariant.
LEMMA ResumeKeeps ==
    ASSUME IndInv, ClaimAnswered \/ ResumeFailed
    PROVE  IndInv'
<1>0. /\ doc \in Docs /\ doc.cp \in Checkpoints /\ doc.fired \in BOOLEAN
      /\ \A b \in Branches : doc.cp.cur[b] \in 1 .. End(b)
      /\ \A b \in Branches, p \in Nat :
           p \in 1 .. Len(Prog[b]) /\ Node(b, p) = "emit"
             /\ doc.cp.cur[b] > p => doc.fired
      /\ CheckpointInv(doc.cp)
      /\ answers \subseteq Branches \X Nat
      /\ entered \in 0 .. MaxInvocations /\ MaxInvocations \in Nat
  BY StoredSound
<1>1. /\ EnterRouter(doc.cp) /\ answers' = answers /\ entered < MaxInvocations
      /\ fired' = doc.fired /\ entered' = entered + 1 /\ mem' = doc.cp
  BY DEF ClaimAnswered, ResumeFailed, Stopped, EnterRouter, RestoreEvents
<1>2. /\ doc' \in Docs /\ doc'.status = "running" /\ doc'.cp = doc.cp
      /\ doc'.fired = doc.fired
  <2>1. CASE ClaimAnswered
    <3>1. doc' = [doc EXCEPT !.status = "running", !.ptr = FALSE]
      BY <2>1 DEF ClaimAnswered
    <3> QED BY <1>0, <3>1, ClaimedFields
  <2>2. CASE ResumeFailed
    <3>1. doc' = [doc EXCEPT !.status = "running"]
      BY <2>2 DEF ResumeFailed
    <3> QED BY <1>0, <3>1 DEF Docs, Statuses
  <2> QED BY <2>1, <2>2
<1>3. CheckpointInv(mem)' /\ CheckpointInv(doc.cp)'
  BY <1>0, <1>1, <1>2 DEF CheckpointInv, Gate, IsGate, Node
<1>4. entered' \in 0 .. MaxInvocations
  BY <1>0, <1>1
<1>5. fired' \in BOOLEAN /\ answers' \subseteq Branches \X Nat
  BY <1>0, <1>1
<1>6. /\ \A b \in Branches : doc.cp.cur[b] \in 1 .. End(b)
      /\ \A b \in Branches, p \in Nat :
           p \in 1 .. Len(Prog[b]) /\ Node(b, p) = "emit" /\ doc.cp.cur[b] > p
             => doc'.fired /\ fired'
  BY <1>0, <1>1, <1>2
<1> QED BY <1>0, <1>1, <1>2, <1>3, <1>4, <1>5, <1>6, EnteredSound

\* So does a delivery's resume, whether or not its write of the answer lands.
LEMMA PersistAnswerKeeps ==
    ASSUME IndInv, PersistAnswer
    PROVE  IndInv'
<1>0. /\ doc \in Docs /\ doc.cp \in Checkpoints /\ doc.fired \in BOOLEAN
      /\ \A b \in Branches : doc.cp.cur[b] \in 1 .. End(b)
      /\ \A b \in Branches, p \in Nat :
           p \in 1 .. Len(Prog[b]) /\ Node(b, p) = "emit"
             /\ doc.cp.cur[b] > p => doc.fired
      /\ CheckpointInv(doc.cp)
      /\ answers \subseteq Branches \X Nat
      /\ entered \in 0 .. MaxInvocations /\ MaxInvocations \in Nat
  BY StoredSound
<1> DEFINE cp == [doc.cp EXCEPT !.answered = TRUE]
<1>1. /\ phase = "claimed" /\ EnterRouter(cp)
      /\ doc' = doc \/ doc' = [doc EXCEPT !.cp = cp]
      /\ answers' = answers \cup {Gate(doc.cp)}
      /\ fired' = doc.fired /\ entered' = entered + 1 /\ mem' = cp
  BY DEF PersistAnswer, EnterRouter, RestoreEvents
<1>2. /\ doc.status = "running" /\ doc.cp.pending # None
      /\ entered < MaxInvocations
  BY <1>1 DEF IndInv, ClaimInv
<1>3. /\ cp \in Checkpoints
      /\ cp.cur = doc.cp.cur /\ cp.done = doc.cp.done
      /\ cp.pending = doc.cp.pending
  BY <1>0, AnsweredFields
<1>4. /\ doc' \in Docs /\ doc'.status = "running" /\ doc'.fired = doc.fired
      /\ doc'.cp \in {doc.cp, cp}
  BY <1>0, <1>1, <1>2, AnsweredFields
<1> HIDE DEF cp
<1>5. /\ doc'.cp.cur = cp.cur /\ doc'.cp.done = cp.done
      /\ doc'.cp.pending = cp.pending
  BY <1>3, <1>4
<1>6. CheckpointInv(mem)' /\ CheckpointInv(doc.cp)'
  BY <1>0, <1>1, <1>3, <1>5 DEF CheckpointInv, Gate, IsGate, Node
<1>7. entered' \in 0 .. MaxInvocations
  BY <1>0, <1>1, <1>2
<1>8. fired' \in BOOLEAN /\ answers' \subseteq Branches \X Nat
  BY <1>0, <1>1, <1>2, GateIsPlace
<1>9. /\ \A b \in Branches : cp.cur[b] \in 1 .. End(b)
      /\ \A b \in Branches, p \in Nat :
           p \in 1 .. Len(Prog[b]) /\ Node(b, p) = "emit" /\ cp.cur[b] > p
             => doc'.fired /\ fired'
  BY <1>0, <1>1, <1>3, <1>4
<1> QED BY <1>1, <1>3, <1>4, <1>5, <1>6, <1>7, <1>8, <1>9, EnteredSound

-----------------------------------------------------------------------------
(* The invariant.                                                          *)

\* The first invocation starts in the inductive invariant.
LEMMA InitSound == Init => IndInv
<1> SUFFICES ASSUME Init PROVE IndInv
  OBVIOUS
<1>1. /\ doc = [status |-> "running", cp |-> FreshInvocation, fired |-> FALSE,
                ptr |-> FALSE]
      /\ mem = FreshInvocation /\ turn = TurnOf(FreshInvocation)
      /\ branch = [b \in Branches |-> FreshBranch]
      /\ snap = Unlocked /\ lock = None /\ retired = FALSE /\ dirty = "clean"
      /\ held = {} /\ collected = {} /\ answers = {}
      /\ fired = FALSE /\ ctxDone = FALSE /\ parentDone = FALSE
      /\ phase = "collect" /\ verdict = "none" /\ entered = 0
  BY DEF Init
<1>2. \A b \in Branches :
        /\ branch[b].pc = "start" /\ branch[b].pos = 1
        /\ branch[b].res = "none" /\ ~branch[b].ans /\ ~branch[b].gate
  BY <1>1, FreshFields
<1>3. /\ doc \in Docs /\ doc.status = "running" /\ doc.cp = FreshInvocation
      /\ doc.fired = FALSE
  BY <1>1, Fresh DEF Docs, Statuses
<1>4. TypeOK
  <2>1. branch \in [Branches -> Cells]
    BY <1>1, Fresh
  <2>2. snap \in [Branches \cup {Saver} -> Checkpoints] /\ mem \in Checkpoints
    BY <1>1, Fresh
  <2>3. \A b \in Branches : branch[b].pos \in 1 .. End(b)
    BY <1>2, Ends
  <2>4. turn \in Turns
    BY <1>1, Fresh, TurnFields
  <2>5. entered \in 0 .. MaxInvocations
    BY <1>1, ParametersAssumption
  <2> QED BY <1>1, <1>3, <2>1, <2>2, <2>3, <2>4, <2>5
          DEF TypeOK, Docs, Turns, Cells, Phases, Verdicts
<1>5. CursorInv
  BY <1>1, <1>3, FreshFields, Ends DEF CursorInv
<1>6. PathInv
  BY <1>2, Ends DEF PathInv, PathOf
<1>7. ClaimInv /\ LockInv
  BY <1>1, <1>2, BranchesAssumption DEF ClaimInv, LockInv, Writing
<1>8. CheckpointInv(FreshInvocation)
  BY FreshFields DEF CheckpointInv, IsGate
<1>9. MemoryInv
  BY <1>1, <1>3, <1>8, FreshFields DEF MemoryInv, Behind
<1>10. PlaceInv /\ AnswerInv
  BY <1>1, <1>2, FreshFields
     DEF PlaceInv, PlaceOf, Placed, Visiting, AnswerInv, AnswerOf
<1>11. PauseInv /\ VerdictInv
  BY <1>1, <1>2, <1>3 DEF PauseInv, VerdictInv, Active
<1>12. SignalInv
  BY <1>1, <1>2, <1>3, FreshFields DEF SignalInv, Placed, Visiting
<1> QED BY <1>4, <1>5, <1>6, <1>7, <1>9, <1>10, <1>11, <1>12 DEF IndInv

\* Every step keeps the inductive invariant.
LEMMA StepSound == IndInv /\ [Next]_vars => IndInv'
<1> SUFFICES ASSUME IndInv, [Next]_vars PROVE IndInv'
  OBVIOUS
<1>1. CASE UNCHANGED vars
  <2>1. UNCHANGED <<doc, mem, retired, turn, dirty, lock, snap, branch, held, fired,
          ctxDone, parentDone, phase, collected, verdict, answers, entered>>
    BY <1>1 DEF vars
  <2>2. TypeOK' /\ CursorInv' /\ ClaimInv' /\ LockInv'
    BY <2>1 DEF IndInv, TypeOK, CursorInv, ClaimInv, LockInv, End
  <2>3. (PathInv /\ PlaceInv /\ AnswerInv /\ CheckpointInv(mem))'
    BY <2>1, GoroutinesStay
  <2>4. MemoryInv'
    BY <2>1, <2>3, DocumentStays DEF MemoryInv, Active, Behind, IndInv
  <2>5. PauseInv' /\ VerdictInv' /\ SignalInv'
    BY <2>1 DEF IndInv, PauseInv, VerdictInv, SignalInv, Active,
                Node
  <2> QED BY <2>2, <2>3, <2>4, <2>5 DEF IndInv
<1>2. ASSUME Running, NEW b \in Branches, BranchStep(b) PROVE IndInv'
  BY <1>2, BranchKeeps
<1>3. CASE Running /\ SaverStep
  BY <1>3, SaverKeeps
<1>4. CASE TrunkStep
  BY <1>4, CollectorKeeps, FlushKeeps, SettleKeeps DEF TrunkStep
<1>5. CASE ContextEnds
  BY <1>5, CollectorKeeps
<1>6. CASE Crash \/ ReconcileOrphan \/ RecordAnswer \/ ClaimFirst
  BY <1>6, CrashKeeps, ReconcileKeeps, RecordAnswerKeeps, ClaimFirstKeeps
<1>7. CASE ClaimAnswered \/ ResumeFailed \/ PersistAnswer
  BY <1>7, ResumeKeeps, PersistAnswerKeeps
<1> QED BY <1>1, <1>2, <1>3, <1>4, <1>5, <1>6, <1>7 DEF Next, Recovery

\* The inductive invariant holds throughout.
THEOREM Inductive == Spec => []IndInv
BY InitSound, StepSound, PTL DEF Spec

-----------------------------------------------------------------------------
(* What the invariant says of every reachable state.                       *)

\* Every variable of the fan-out stays in its range.
THEOREM TypeCorrect == Spec => []TypeOK
<1>1. IndInv => TypeOK
  BY DEF IndInv
<1> QED BY <1>1, Inductive, PTL

\* A run that waits for a human can be answered, whatever its siblings wrote
\* after the pause (beginPause, PauseRun, SaveCheckpoint).
THEOREM PauseAnswerable == Spec => []PausedIsAnswerable
<1>1. IndInv => PausedIsAnswerable
  BY DEF IndInv, PauseInv, MemoryInv, CheckpointInv, PausedIsAnswerable
<1> QED BY <1>1, Inductive, PTL

\* No stored cursor is past a gate that nobody answered (branch resume,
\* checkpointResumedBranch).
THEOREM GatesAnswered == Spec => []GateNeedsAnswer
<1>1. IndInv => GateNeedsAnswer
  <2> SUFFICES ASSUME IndInv, NEW b \in Branches, NEW p \in 1 .. Len(Prog[b]),
                      Node(b, p) = "human", doc.cp.cur[b] > p
               PROVE  <<b, p>> \in answers
    BY DEF GateNeedsAnswer
  <2>1. p \in Nat /\ IsGate(b, p) /\ p < doc.cp.cur[b]
    BY Ends DEF IsGate, IndInv, TypeOK, Checkpoints
  <2> QED BY <2>1 DEF IndInv, MemoryInv, CheckpointInv
<1> QED BY <1>1, Inductive, PTL

\* No emitted event is lost to a restart (runEvents, its snapshot in
\* SaveCheckpoint).
THEOREM SignalsKept == Spec => []NoLostSignal
<1>1. IndInv => NoLostSignal
  <2> SUFFICES ASSUME IndInv, NEW b \in Branches, NEW p \in 1 .. Len(Prog[b]),
                      Node(b, p) = "emit", doc.cp.cur[b] > p
               PROVE  doc.fired
    BY DEF NoLostSignal
  <2> QED BY Ends DEF IndInv, SignalInv
<1> QED BY <1>1, Inductive, PTL

\* A branch left running, or with an ambiguous effect, stops the run, and the
\* invocation's last write, landed or refused, leaves nothing that is driven
\* again by itself (collectBranches, failRunErrWithCheckpoint, unpersisted).
THEOREM AmbiguityStops == Spec => UndecidedStops
<1>1. IndInv /\ [Next]_vars =>
        [phase = "settle" /\ phase' = "over"
           /\ (\E b \in Branches : b \notin collected \/ branch[b].res = "undecided")
         => /\ verdict = "undecided"
            /\ \/ doc'.status \in {"undecided", "ended"}
               \/ Fault("store") /\ doc' = doc]_vars
  <2> SUFFICES ASSUME IndInv, Next, phase = "settle", phase' = "over",
                      NEW b \in Branches,
                      b \notin collected \/ branch[b].res = "undecided"
               PROVE  /\ verdict = "undecided"
                      /\ \/ doc'.status \in {"undecided", "ended"}
                         \/ Fault("store") /\ doc' = doc
    OBVIOUS
  <2>1. verdict = "undecided"
    BY DEF IndInv, VerdictInv
  <2>2. Settle
    <3>1. ASSUME NEW c \in Branches, BranchStep(c) PROVE phase' = phase
      BY <3>1, BranchFrame DEF trunkVars
    <3>2. CASE SaverStep
      BY <3>2 DEF SaverStep, SaverWrites, SaverLands, trunkVars
    <3>3. CASE TrunkStep \/ ContextEnds
      BY <3>3 DEF TrunkStep, CollectResult, EndCollect, Retire, Flush, ContextEnds
    <3>4. CASE Crash \/ ClaimFirst \/ Recovery
      BY <3>4 DEF Crash, ClaimFirst, Recovery, RecordAnswer, ClaimAnswered,
                  PersistAnswer, ResumeFailed, ReconcileOrphan, Stopped
    <3> QED BY <3>1, <3>2, <3>3, <3>4 DEF Next
  <2>3. LastWrite
    BY <2>2, SettledFields
  <2> QED BY <2>1, <2>3 DEF LastWrite
<1> QED BY <1>1, Inductive, PTL DEF Spec, UndecidedStops

\* A wait_all join has every branch complete and no question open.
THEOREM JoinsComplete == Spec => []JoinComplete
<1>1. IndInv => JoinComplete
  BY DEF IndInv, VerdictInv, TypeOK, Checkpoints, MemoryInv, CheckpointInv,
         JoinComplete
<1> QED BY <1>1, Inductive, PTL

-----------------------------------------------------------------------------
(* What a step does to the document.                                       *)

\* A landed write of the memory: the status stays, and so does an open question.
Progressed ==
    /\ Active /\ answers' = answers
    /\ doc'.cp = mem
    /\ doc'.status = doc.status

\* A branch leaves the document alone, writes the memory, or asks its question.
LEMMA BranchDocument ==
    ASSUME IndInv, Running, NEW b \in Branches, BranchStep(b)
    PROVE  \/ UNCHANGED <<doc, answers>>
           \/ Progressed
           \/ /\ Active /\ answers' = answers /\ doc'.cp = mem
              /\ doc.status = "running" /\ doc'.status = "paused"
              /\ mem.pending = b /\ ~mem.answered
<1>0. /\ LockInv /\ AnswerInv /\ PauseInv /\ VerdictInv /\ phase \in Phases
      /\ b # None /\ PathOf(b, branch[b])
  BY AtBranch DEF IndInv, TypeOK
<1>1. answers' = answers
  BY BranchFrame
<1>2. doc' = doc \/ Written(b)
  BY Effects
<1>3. CASE Written(b)
  <2>1. Active
    BY <1>0, <1>3 DEF Written, LockInv, Running, Active, Phases
  <2>2. CASE doc'.status = doc.status
    BY <1>1, <1>3, <2>1, <2>2 DEF Written, Progressed
  <2>3. CASE doc'.status # doc.status
    <3>1. branch[b].pc = "pausing" /\ doc'.status = "paused" /\ doc'.cp = mem
      BY <1>3, <2>3 DEF Written
    <3>2. mem.pending = b /\ ~mem.answered
      BY <1>0, <3>1 DEF AnswerInv, AnswerOf
    <3>3. doc.status = "running"
      BY <1>0, <2>1, <2>3, <3>1 DEF VerdictInv
    <3> QED BY <1>1, <2>1, <3>1, <3>2, <3>3
  <2> QED BY <2>2, <2>3
<1> QED BY <1>1, <1>2, <1>3

\* The saver leaves the document alone or writes the memory.
LEMMA SaverDocument ==
    ASSUME IndInv, Running, SaverStep
    PROVE  UNCHANGED <<doc, answers>> \/ Progressed
<1>0. /\ LockInv /\ phase \in Phases /\ Saver # None
      /\ doc \in Docs /\ mem \in Checkpoints /\ fired \in BOOLEAN
  BY BranchesAssumption DEF IndInv, TypeOK, Docs
<1>1. CASE SaverWrites
  BY <1>1 DEF SaverWrites
<1>2. CASE SaverLands
  <2>1. lock = Saver /\ answers' = answers /\ doc' \in {doc, Stored(mem)}
    BY <1>0, <1>2 DEF SaverLands, Save, LockInv
  <2>2. Active
    BY <1>0, <2>1 DEF LockInv, Running, Active, Phases
  <2> QED BY <1>0, <2>1, <2>2, StoredFields DEF Progressed
<1> QED BY <1>1, <1>2 DEF SaverStep

\* So does the flush of a retired invocation.
LEMMA FlushDocument ==
    ASSUME IndInv, Flush
    PROVE  UNCHANGED <<doc, answers>> \/ Progressed
<1>0. doc \in Docs /\ mem \in Checkpoints /\ fired \in BOOLEAN
  BY DEF IndInv, TypeOK, Docs
<1>1. phase = "flush" /\ answers' = answers /\ doc' \in {doc, Stored(mem)}
  BY DEF Flush
<1> QED BY <1>0, <1>1, StoredFields DEF Progressed, Active

\* The stored checkpoint comes at least as far with every step.
LEMMA DocumentGrows ==
    ASSUME IndInv, Next
    PROVE  Behind(doc.cp, doc'.cp)
<1>0. /\ doc \in Docs /\ doc.cp \in Checkpoints
      /\ Active => Behind(doc.cp, mem)
  BY DEF IndInv, TypeOK, Docs, MemoryInv
<1>1. ASSUME doc'.cp.cur = doc.cp.cur, doc'.cp.done = doc.cp.done
      PROVE  Behind(doc.cp, doc'.cp)
  BY <1>0, <1>1 DEF Behind, Checkpoints
<1>2. ASSUME Active, doc'.cp = mem PROVE Behind(doc.cp, doc'.cp)
  BY <1>0, <1>2
<1>3. ASSUME Running, NEW b \in Branches, BranchStep(b)
      PROVE  Behind(doc.cp, doc'.cp)
  BY <1>1, <1>2, <1>3, BranchDocument DEF Progressed
<1>4. CASE Running /\ SaverStep
  BY <1>1, <1>2, <1>4, SaverDocument DEF Progressed
<1>5. CASE (\E b \in Branches : CollectResult(b)) \/ EndCollect \/ Retire
           \/ ContextEnds
  BY <1>1, <1>5 DEF CollectResult, EndCollect, Retire, ContextEnds
<1>6. CASE Flush
  BY <1>1, <1>2, <1>6, FlushDocument DEF Progressed
<1>7. CASE Settle
  <2>1. Active
    BY <1>7 DEF Settle, Active
  <2> QED BY <1>1, <1>2, <1>7, <2>1, SettledFields DEF LastWrite
<1>8. CASE Crash \/ ReconcileOrphan
  <2>1. CASE ReconcileOrphan
    <3>1. doc' = [doc EXCEPT !.status = "failed"]
      BY <2>1 DEF ReconcileOrphan
    <3> QED BY <1>0, <1>1, <3>1 DEF Docs
  <2> QED BY <1>1, <1>8, <2>1, CrashedFields
<1>9. CASE ClaimAnswered \/ ClaimFirst
  <2>1. doc' = [doc EXCEPT !.status = "running", !.ptr = FALSE]
    BY <1>9 DEF ClaimAnswered, ClaimFirst
  <2> QED BY <1>0, <1>1, <2>1, ClaimedFields
<1>10. CASE ResumeFailed
  <2>1. doc' = [doc EXCEPT !.status = "running"]
    BY <1>10 DEF ResumeFailed
  <2>2. doc'.cp = doc.cp
    BY <1>0, <2>1 DEF Docs
  <2> QED BY <1>1, <2>2
<1>11. CASE RecordAnswer \/ PersistAnswer
  <2> DEFINE cp == [doc.cp EXCEPT !.answered = TRUE]
  <2>1. doc' = doc \/ doc' = [doc EXCEPT !.cp = cp]
    BY <1>11 DEF RecordAnswer, PersistAnswer
  <2>2. CASE doc' = [doc EXCEPT !.cp = cp]
    BY <1>0, <1>1, <2>2, AnsweredFields
  <2> QED BY <1>1, <2>1, <2>2
<1> QED BY <1>3, <1>4, <1>5, <1>6, <1>7, <1>8, <1>9, <1>10, <1>11
        DEF Next, TrunkStep, Recovery

\* No durable write of branches, saver, trunk or restart takes a cursor or a
\* completion back (parallelExecutionState.save).
THEOREM NeverRegresses == Spec => DurableNeverRegresses
<1>1. IndInv /\ [Next]_vars =>
        [/\ \A b \in Branches : doc.cp.cur[b] <= doc'.cp.cur[b]
         /\ doc.cp.done \subseteq doc'.cp.done]_doc
  <2>1. CASE UNCHANGED vars
    BY <2>1 DEF vars
  <2>2. ASSUME IndInv, Next PROVE Behind(doc.cp, doc'.cp)
    BY <2>2, DocumentGrows
  <2> QED BY <2>1, <2>2 DEF Behind
<1> QED BY <1>1, Inductive, PTL DEF Spec, DurableNeverRegresses

\* Once an invocation is over, only an operator's answer and the scan for
\* orphans change the document.
LEMMA OverIsFinal ==
    ASSUME IndInv, Next, phase = "over", phase' = "over"
    PROVE  \/ doc' = doc
           \/ doc' = [doc EXCEPT !.cp.answered = TRUE]
           \/ doc.status = "running" /\ doc' = [doc EXCEPT !.status = "failed"]
<1>0. ~Active
  BY DEF Active
<1>1. ASSUME Running, NEW b \in Branches, BranchStep(b) PROVE doc' = doc
  BY <1>0, <1>1, BranchDocument DEF Progressed
<1>2. CASE Running /\ SaverStep
  BY <1>0, <1>2, SaverDocument DEF Progressed
<1>3. CASE TrunkStep \/ ContextEnds
  BY <1>3 DEF TrunkStep, CollectResult, EndCollect, Retire, Flush, Settle,
              ContextEnds
<1>4. CASE Crash \/ ClaimFirst \/ ClaimAnswered \/ ResumeFailed \/ PersistAnswer
  BY <1>4 DEF Crash, ClaimFirst, ClaimAnswered, ResumeFailed, PersistAnswer,
              EnterRouter
<1>5. CASE RecordAnswer \/ ReconcileOrphan
  BY <1>5 DEF RecordAnswer, ReconcileOrphan
<1> QED BY <1>1, <1>2, <1>3, <1>4, <1>5 DEF Next, Recovery

\* The branches an invocation leaves behind change nothing once it is over
\* (retire).
THEOREM EndIsFinal == Spec => EndsFinal
<1>1. IndInv /\ [Next]_vars =>
        [phase = "over" /\ phase' = "over" =>
           \/ doc' = doc
           \/ doc' = [doc EXCEPT !.cp.answered = TRUE]
           \/ doc.status = "running" /\ doc' = [doc EXCEPT !.status = "failed"]]_vars
  BY OverIsFinal
<1> QED BY <1>1, Inductive, PTL DEF Spec, EndsFinal

-----------------------------------------------------------------------------
(* The fan-out implements the journal.                                     *)

\* The question the journal shows for a document.
Question(d) ==
    IF d.status = "paused" THEN [gate |-> Gate(d.cp), answered |-> d.cp.answered]
    ELSE [gate |-> <<>>, answered |-> FALSE]

\* The gates of the journal are the gates of the paths.
LEMMA GatesAre ==
    /\ \A g \in Gates : /\ g[1] \in Branches /\ g[2] \in Nat
                        /\ IsGate(g[1], g[2]) /\ g = <<g[1], g[2]>>
    /\ \A b \in Branches, p \in Nat : IsGate(b, p) => <<b, p>> \in Gates
<1>1. ASSUME NEW g \in Gates
      PROVE  /\ g[1] \in Branches /\ g[2] \in Nat
             /\ IsGate(g[1], g[2]) /\ g = <<g[1], g[2]>>
  <2>1. PICK b \in Branches :
           g \in {<<b, p>> : p \in {q \in DOMAIN Prog[b] : IsGate(b, q)}}
    BY DEF Gates
  <2>2. PICK p \in DOMAIN Prog[b] : IsGate(b, p) /\ g = <<b, p>>
    BY <2>1
  <2>3. p \in Nat
    BY <2>2, Ends DEF IsGate
  <2> QED BY <2>2, <2>3
<1>2. ASSUME NEW b \in Branches, NEW p \in Nat, IsGate(b, p)
      PROVE  <<b, p>> \in Gates
  <2>1. p \in DOMAIN Prog[b]
    BY <1>2, ProgAssumption DEF IsGate
  <2> QED BY <1>2, <2>1 DEF Gates
<1> QED BY <1>1, <1>2

\* Every entry of the memory in the document is a step forward of the journal.
LEMMA MemoryIsForward ==
    ASSUME IndInv, Active, doc'.cp = mem
    PROVE  Journal!Forward
<1>1. Behind(doc.cp, mem) /\ CheckpointInv(mem)
  BY DEF IndInv, MemoryInv
<1>2. ASSUME NEW g \in Gates, g[2] < mem.cur[g[1]]
      PROVE  g \in answers
  BY <1>1, <1>2, GatesAre DEF CheckpointInv
<1> QED BY <1>1, <1>2 DEF Journal!Forward, Behind

\* A document whose checkpoint keeps its cursors goes forward as well.
LEMMA SameIsForward ==
    ASSUME IndInv, doc'.cp.cur = doc.cp.cur, doc'.cp.done = doc.cp.done
    PROVE  Journal!Forward
<1>1. doc.cp \in Checkpoints
  BY DEF IndInv, TypeOK
<1>2. \A b \in Branches : doc.cp.cur[b] \in Nat
  BY <1>1 DEF Checkpoints
<1>3. ASSUME NEW g \in Gates, doc.cp.cur[g[1]] <= g[2], g[2] < doc.cp.cur[g[1]]
      PROVE  FALSE
  BY <1>2, <1>3, GatesAre
<1> QED BY <1>2, <1>3 DEF Journal!Forward

\* A landed write of the memory is progress of the journal.
LEMMA ProgressIsJournal ==
    ASSUME IndInv, Progressed
    PROVE  Journal!Progress
<1>1. /\ doc \in Docs /\ mem \in Checkpoints /\ PauseInv /\ VerdictInv
  BY DEF IndInv, TypeOK, Docs
<1>2. Journal!Forward
  BY MemoryIsForward DEF Progressed
<1>3. doc.status \in {"running", "paused"}
  BY <1>1 DEF VerdictInv, Progressed
<1>4. Question(doc') = Question(doc)
  <2>1. CASE doc.status # "paused"
    BY <2>1 DEF Progressed, Question
  <2>2. CASE doc.status = "paused"
    <3>1. Gate(mem) = Gate(doc.cp)
      BY <1>1, <2>2 DEF PauseInv, Progressed, Gate
    <3>2. mem.answered = FALSE /\ doc.cp.answered = FALSE
      BY <1>1, <2>2 DEF PauseInv, Progressed, Docs, Checkpoints
    <3> QED BY <2>2, <3>1, <3>2 DEF Progressed, Question
  <2> QED BY <2>1, <2>2
<1> QED BY <1>2, <1>3, <1>4 DEF Journal!Progress, Progressed, Question

\* The initial document is an empty journal.
LEMMA InitIsJournal == Init => Journal!JournalInit
<1> SUFFICES ASSUME Init PROVE Journal!JournalInit
  OBVIOUS
<1>1. /\ doc.status = "running" /\ doc.cp = FreshInvocation /\ answers = {}
  BY DEF Init
<1>2. FreshInvocation.cur = [b \in Branches |-> 1] /\ FreshInvocation.done = {}
  BY DEF FreshInvocation
<1> QED BY <1>1, <1>2 DEF Journal!JournalInit, Journal!NoQuestion

\* The journal shows the document and the answers, and nothing else.
LEMMA StutterIsJournal ==
    ASSUME UNCHANGED <<doc, answers>>
    PROVE  UNCHANGED Journal!journal
BY DEF Journal!journal, Gate

\* Every step of the fan-out is a step of the journal or leaves it alone.
LEMMA StepIsJournal ==
    ASSUME IndInv, Next
    PROVE  Journal!JournalNext \/ UNCHANGED Journal!journal
<1>0. /\ doc \in Docs /\ doc.cp \in Checkpoints /\ mem \in Checkpoints
      /\ CheckpointInv(doc.cp) /\ CheckpointInv(mem)
      /\ PauseInv /\ VerdictInv /\ ClaimInv
  BY DEF IndInv, TypeOK, Docs, MemoryInv
<1> USE DEF Journal!JournalNext
<1>1. CASE UNCHANGED <<doc, answers>>
  BY <1>1, StutterIsJournal
<1>2. CASE Progressed
  BY <1>2, ProgressIsJournal
<1>3. ASSUME Running, NEW b \in Branches, BranchStep(b)
      PROVE  Journal!JournalNext \/ UNCHANGED Journal!journal
  <2>1. CASE /\ Active /\ answers' = answers /\ doc'.cp = mem
             /\ doc.status = "running" /\ doc'.status = "paused"
             /\ mem.pending = b /\ ~mem.answered
    <3> DEFINE g == <<b, mem.cur[b]>>
    <3>1. /\ IsGate(b, mem.cur[b]) /\ b \notin mem.done /\ mem.cur[b] \in Nat
      BY <1>0, <2>1, BranchesAssumption DEF CheckpointInv, Checkpoints
    <3>2. g \in Gates /\ g[1] = b /\ g[2] = mem.cur[b]
      BY <3>1, GatesAre
    <3>3. Journal!Forward
      BY <2>1, MemoryIsForward
    <3>4. mem.answered = FALSE /\ Gate(doc'.cp) = g
      BY <1>0, <2>1 DEF Checkpoints, Gate
    <3>5. Journal!Ask
      <4> SUFFICES /\ doc.status = "running" /\ doc'.status = "paused"
                   /\ doc'.cp.cur[g[1]] = g[2]
                   /\ g[1] \notin doc'.cp.done
                   /\ Question(doc') = [gate |-> g, answered |-> FALSE]
                   /\ answers' = answers
        BY <3>2, <3>3 DEF Journal!Ask, Question
      <4> QED BY <2>1, <3>1, <3>2, <3>4 DEF Question
    <3> QED BY <3>5
  <2> QED BY <1>1, <1>2, <1>3, <2>1, BranchDocument
<1>4. CASE Running /\ SaverStep
  BY <1>1, <1>2, <1>4, SaverDocument
<1>5. CASE (\E b \in Branches : CollectResult(b)) \/ EndCollect \/ Retire
           \/ ContextEnds
  BY <1>1, <1>5 DEF CollectResult, EndCollect, Retire, ContextEnds
<1>6. CASE Flush
  BY <1>1, <1>2, <1>6, FlushDocument
<1>7. CASE Settle
  <2>1. Active /\ answers' = answers /\ phase = "settle"
    BY <1>7 DEF Settle, Active
  <2>2. doc.status \in {"running", "paused"}
    BY <1>0, <2>1 DEF VerdictInv
  <2>3. CASE doc' = doc
    BY <1>1, <2>1, <2>3
  <2>4. CASE /\ verdict = "joined" /\ doc'.status = "joined"
             /\ doc'.cp = doc.cp
    <3>1. doc.status = "running"
      BY <1>0, <2>1, <2>2, <2>4 DEF VerdictInv
    <3> QED BY <2>1, <2>4, <3>1 DEF Journal!Join
  <2>5. CASE /\ doc'.status \in {"failed", "undecided", "ended"}
             /\ doc'.cp \in {mem, doc.cp}
    <3>1. Journal!Forward
      BY <2>1, <2>5, MemoryIsForward, SameIsForward
    <3> QED BY <2>1, <2>2, <2>5, <3>1 DEF Journal!Stop, Journal!NoQuestion
  <2> QED BY <1>7, <2>3, <2>4, <2>5, SettledFields DEF LastWrite
<1>8. CASE Crash \/ ReconcileOrphan
  <2>1. /\ doc'.cp = doc.cp /\ answers' = answers
        /\ doc'.status = IF doc.status = "running" THEN "failed" ELSE doc.status
    <3>1. CASE Crash
      BY <3>1, CrashedFields DEF Crash
    <3>2. CASE ReconcileOrphan
      <4>1. /\ doc' = [doc EXCEPT !.status = "failed"] /\ doc.status = "running"
            /\ answers' = answers
        BY <3>2 DEF ReconcileOrphan
      <4> QED BY <1>0, <4>1 DEF Docs
    <3> QED BY <1>8, <3>1, <3>2
  <2>2. CASE doc.status = "running"
    <3>1. Journal!Forward
      BY <2>1, SameIsForward
    <3> QED BY <2>1, <2>2, <3>1 DEF Journal!Stop, Journal!NoQuestion
  <2>3. CASE doc.status # "running"
    BY <2>1, <2>3 DEF Journal!journal, Gate
  <2> QED BY <2>2, <2>3
<1>9. CASE ClaimAnswered \/ ClaimFirst
  <2>1. /\ doc' = [doc EXCEPT !.status = "running", !.ptr = FALSE]
        /\ doc.status = "paused" /\ answers' = answers
    BY <1>9 DEF ClaimAnswered, ClaimFirst
  <2>2. doc'.status = "running" /\ doc'.cp = doc.cp
    BY <1>0, <2>1, ClaimedFields
  <2> QED BY <2>1, <2>2 DEF Journal!Claim, Journal!NoQuestion
<1>10. CASE ResumeFailed
  <2>1. /\ doc' = [doc EXCEPT !.status = "running"] /\ answers' = answers
        /\ doc.status \in {"failed", "undecided"}
    BY <1>10 DEF ResumeFailed
  <2>2. doc'.status = "running" /\ doc'.cp = doc.cp
    BY <1>0, <2>1 DEF Docs
  <2> QED BY <2>1, <2>2 DEF Journal!Resume
<1>11. CASE RecordAnswer
  <2> DEFINE cp == [doc.cp EXCEPT !.answered = TRUE]
  <2>1. /\ doc' = [doc EXCEPT !.cp = cp] /\ doc.status = "paused"
        /\ ~doc.cp.answered /\ answers' = answers \cup {Gate(doc.cp)}
    BY <1>11 DEF RecordAnswer
  <2>2. /\ doc'.cp.cur = doc.cp.cur /\ doc'.cp.done = doc.cp.done
        /\ doc'.cp.pending = doc.cp.pending /\ doc'.cp.answered
        /\ doc'.cp.answered \in BOOLEAN /\ doc'.status = doc.status
    BY <1>0, <2>1, AnsweredFields DEF Checkpoints
  <2> HIDE DEF cp
  <2>3. Gate(doc'.cp) = Gate(doc.cp) /\ doc'.cp.answered = TRUE
    BY <2>2 DEF Gate
  <2>4. /\ Question(doc) = [gate |-> Gate(doc.cp), answered |-> doc.cp.answered]
        /\ Question(doc') = [gate |-> Gate(doc.cp), answered |-> TRUE]
    BY <2>1, <2>2, <2>3 DEF Question
  <2>5. Question(doc') = [Question(doc) EXCEPT !.answered = TRUE]
    <3> DEFINE R == [gate: {Gate(doc.cp)}, answered: BOOLEAN]
               q == Question(doc)
    <3>1. doc.cp.answered \in BOOLEAN
      BY <1>0 DEF Checkpoints
    <3>2. q \in R /\ q.gate = Gate(doc.cp)
      BY <2>4, <3>1
    <3>3. /\ Question(doc') \in R /\ Question(doc').gate = Gate(doc.cp)
          /\ Question(doc').answered = TRUE
      BY <2>4
    <3> HIDE DEF q
    <3>4. [q EXCEPT !.answered = TRUE] = Question(doc')
      BY <3>2, <3>3
    <3> QED BY <3>4 DEF q
  <2>6. ~Question(doc).answered /\ Question(doc).gate = Gate(doc.cp)
    BY <2>1, <2>4
  <2>7. Journal!Answer
    BY <2>1, <2>2, <2>5, <2>6 DEF Journal!Answer, Question
  <2> QED BY <2>7
<1>12. CASE PersistAnswer
  <2> DEFINE cp == [doc.cp EXCEPT !.answered = TRUE]
             g == Gate(doc.cp)
  <2>1. /\ phase = "claimed" /\ answers' = answers \cup {g}
        /\ doc' = doc \/ doc' = [doc EXCEPT !.cp = cp]
    BY <1>12 DEF PersistAnswer
  <2>2. doc.status = "running" /\ doc.cp.pending \in Branches
    BY <1>0, <2>1 DEF ClaimInv, Checkpoints
  <2>3. /\ doc'.cp.cur = doc.cp.cur /\ doc'.cp.done = doc.cp.done
        /\ doc'.status = doc.status
    <3>1. CASE doc' = doc
      BY <3>1
    <3>2. CASE doc' = [doc EXCEPT !.cp = cp]
      BY <1>0, <3>2, AnsweredFields
    <3> QED BY <2>1, <3>1, <3>2
  <2> HIDE DEF cp
  <2>4. IsGate(doc.cp.pending, doc.cp.cur[doc.cp.pending])
        /\ doc.cp.cur[doc.cp.pending] \in Nat
    BY <1>0, <2>2, BranchesAssumption DEF CheckpointInv, Checkpoints
  <2>5. g \in Gates /\ doc.cp.cur[g[1]] = g[2]
    BY <2>2, <2>4, GatesAre DEF Gate
  <2> HIDE DEF g
  <2>6. Journal!AnswerClaimed
    BY <2>1, <2>2, <2>3, <2>5 DEF Journal!AnswerClaimed
  <2> QED BY <2>6
<1> QED BY <1>3, <1>4, <1>5, <1>6, <1>7, <1>8, <1>9, <1>10, <1>11, <1>12
        DEF Next, TrunkStep, Recovery

\* Goroutines, saver and restarts show a reader of the document nothing but
\* steps of the journal: the fan-out implements RunJournal.
THEOREM ImplementsJournal == Spec => KeepsJournal
<1>1. Init => Journal!JournalInit
  BY InitIsJournal
<1>2. IndInv /\ [Next]_vars => [Journal!JournalNext]_(Journal!journal)
  <2>1. CASE UNCHANGED vars
    <3>1. UNCHANGED <<doc, answers>>
      BY <2>1 DEF vars
    <3> QED BY <3>1, StutterIsJournal
  <2>2. ASSUME IndInv, Next
        PROVE  Journal!JournalNext \/ UNCHANGED Journal!journal
    BY <2>2, StepIsJournal
  <2> QED BY <2>1, <2>2
<1> QED BY <1>1, <1>2, Inductive, PTL DEF Spec, KeepsJournal, Journal!JournalSpec
=============================================================================
