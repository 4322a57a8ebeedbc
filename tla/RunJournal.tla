----------------------------- MODULE RunJournal ------------------------------
(***************************************************************************)
(* What the durable record of a fan-out promises to those who read it (the *)
(* operator, the studio, the next resume), with no goroutines, locks,      *)
(* snapshots or invocations: progress is never taken back, a gate is       *)
(* passed only on the answer to the question asked there, a question is    *)
(* asked by one branch at a time, and a joined fan-out is final.           *)
(* FanOut implements it.                                                   *)
(***************************************************************************)
EXTENDS Naturals

CONSTANTS Branches, Gates   \* Gates: the pairs <<branch, position>>

VARIABLES
    status,     \* the run's status
    cursor,     \* how far each branch has durably come
    complete,   \* the branches that reached the convergence node
    question,   \* while paused, the gate that asks and whether it is answered
    answered    \* the gates answered so far

journal == <<status, cursor, complete, question, answered>>

NoQuestion == [gate |-> <<>>, answered |-> FALSE]

JournalInit ==
    /\ status = "running"
    /\ cursor = [b \in Branches |-> 1]
    /\ complete = {}
    /\ question = NoQuestion
    /\ answered = {}

\* Cursors and completions grow, past answered gates only.
Forward ==
    /\ \A b \in Branches : cursor[b] <= cursor'[b]
    /\ complete \subseteq complete'
    /\ \A g \in Gates :
         cursor[g[1]] <= g[2] /\ g[2] < cursor'[g[1]] => g \in answered

\* SaveCheckpoint
Progress ==
    /\ status \in {"running", "paused"}
    /\ Forward
    /\ UNCHANGED <<status, question, answered>>

\* PauseRun: the branch that asks is parked on its gate.
Ask ==
    \E g \in Gates :
        /\ status = "running"
        /\ status' = "paused"
        /\ Forward
        /\ cursor'[g[1]] = g[2]
        /\ g[1] \notin complete'
        /\ question' = [gate |-> g, answered |-> FALSE]
        /\ UNCHANGED answered

\* The operator answers the one open question, once.
Answer ==
    /\ status = "paused"
    /\ ~question.answered
    /\ question' = [question EXCEPT !.answered = TRUE]
    /\ answered' = answered \cup {question.gate}
    /\ UNCHANGED <<status, cursor, complete>>

\* A resume claims the paused run.  A delivery claims before it records the
\* answer, which then lands while the run is running.
Claim ==
    /\ status = "paused"
    /\ status' = "running"
    /\ question' = NoQuestion
    /\ UNCHANGED <<cursor, complete, answered>>

AnswerClaimed ==
    /\ status = "running"
    /\ \E g \in Gates :
         /\ cursor[g[1]] = g[2]
         /\ answered' = answered \cup {g}
    /\ UNCHANGED <<status, cursor, complete, question>>

\* A failure, a cancellation, an undecided effect, the death of the process, or
\* an end that nothing resumes.
Stop ==
    /\ status \in {"running", "paused"}
    /\ status' \in {"failed", "undecided", "ended"}
    /\ Forward
    /\ question' = NoQuestion
    /\ UNCHANGED answered

Resume ==
    /\ status \in {"failed", "undecided"}
    /\ status' = "running"
    /\ UNCHANGED <<cursor, complete, question, answered>>

Join ==
    /\ status = "running"
    /\ status' = "joined"
    /\ UNCHANGED <<cursor, complete, question, answered>>

JournalNext ==
    \/ Progress \/ Ask \/ Answer \/ Claim \/ AnswerClaimed
    \/ Stop \/ Resume \/ Join

JournalSpec == JournalInit /\ [][JournalNext]_journal
=============================================================================
