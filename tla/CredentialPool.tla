--------------------------- MODULE CredentialPool ---------------------------
(***************************************************************************)
(* The credential pool's accounting (pkg/credpool): what a donor's daily   *)
(* quota and ledger see of the runs that borrow their credential.          *)
(*                                                                         *)
(* An attempt <<r, n>> is the n-th submission of run r, the launch being   *)
(* the first and every resume another.  A submission (pkg/server/          *)
(* cloudpublisher) acquires a grant, publishes the attempt, and undoes     *)
(* both when the publication fails; the runners that execute the attempt   *)
(* report what it spent (pkg/runner), after it may have been cancelled and *)
(* resumed; the sweeper closes leases nobody reported.  All of them meet   *)
(* in the lease documents and in the ledger, each access of which is one   *)
(* atomic store operation.                                                 *)
(*                                                                         *)
(* Leases are numbered in the order of their acquisition, which the        *)
(* acquisition floor keeps strict within a run (nextAcquiredAt), and a     *)
(* publication is placed in that order, as by servers whose clocks agree:  *)
(* nothing floors it against a publication.  Which pledge is preferred,    *)
(* availability, the spend ceilings and the concurrency reading, all of    *)
(* which decline softly, are a choice.  Reservation, refund and charge all  *)
(* use the ledger of the acquisition's own day: one day is modelled.       *)
(***************************************************************************)
EXTENDS Integers, Sequences, FiniteSets

CONSTANTS
    Runs,
    Pledges,
    NoPledge,
    Submissions,    \* [Runs -> Nat]: how often a run may be submitted
    MaxSubmissions, \* bound on the submissions of all runs together
    MaxRunsPerDay,  \* the donors' limit
    MaxDeliver      \* [Attempts -> Nat]: bound on an attempt's deliveries

Attempts == UNION {{r} \X (1 .. Submissions[r]) : r \in Runs}

ASSUME PoolAssumption ==
    /\ Submissions \in [Runs -> Nat] /\ MaxSubmissions \in Nat
    /\ MaxRunsPerDay \in Nat \ {0}
    /\ MaxDeliver \in [Attempts -> Nat]
    /\ NoPledge \notin Pledges

VARIABLES
    used,       \* the ledger: each pledge's runs of the day
    leases,     \* every lease, in the order of acquisition
    doc,        \* the run documents: their status and attempt marker
    sub,        \* the submission of each attempt, as far as it got
    msg,        \* what was published of it, and when
    deliv,      \* its deliveries: those begun, those still executing
    reports,    \* the reports that have read their lease and not yet written
    overlapped  \* history: runs submitted again before a submission returned

vars == <<used, leases, doc, sub, msg, deliv, reports, overlapped>>

Ids == DOMAIN leases

Outcomes ==
    {"open", "ok", "abandoned", "superseded", "superseded_reported",
     "superseded_grantless", "not_launched"}

\* Mutant: a returned grant still counts as an admission.
NonAdmissionButNotLaunched == {"abandoned", "superseded"}

\* The closes that do not count as "this pledge already admitted this run".
nonAdmissionOutcomes == {"abandoned", "not_launched", "superseded"}

Idle == [pc |-> "idle", tried |-> {}, took |-> {},
         pledge |-> NoPledge, unit |-> FALSE, lease |-> 0, prior |-> 0]
Returned == [Idle EXCEPT !.pc = "returned"]

InFlight(a) == sub[a].pc \notin {"idle", "returned"}

Init ==
    /\ used = [p \in Pledges |-> 0]
    /\ leases = <<>>
    /\ doc = [r \in Runs |-> [status |-> "none", marker |-> 0]]
    /\ sub = [a \in Attempts |-> Idle]
    /\ msg = [a \in Attempts |-> [kind |-> "none", at |-> 0]]
    /\ deliv = [a \in Attempts |-> [begun |-> 0, executing |-> 0]]
    /\ reports = {}
    /\ overlapped = {}

-----------------------------------------------------------------------------
(* The lease store.                                                        *)

OpenOf(r) == {i \in Ids : leases[i].run = r /\ leases[i].outcome = "open"}

\* Close as the given outcome those of the leases S that are still open; by
\* is the acquisition or the publication that takes their run over.
Closed(S, outcome, by) ==
    [i \in Ids |-> IF i \in S /\ leases[i].outcome = "open"
                   THEN [leases[i] EXCEPT !.outcome = outcome, !.by = by]
                   ELSE leases[i]]

\* Mutant: the reopening does not compare the close it undoes.
ReopenedAlways(S, a) ==
    [i \in Ids |-> IF i \in S
                   THEN [leases[i] EXCEPT !.outcome = "open", !.by = 0]
                   ELSE leases[i]]

\* Reopen what acquisition a superseded and nobody has reported since.
Reopened(S, a) ==
    [i \in Ids |-> IF /\ i \in S
                      /\ leases[i].outcome = "superseded"
                      /\ leases[i].by = a[2]
                   THEN [leases[i] EXCEPT !.outcome = "open", !.by = 0]
                   ELSE leases[i]]

HasServedAttempt(r, p) ==
    \E i \in Ids : /\ leases[i].run = r
                   /\ leases[i].pledge = p
                   /\ leases[i].outcome \notin nonAdmissionOutcomes

\* ReleaseRun: one unit back, never below zero.
GiveBack(p) == [used EXCEPT ![p] = IF @ > 0 THEN @ - 1 ELSE @]

-----------------------------------------------------------------------------
(* A submission: the flip to queued, then Acquire.                         *)

SubKeeps == UNCHANGED <<deliv, reports>>

Launch == 1

BoundLeft ==
    Cardinality({a \in Attempts : sub[a].pc # "idle"}) < MaxSubmissions

\* SubmitResume flips a resumable run to queued before it acquires;
\* SubmitLaunch acquires before the document exists.
Submit(a) ==
    LET r == a[1] IN
    /\ sub[a].pc = "idle" /\ BoundLeft
    /\ a[2] # Launch => sub[<<r, a[2] - 1>>].pc # "idle"
    /\ doc[r].status = IF a[2] = Launch THEN "none" ELSE "resumable"
    /\ sub' = [sub EXCEPT ![a] = [Idle EXCEPT !.pc = "supersede",
                                              !.prior = doc[r].marker]]
    /\ doc' = IF a[2] = Launch THEN doc
              ELSE [doc EXCEPT ![r] = [status |-> "queued", marker |-> a[2]]]
    /\ overlapped' = IF \E b \in Attempts : b[1] = r /\ InFlight(b)
                     THEN overlapped \cup {r} ELSE overlapped
    /\ UNCHANGED <<used, leases, msg>>
    /\ SubKeeps

\* Mutant: the acquisition leaves the leases it takes over open.
SupersedeNothing(a) ==
    /\ sub[a].pc = "supersede"
    /\ sub' = [sub EXCEPT ![a].pc = "choose", ![a].took = OpenOf(a[1])]
    /\ UNCHANGED <<leases, used, doc, msg, overlapped>>
    /\ SubKeeps

\* Acquire closes the run's open leases before it judges the admission.
SupersedeOpenLeases(a) ==
    /\ sub[a].pc = "supersede"
    /\ leases' = Closed(OpenOf(a[1]), "superseded", a[2])
    /\ sub' = [sub EXCEPT ![a].pc = "choose", ![a].took = OpenOf(a[1])]
    /\ UNCHANGED <<used, doc, msg, overlapped>>
    /\ SubKeeps

\* tryPledge, a run this pledge has served: Renew takes no unit.
Renew(a, p) ==
    /\ sub[a].pc = "choose" /\ p \notin sub[a].tried
    /\ HasServedAttempt(a[1], p)
    /\ \/ sub' = [sub EXCEPT ![a].pc = "put", ![a].pledge = p,
                             ![a].unit = FALSE]
       \/ sub' = [sub EXCEPT ![a].tried = @ \cup {p}]
    /\ UNCHANGED <<used, leases, doc, msg, overlapped>>
    /\ SubKeeps

Declined(x) == [x EXCEPT !.pc = "choose", !.tried = @ \cup {x.pledge},
                         !.pledge = NoPledge, !.unit = FALSE]

\* Mutant: the limit is compared with the count before this run.
ReserveJudgesBefore(a, p) ==
    /\ sub[a].pc = "choose" /\ p \notin sub[a].tried
    /\ ~HasServedAttempt(a[1], p)
    /\ used' = [used EXCEPT ![p] = @ + 1]
    /\ \E pc \in {"put", "roll back"} :
          /\ pc = "put" => used[p] <= MaxRunsPerDay
          /\ sub' = [sub EXCEPT ![a] = [@ EXCEPT !.pc = pc, !.pledge = p,
                                                 !.unit = TRUE]]
    /\ UNCHANGED <<leases, doc, msg, overlapped>>
    /\ SubKeeps

\* Mutant: only an admission counts, and the decline is rolled back all the
\* same.
ReserveCountsAdmitted(a, p) ==
    /\ sub[a].pc = "choose" /\ p \notin sub[a].tried
    /\ ~HasServedAttempt(a[1], p)
    /\ \E pc \in {"put", "roll back"} :
          /\ pc = "put" => used[p] < MaxRunsPerDay
          /\ used' = [used EXCEPT ![p] = IF pc = "put" THEN @ + 1 ELSE @]
          /\ sub' = [sub EXCEPT ![a] = [@ EXCEPT !.pc = pc, !.pledge = p,
                                                 !.unit = TRUE]]
    /\ UNCHANGED <<leases, doc, msg, overlapped>>
    /\ SubKeeps

\* tryPledge, a new run: Reserve counts it and judges the count it made.  A
\* spend ceiling may decline it as well.
Reserve(a, p) ==
    /\ sub[a].pc = "choose" /\ p \notin sub[a].tried
    /\ ~HasServedAttempt(a[1], p)
    /\ used' = [used EXCEPT ![p] = @ + 1]
    /\ \E pc \in {"put", "roll back"} :
          /\ pc = "put" => used'[p] <= MaxRunsPerDay
          /\ sub' = [sub EXCEPT ![a] = [@ EXCEPT !.pc = pc, !.pledge = p,
                                                 !.unit = TRUE]]
    /\ UNCHANGED <<leases, doc, msg, overlapped>>
    /\ SubKeeps

\* The decline of a Reserve rolls its increment back.
Rollback(a) ==
    /\ sub[a].pc = "roll back"
    /\ used' = [used EXCEPT ![sub[a].pledge] = @ - 1]
    /\ sub' = [sub EXCEPT ![a] = Declined(@)]
    /\ UNCHANGED <<leases, doc, msg, overlapped>>
    /\ SubKeeps

\* A credential that does not open, or a lease that is not recorded, gives
\* the reservation back and the walk goes on.
Unusable(a) ==
    /\ sub[a].pc = "put"
    /\ used' = IF sub[a].unit THEN GiveBack(sub[a].pledge) ELSE used
    /\ sub' = [sub EXCEPT ![a] = Declined(@)]
    /\ UNCHANGED <<leases, doc, msg, overlapped>>
    /\ SubKeeps

Acquired(a) == IF a[2] = Launch THEN "save" ELSE "publish"

\* The lease is recorded: the acquisition returns its grant.
Put(a) ==
    /\ sub[a].pc = "put"
    /\ leases' = Append(leases,
                        [run |-> a[1], att |-> a[2], pledge |-> sub[a].pledge,
                         unit |-> sub[a].unit, outcome |-> "open", by |-> 0,
                         settled |-> 0, payers |-> {}])
    /\ sub' = [sub EXCEPT ![a] = [@ EXCEPT !.pc = Acquired(a), !.tried = {},
                                           !.pledge = NoPledge,
                                           !.unit = FALSE,
                                           !.lease = Len(leases) + 1]]
    /\ UNCHANGED <<used, doc, msg, overlapped>>
    /\ SubKeeps

\* No pledge serves: Acquire reopens what it superseded, and the submission
\* goes on without a grant.
NoDonor(a) ==
    /\ sub[a].pc = "choose"
    /\ leases' = Reopened(sub[a].took, a)
    /\ sub' = [sub EXCEPT ![a] = [@ EXCEPT !.pc = Acquired(a), !.tried = {},
                                           !.took = {}]]
    /\ UNCHANGED <<used, doc, msg, overlapped>>
    /\ SubKeeps

-----------------------------------------------------------------------------
(* The publication, and the undoing of one that fails.                     *)

\* SaveRun: the launch's document appears, queued.
SaveRun(a) ==
    /\ sub[a].pc = "save"
    /\ doc' = [doc EXCEPT ![a[1]] = [status |-> "queued", marker |-> Launch]]
    /\ sub' = [sub EXCEPT ![a].pc = "publish"]
    /\ UNCHANGED <<used, leases, msg, overlapped>>
    /\ SubKeeps

\* The publication's instant follows its own lease; another acquisition of
\* the run may come before it or after.
Published(a) ==
    IF sub[a].lease = 0
    THEN msg' = [msg EXCEPT ![a] = [kind |-> "grantless", at |-> 0]]
    ELSE \E at \in sub[a].lease .. Len(leases) :
            msg' = [msg EXCEPT ![a] = [kind |-> "granted", at |-> at]]

Publish(a) ==
    /\ sub[a].pc = "publish"
    /\ Published(a)
    /\ sub' = [sub EXCEPT ![a] = IF sub[a].lease = 0 /\ a[2] # Launch
                                 THEN [Idle EXCEPT !.pc = "take over"]
                                 ELSE Returned]
    /\ UNCHANGED <<used, leases, doc, overlapped>>
    /\ SubKeeps

\* The submission is refused, or its publication reports an error, which it
\* may also do after the message has landed.
SubmissionFails(a) ==
    /\ \/ sub[a].pc \in {"save", "publish"} /\ UNCHANGED msg
       \/ sub[a].pc = "publish" /\ Published(a)
    /\ sub' = [sub EXCEPT ![a].pc = IF a[2] = Launch THEN "fail launch"
                                    ELSE "release"]
    /\ UNCHANGED <<used, leases, doc, overlapped>>
    /\ SubKeeps

\* FailRunAtLaunchIf: a row that is still queued ends.
FailRunAtLaunch(a) ==
    /\ sub[a].pc = "fail launch"
    /\ doc' = IF doc[a[1]].status = "queued"
              THEN [doc EXCEPT ![a[1]].status = "failed"] ELSE doc
    /\ sub' = [sub EXCEPT ![a].pc = "release"]
    /\ UNCHANGED <<used, leases, msg, overlapped>>
    /\ SubKeeps

\* ReleaseGrant: the lease's close is won, and only a unit it took
\* goes back.
ReleaseGrant(a) ==
    LET i == sub[a].lease IN
    /\ sub[a].pc = "release"
    /\ sub' = [sub EXCEPT ![a] = IF a[2] = Launch THEN Returned
                                 ELSE [@ EXCEPT !.pc = "revert"]]
    /\ IF i # 0 /\ leases[i].outcome = "open"
       THEN /\ leases' = Closed({i}, "not_launched", 0)
            /\ used' = IF leases[i].unit
                       THEN GiveBack(leases[i].pledge) ELSE used
       ELSE UNCHANGED <<leases, used>>
    /\ UNCHANGED <<doc, msg, overlapped>>
    /\ SubKeeps

\* RevertQueuedFlip undoes this resume's own flip while the run is still
\* queued under it; only then is what the grant superseded reopened.
RevertQueuedFlip(a) ==
    LET r == a[1]
        own == doc[r] = [status |-> "queued", marker |-> a[2]]
    IN
    /\ sub[a].pc = "revert"
    /\ doc' = IF own
              THEN [doc EXCEPT ![r] = [status |-> "resumable",
                                       marker |-> sub[a].prior]]
              ELSE doc
    /\ sub' = [sub EXCEPT ![a] = IF own /\ sub[a].took # {}
                                 THEN [Idle EXCEPT !.pc = "reopen",
                                                   !.took = sub[a].took]
                                 ELSE Returned]
    /\ UNCHANGED <<used, leases, msg, overlapped>>
    /\ SubKeeps

ReopenSuperseded(a) ==
    /\ sub[a].pc = "reopen"
    /\ leases' = Reopened(sub[a].took, a)
    /\ sub' = [sub EXCEPT ![a] = Returned]
    /\ UNCHANGED <<used, doc, msg, overlapped>>
    /\ SubKeeps

\* A resume published without a grant ends the previous attempt's lease.
SupersedeRun(a) ==
    /\ sub[a].pc = "take over"
    /\ leases' = Closed(OpenOf(a[1]), "superseded_grantless", a[2])
    /\ sub' = [sub EXCEPT ![a] = Returned]
    /\ UNCHANGED <<used, doc, msg, overlapped>>
    /\ SubKeeps

\* The server dies during the submission: nothing is given back.
ServerDies(a) ==
    /\ InFlight(a)
    /\ sub' = [sub EXCEPT ![a] = Returned]
    /\ UNCHANGED <<used, leases, doc, msg, overlapped>>
    /\ SubKeeps

-----------------------------------------------------------------------------
(* The runners and the operator.                                           *)

RunKeeps == UNCHANGED <<used, sub, msg, overlapped>>

\* A delivery executes unless a newer attempt of its run was queued.
Execute(a) ==
    /\ msg[a].kind # "none"
    /\ deliv[a].begun < MaxDeliver[a]
    /\ doc[a[1]].status # "failed"
    /\ doc[a[1]].marker <= a[2]
    /\ deliv' = [deliv EXCEPT ![a].begun = @ + 1, ![a].executing = @ + 1]
    /\ doc' = [doc EXCEPT ![a[1]].status = "running"]
    /\ UNCHANGED <<leases, reports>>
    /\ RunKeeps

\* The run fails, pauses or is cancelled: an operator may resume it while
\* its engine still unwinds, or its submission has not returned.  It is of no
\* consequence here when no submission is left.
Stops(r) ==
    /\ BoundLeft /\ \E a \in Attempts : a[1] = r /\ sub[a].pc = "idle"
    /\ doc[r].status \in {"queued", "running"}
    /\ doc' = [doc EXCEPT ![r].status = "resumable"]
    /\ UNCHANGED <<leases, deliv, reports>>
    /\ RunKeeps

\* attemptLease: the run's newest lease acquired before the publication, or
\* else the open one.
AttemptLease(a) ==
    LET mine == {i \in Ids : leases[i].run = a[1] /\ i <= msg[a].at}
        pick == IF mine # {} THEN mine ELSE OpenOf(a[1])
    IN {i \in pick : \A j \in pick : j <= i}

\* An execution ends; that of a pod that died does not.  A delivery with a
\* grant reads the lease it reports to; interim says the queue hands the same
\* bundle out again.
EndExecution(a, interim) ==
    /\ deliv[a].executing > 0
    /\ interim => deliv[a].begun < MaxDeliver[a]
    /\ deliv' = [deliv EXCEPT
                   ![a].executing = @ - 1,
                   ![a].begun = IF interim THEN @ ELSE MaxDeliver[a]]
    /\ reports' = IF msg[a].kind = "granted"
                  THEN reports \cup {[att |-> a, lease |-> i,
                                      saw |-> leases[i].outcome,
                                      interim |-> interim,
                                      left |-> deliv[a].executing] :
                                     i \in AttemptLease(a)}
                  ELSE reports
    /\ UNCHANGED <<leases, doc>>
    /\ RunKeeps

Charged(l, a, settles) ==
    [l EXCEPT !.payers = @ \cup {a[2]},
              !.settled = IF settles THEN @ + 1 ELSE @]

\* ReportAttempt, the write: by what the report read of its lease.  Only the
\* report that wins the lease's CAS charges.
ReportAttempt(t) ==
    LET i == t.lease
        l == leases[i]
        stamps == {"superseded", "superseded_grantless"}
        takeover == t.saw = "superseded_grantless" /\ l.by = t.att[2]
    IN
    /\ reports' = reports \ {t}
    /\ leases' =
         CASE t.saw \in stamps /\ ~takeover /\ l.outcome \in stamps ->
                [leases EXCEPT ![i] =
                   [Charged(l, t.att, TRUE) EXCEPT
                      !.outcome = "superseded_reported", !.by = 0]]
           [] t.saw = "open" /\ t.interim ->
                [leases EXCEPT ![i] = Charged(l, t.att, FALSE)]
           [] t.saw = "open" /\ ~t.interim /\ l.outcome = "open" ->
                [leases EXCEPT ![i] =
                   [Charged(l, t.att, TRUE) EXCEPT !.outcome = "ok"]]
           [] OTHER -> leases
    /\ UNCHANGED <<doc, deliv>>
    /\ RunKeeps

-----------------------------------------------------------------------------
(* The sweeper.                                                            *)

\* ReleaseExpired: a lease past its expiry is closed and charges nothing.  No
\* submission lasts as long as a lease.
ReleaseExpired(i) ==
    /\ leases[i].outcome = "open"
    /\ ~InFlight(<<leases[i].run, leases[i].att>>)
    /\ leases' = Closed({i}, "abandoned", 0)
    /\ UNCHANGED <<doc, deliv, reports>>
    /\ RunKeeps

Next ==
    \/ \E a \in Attempts :
         \/ Submit(a)
         \/ SupersedeOpenLeases(a)
         \/ \E p \in Pledges : Renew(a, p) \/ Reserve(a, p)
         \/ Rollback(a)
         \/ Unusable(a)
         \/ Put(a)
         \/ NoDonor(a)
         \/ SaveRun(a)
         \/ Publish(a)
         \/ SubmissionFails(a)
         \/ FailRunAtLaunch(a)
         \/ ReleaseGrant(a)
         \/ RevertQueuedFlip(a)
         \/ ReopenSuperseded(a)
         \/ SupersedeRun(a)
         \/ ServerDies(a)
         \/ Execute(a)
         \/ \E interim \in BOOLEAN : EndExecution(a, interim)
    \/ \E r \in Runs : Stops(r)
    \/ \E t \in reports : ReportAttempt(t)
    \/ \E i \in Ids : ReleaseExpired(i)

Spec == Init /\ [][Next]_vars

-----------------------------------------------------------------------------
(* Properties.                                                             *)

Pcs == {"idle", "supersede", "choose", "roll back", "put", "save", "publish",
        "take over", "fail launch", "release", "revert", "reopen", "returned"}

LeaseDocs == [run : Runs, att : Nat, pledge : Pledges,
              unit : BOOLEAN, outcome : Outcomes, by : Nat,
              settled : Nat, payers : SUBSET Nat]

\* Every variable keeps its type; the ledger's counters stay natural, the
\* rollbacks and refunds notwithstanding.
TypeOK ==
    /\ used \in [Pledges -> Nat]
    /\ leases \in Seq(LeaseDocs)
    /\ doc \in [Runs -> [status : {"none", "queued", "running", "resumable",
                                    "failed"},
                          marker : Nat]]
    /\ sub \in [Attempts ->
                  [pc : Pcs, tried : SUBSET Pledges,
                   took : SUBSET Ids, pledge : Pledges \cup {NoPledge},
                   unit : BOOLEAN, lease : {0} \cup Ids,
                   prior : Nat]]
    /\ msg \in [Attempts -> [kind : {"none", "granted", "grantless"},
                              at : {0} \cup Ids]]
    /\ deliv \in [Attempts -> [begun : Nat, executing : Nat]]
    /\ \A t \in reports : t.att \in Attempts /\ t.lease \in Ids
    /\ overlapped \in SUBSET Runs

\* The units of a donor's day that were taken for a lease and not given back.
Standing(p) ==
    {i \in Ids : /\ leases[i].pledge = p
                 /\ leases[i].unit
                 /\ leases[i].outcome # "not_launched"}

\* The leases of a donor whose attempt was published, so that it may execute
\* on their credential.
Landed(p) ==
    {i \in Ids : /\ leases[i].pledge = p
                 /\ msg[<<leases[i].run, leases[i].att>>].kind = "granted"}

\* The runs that may execute on a donor's credential, those excepted whose
\* grant was given back although its publication had landed.
RunsServed(p) ==
    {leases[i].run : i \in Landed(p)}
      \ {leases[i].run : i \in {j \in Landed(p) :
                                  leases[j].outcome = "not_launched"}}

\* Whatever number of submissions reserve, roll back, renew and refund at the
\* same time, a donor's day has no more units out than they allowed, and no
\* more runs execute on their credential.  The second part is not claimed of a
\* run whose grant was given back on a publication that reported an error after
\* it had landed (publisher.go, SubmitLaunch and SubmitResume: a runner executes
\* it all the same, and its unit serves another run), nor of one whose
\* submissions overlapped.
DailyCeiling ==
    \A p \in Pledges :
        /\ Cardinality(Standing(p)) <= MaxRunsPerDay
        /\ Cardinality(RunsServed(p) \ overlapped) <= MaxRunsPerDay

\* A readmission that took no unit rests on one that was taken for its run
\* by the same donor and was never given back: else a run slips past the
\* donor's ceiling.  Overlapping submissions of one run can break it.
RenewalHasUnit ==
    \A i \in Ids :
        ~leases[i].unit /\ leases[i].run \notin overlapped =>
            \E j \in 1 .. i - 1 :
                /\ leases[j].run = leases[i].run
                /\ leases[j].pledge = leases[i].pledge
                /\ leases[j].unit
                /\ leases[j].outcome # "not_launched"

\* "A run never holds two open leases", while its submissions do not overlap:
\* a refused takeover's lease is closed before the one it superseded is
\* opened again, whatever the older attempt reports in between.
OneOpenLease ==
    \A r \in Runs \ overlapped : Cardinality(OpenOf(r)) <= 1

\* A lease is settled at most once however often its attempt is delivered,
\* superseded, reopened and reported; and while submissions of its run do not
\* overlap only the attempt it was acquired for charges its donor.
ChargedOnceToItsDonor ==
    \A i \in Ids :
        /\ leases[i].settled <= 1
        /\ leases[i].run \notin overlapped =>
              leases[i].payers \subseteq {leases[i].att}

\* A final report is charged unless its lease was given back or abandoned.
ReportedIsCharged ==
    [][\A t \in reports \ reports' :
         \/ t.interim
         \/ leases[t.lease].outcome \in {"not_launched", "abandoned"}
         \/ leases'[t.lease].settled > 0]_vars
=============================================================================
