------------------------- MODULE CredentialPoolProofs -------------------------
(***************************************************************************)
(* Proofs about CredentialPool, for any runs, donors, limits, numbers of   *)
(* submissions and of deliveries: type correctness, the donors' daily      *)
(* ceiling, the unit under every readmission, one open lease per run, and  *)
(* one settlement per lease, charged to its own attempt.                   *)
(***************************************************************************)
EXTENDS CredentialPool, FiniteSetTheorems, TLAPS

-----------------------------------------------------------------------------
(* The inductive invariant.                                                *)

ReportDocs == [att : Attempts, lease : Nat, saw : Outcomes,
               interim : BOOLEAN, left : Nat]

\* Submissions that hold a reserved unit of p, and those of them that were
\* admitted.
Holders(p)  == {a \in Attempts : sub[a].unit /\ sub[a].pledge = p}
Admitted(p) == {a \in Holders(p) : sub[a].pc = "put"}

\* A unit is held from the reservation to the lease or the decline, and the
\* registers of a submission are empty outside their stages.
HoldOf(a) ==
    /\ sub[a].unit => sub[a].pc \in {"put", "roll back"}
    /\ sub[a].pc = "roll back" => sub[a].unit
    /\ sub[a].pc \in {"put", "roll back"} => sub[a].pledge \in Pledges
    /\ sub[a].lease # 0 =>
          sub[a].pc \in {"save", "publish", "fail launch", "release", "revert"}
    /\ sub[a].took # {} /\ sub[a].lease = 0 =>
          sub[a].pc \in {"choose", "roll back", "put", "reopen"}

HoldInv == \A a \in Attempts : HoldOf(a)

\* The ledger covers every unit that stands or is held, and every unit that
\* was admitted fits the donor's limit.
CountInv ==
    \A p \in Pledges :
        /\ IsFiniteSet(Holders(p))
        /\ Cardinality(Standing(p)) + Cardinality(Holders(p)) <= used[p]
        /\ Cardinality(Standing(p)) + Cardinality(Admitted(p)) <= MaxRunsPerDay

\* Only the two outcomes of a report go with a settlement.
SettleInv ==
    \A i \in Ids :
        /\ leases[i].settled <= 1
        /\ leases[i].settled # 0 =>
              leases[i].outcome \in {"ok", "superseded_reported"}

\* The registers of a submission point to leases of its run, its own the
\* one it recorded.
OwnInv ==
    \A a \in Attempts :
        /\ \A i \in sub[a].took : leases[i].run = a[1]
        /\ sub[a].lease # 0 => /\ leases[sub[a].lease].run = a[1]
                               /\ leases[sub[a].lease].att = a[2]

\* One submission of a run at a time, unless the run was overlapped.
SerialInv ==
    \A a, b \in Attempts :
        /\ a[1] = b[1] /\ a[1] \notin overlapped
        /\ InFlight(a) /\ InFlight(b)
        => a = b

Newest(i) == \A j \in Ids : leases[j].run = leases[i].run => j <= i

\* Where the open lease of a run may be while a submission of it is in flight.
OpenInv ==
    \A r \in Runs \ overlapped :
        /\ \A i, j \in OpenOf(r) : i = j
        /\ \A a \in Attempts : a[1] = r /\ InFlight(a) =>
              /\ \A i, j \in sub[a].took : i = j
              /\ sub[a].pc \in {"choose", "roll back", "put", "reopen"} =>
                    OpenOf(r) = {}
              /\ sub[a].lease # 0 =>
                    /\ Newest(sub[a].lease)
                    /\ OpenOf(r) \subseteq {sub[a].lease}
                    /\ sub[a].pc = "revert" => OpenOf(r) = {}

\* A unit that was taken for run r by donor p, and not given back.
Covers(j, r, p) ==
    /\ leases[j].run = r
    /\ leases[j].pledge = p
    /\ leases[j].unit
    /\ leases[j].outcome # "not_launched"

\* A readmission, recorded or under way, is covered by an earlier unit.
CoverInv ==
    /\ \A i \in Ids :
          ~leases[i].unit /\ leases[i].run \notin overlapped =>
              \E j \in 1 .. i - 1 : Covers(j, leases[i].run, leases[i].pledge)
    /\ \A a \in Attempts :
          sub[a].pc = "put" /\ ~sub[a].unit /\ a[1] \notin overlapped =>
              \E j \in Ids : Covers(j, a[1], sub[a].pledge)

\* A granted message was published under the newest lease of its run, that
\* of its own attempt, and every report goes to the lease of its attempt.
ReportInv ==
    /\ reports \subseteq ReportDocs
    /\ \A a \in Attempts :
          msg[a].kind = "granted" /\ a[1] \notin overlapped =>
              \E i \in Ids : /\ i <= msg[a].at
                             /\ leases[i].run = a[1] /\ leases[i].att = a[2]
                             /\ \A j \in Ids : leases[j].run = a[1] /\ j <= msg[a].at
                                               => j <= i
    /\ \A t \in reports :
          /\ leases[t.lease].run = t.att[1]
          /\ t.att[1] \notin overlapped => leases[t.lease].att = t.att[2]
    /\ \A i \in Ids : leases[i].run \notin overlapped =>
          leases[i].payers \subseteq {leases[i].att}

IndInv ==
    /\ TypeOK /\ HoldInv /\ CountInv /\ SettleInv /\ OwnInv /\ SerialInv
    /\ OpenInv /\ CoverInv /\ ReportInv

-----------------------------------------------------------------------------
(* The operators.                                                          *)

\* An attempt is a run and the number of one of its submissions.
LEMMA AttemptParts ==
    ASSUME NEW a \in Attempts
    PROVE  a[1] \in Runs /\ a[2] \in Nat /\ a[2] >= 1
BY PoolAssumption DEF Attempts

\* A table of records over 1 .. n is a sequence of them.
LEMMA TableIsSeq ==
    ASSUME NEW S, NEW n \in Nat, NEW f \in [1 .. n -> S]
    PROVE  f \in Seq(S) /\ Len(f) = n
OBVIOUS

\* The leases are a table of lease documents.
LEMMA LeaseTable ==
    ASSUME leases \in Seq(LeaseDocs)
    PROVE  /\ Len(leases) \in Nat /\ Ids = 1 .. Len(leases)
           /\ \A i \in Ids : leases[i] \in LeaseDocs
BY DEF Ids

\* What a step may do to a lease that stays in the table, but for its outcome.
SameLease(i) ==
    /\ leases'[i].run = leases[i].run
    /\ leases'[i].att = leases[i].att
    /\ leases'[i].pledge = leases[i].pledge
    /\ leases'[i].unit = leases[i].unit

SameCharge(i) ==
    /\ leases'[i].settled = leases[i].settled
    /\ leases'[i].payers = leases[i].payers

\* Closing changes the outcome of the open leases among S and nothing else.
LEMMA ClosedFields ==
    ASSUME leases \in Seq(LeaseDocs), NEW S, NEW o \in Outcomes, NEW b \in Nat,
           leases' = Closed(S, o, b)
    PROVE  /\ leases' \in Seq(LeaseDocs) /\ Ids' = Ids
           /\ \A i \in Ids :
                 /\ SameLease(i) /\ SameCharge(i)
                 /\ leases'[i].outcome =
                       IF i \in S /\ leases[i].outcome = "open" THEN o
                       ELSE leases[i].outcome
<1>1. /\ Len(leases) \in Nat /\ Ids = 1 .. Len(leases)
      /\ \A i \in Ids : leases[i] \in LeaseDocs
  BY LeaseTable
<1>2. \A i \in Ids :
         /\ leases'[i] = IF i \in S /\ leases[i].outcome = "open"
                         THEN [leases[i] EXCEPT !.outcome = o, !.by = b]
                         ELSE leases[i]
         /\ leases'[i] \in LeaseDocs
  BY <1>1 DEF Closed, LeaseDocs
<1>3. leases' \in [1 .. Len(leases) -> LeaseDocs]
  BY <1>1, <1>2 DEF Closed
<1>4. leases' \in Seq(LeaseDocs) /\ Len(leases') = Len(leases)
  BY <1>1, <1>3, TableIsSeq
<1>5. Ids' = Ids
  BY <1>1, <1>3 DEF Ids
<1>6. ASSUME NEW i \in Ids
      PROVE  /\ SameLease(i) /\ SameCharge(i)
             /\ leases'[i].outcome =
                   IF i \in S /\ leases[i].outcome = "open" THEN o
                   ELSE leases[i].outcome
  BY <1>1, <1>2 DEF SameLease, SameCharge, LeaseDocs
<1> QED BY <1>4, <1>5, <1>6

\* Reopening opens those of S that acquisition a superseded and nothing else.
LEMMA ReopenedFields ==
    ASSUME leases \in Seq(LeaseDocs), NEW S, NEW a, leases' = Reopened(S, a)
    PROVE  /\ leases' \in Seq(LeaseDocs) /\ Ids' = Ids
           /\ \A i \in Ids :
                 /\ SameLease(i) /\ SameCharge(i)
                 /\ \/ leases'[i].outcome = leases[i].outcome
                    \/ /\ i \in S /\ leases[i].outcome = "superseded"
                       /\ leases'[i].outcome = "open"
<1>1. /\ Len(leases) \in Nat /\ Ids = 1 .. Len(leases)
      /\ \A i \in Ids : leases[i] \in LeaseDocs
  BY LeaseTable
<1>2. \A i \in Ids :
         /\ leases'[i] = IF /\ i \in S
                            /\ leases[i].outcome = "superseded"
                            /\ leases[i].by = a[2]
                         THEN [leases[i] EXCEPT !.outcome = "open", !.by = 0]
                         ELSE leases[i]
         /\ leases'[i] \in LeaseDocs
  <2>1. \A i \in Ids :
           leases'[i] = IF /\ i \in S
                           /\ leases[i].outcome = "superseded"
                           /\ leases[i].by = a[2]
                        THEN [leases[i] EXCEPT !.outcome = "open", !.by = 0]
                        ELSE leases[i]
    BY Zenon DEF Reopened
  <2>2. \A i \in Ids : [leases[i] EXCEPT !.outcome = "open", !.by = 0] \in LeaseDocs
    BY <1>1 DEF LeaseDocs, Outcomes
  <2> QED BY <1>1, <2>1, <2>2, Zenon
<1>3. leases' \in [1 .. Len(leases) -> LeaseDocs]
  BY <1>1, <1>2 DEF Reopened
<1>4. leases' \in Seq(LeaseDocs) /\ Len(leases') = Len(leases)
  BY <1>1, <1>3, TableIsSeq
<1>5. Ids' = Ids
  BY <1>1, <1>3 DEF Ids
<1>6. ASSUME NEW i \in Ids
      PROVE  /\ SameLease(i) /\ SameCharge(i)
             /\ \/ leases'[i].outcome = leases[i].outcome
                \/ /\ i \in S /\ leases[i].outcome = "superseded"
                   /\ leases'[i].outcome = "open"
  BY <1>1, <1>2 DEF SameLease, SameCharge, LeaseDocs
<1> QED BY <1>4, <1>5, <1>6

\* A charge adds its attempt to the payers, and settles when it is final.
LEMMA ChargedFields ==
    ASSUME NEW l \in LeaseDocs, NEW a, a[2] \in Nat
    PROVE  /\ Charged(l, a, TRUE) \in LeaseDocs
           /\ Charged(l, a, TRUE).run = l.run /\ Charged(l, a, TRUE).att = l.att
           /\ Charged(l, a, TRUE).pledge = l.pledge
           /\ Charged(l, a, TRUE).unit = l.unit
           /\ Charged(l, a, TRUE).payers = l.payers \cup {a[2]}
           /\ Charged(l, a, TRUE).settled = l.settled + 1
           /\ Charged(l, a, FALSE) \in LeaseDocs
           /\ Charged(l, a, FALSE).run = l.run /\ Charged(l, a, FALSE).att = l.att
           /\ Charged(l, a, FALSE).pledge = l.pledge
           /\ Charged(l, a, FALSE).unit = l.unit
           /\ Charged(l, a, FALSE).outcome = l.outcome
           /\ Charged(l, a, FALSE).payers = l.payers \cup {a[2]}
           /\ Charged(l, a, FALSE).settled = l.settled
<1> DEFINE paid == l.payers \cup {a[2]}
           sum == l.settled + 1
           same == l.settled
<1>1. /\ Charged(l, a, TRUE) = [l EXCEPT !.payers = paid, !.settled = sum]
      /\ Charged(l, a, FALSE) = [l EXCEPT !.payers = paid, !.settled = same]
  BY DEF Charged
<1>2. paid \in SUBSET Nat /\ sum \in Nat /\ same \in Nat
  BY DEF LeaseDocs
<1> HIDE DEF paid, sum, same
<1>3. ASSUME NEW n \in Nat, NEW m, m = [l EXCEPT !.payers = paid, !.settled = n]
      PROVE  /\ m \in LeaseDocs
             /\ m.run = l.run /\ m.att = l.att
             /\ m.pledge = l.pledge /\ m.unit = l.unit
             /\ m.outcome = l.outcome /\ m.payers = paid /\ m.settled = n
  BY <1>2, <1>3 DEF LeaseDocs
<1> DEFINE Has(m, n) ==
             /\ m \in LeaseDocs
             /\ m.run = l.run /\ m.att = l.att
             /\ m.pledge = l.pledge /\ m.unit = l.unit
             /\ m.outcome = l.outcome /\ m.payers = paid /\ m.settled = n
<1>4. Has(Charged(l, a, TRUE), sum)
  BY <1>1, <1>2, <1>3, Zenon
<1>5. Has(Charged(l, a, FALSE), same)
  BY <1>1, <1>2, <1>3, Zenon
<1> QED BY <1>4, <1>5, Zenon DEF paid, sum, same

\* A report's write settles an open or a superseded lease, adds its attempt to
\* those that charged it, or does nothing.
LEMMA ReportFields ==
    ASSUME leases \in Seq(LeaseDocs), NEW t \in ReportDocs, t.lease \in Ids,
           ReportAttempt(t)
    PROVE  /\ leases' \in Seq(LeaseDocs) /\ Ids' = Ids
           /\ \A i \in Ids :
                 /\ SameLease(i)
                 /\ i # t.lease => leases'[i] = leases[i]
           /\ LET l == leases[t.lease]  m == leases'[t.lease] IN
              \/ m = l
              \/ /\ m.outcome = l.outcome /\ m.settled = l.settled
                 /\ m.payers = l.payers \cup {t.att[2]}
              \/ /\ l.outcome \in {"open", "superseded", "superseded_grantless"}
                 /\ m.outcome \in {"ok", "superseded_reported"}
                 /\ m.settled = l.settled + 1
                 /\ m.payers = l.payers \cup {t.att[2]}
<1> DEFINE i == t.lease
           l == leases[i]
           stamps == {"superseded", "superseded_grantless"}
           takeover == t.saw = "superseded_grantless" /\ l.by = t.att[2]
           late == [Charged(l, t.att, TRUE) EXCEPT
                       !.outcome = "superseded_reported", !.by = 0]
           part == Charged(l, t.att, FALSE)
           full == [Charged(l, t.att, TRUE) EXCEPT !.outcome = "ok"]
           Keeps(m) == /\ m.run = l.run /\ m.att = l.att
                       /\ m.pledge = l.pledge /\ m.unit = l.unit
           Writes(m) == leases' = [leases EXCEPT ![i] = m]
<1>1. /\ Len(leases) \in Nat /\ Ids = 1 .. Len(leases) /\ i \in Ids
      /\ \A j \in Ids : leases[j] \in LeaseDocs
  BY LeaseTable
<1>2. t.att[2] \in Nat BY AttemptParts DEF ReportDocs
<1>3. /\ l \in LeaseDocs /\ l.settled \in Nat /\ l.payers \in SUBSET Nat
  BY <1>1 DEF LeaseDocs
<1>4. /\ part \in LeaseDocs /\ Keeps(part)
      /\ part.outcome = l.outcome /\ part.settled = l.settled
      /\ part.payers = l.payers \cup {t.att[2]}
  BY <1>2, <1>3, ChargedFields, Zenon
<1>5. /\ Charged(l, t.att, TRUE) \in LeaseDocs /\ Keeps(Charged(l, t.att, TRUE))
      /\ Charged(l, t.att, TRUE).settled = l.settled + 1
      /\ Charged(l, t.att, TRUE).payers = l.payers \cup {t.att[2]}
  BY <1>2, <1>3, ChargedFields, Zenon
<1>6. /\ late \in LeaseDocs /\ Keeps(late) /\ late.outcome = "superseded_reported"
      /\ late.settled = l.settled + 1 /\ late.payers = l.payers \cup {t.att[2]}
  BY <1>5 DEF LeaseDocs, Outcomes
<1>7. /\ full \in LeaseDocs /\ Keeps(full) /\ full.outcome = "ok"
      /\ full.settled = l.settled + 1 /\ full.payers = l.payers \cup {t.att[2]}
  BY <1>5 DEF LeaseDocs, Outcomes
<1>8. \/ leases' = leases
      \/ Writes(part)
      \/ l.outcome \in stamps /\ Writes(late)
      \/ l.outcome = "open" /\ Writes(full)
  <2>1. CASE t.saw \in stamps /\ ~takeover /\ l.outcome \in stamps
    <3>1. leases' = [leases EXCEPT ![i] = late]
      BY <2>1, Zenon DEF ReportAttempt
    <3> QED BY <2>1, <3>1
  <2>2. CASE t.saw = "open" /\ t.interim
    <3>1. t.saw \notin stamps BY <2>2
    <3>2. leases' = [leases EXCEPT ![i] = part]
      BY <2>2, <3>1, Zenon DEF ReportAttempt
    <3> QED BY <3>2
  <2>3. CASE t.saw = "open" /\ ~t.interim /\ l.outcome = "open"
    <3>1. t.saw \notin stamps BY <2>3
    <3>2. leases' = [leases EXCEPT ![i] = full]
      BY <2>3, <3>1, Zenon DEF ReportAttempt
    <3> QED BY <2>3, <3>2
  <2>4. CASE /\ ~(t.saw \in stamps /\ ~takeover /\ l.outcome \in stamps)
             /\ ~(t.saw = "open" /\ t.interim)
             /\ ~(t.saw = "open" /\ ~t.interim /\ l.outcome = "open")
    BY <2>4, Zenon DEF ReportAttempt
  <2> QED BY <2>1, <2>2, <2>3, <2>4
<1> HIDE DEF late, part, full
<1>9. ASSUME NEW m \in LeaseDocs, Keeps(m), Writes(m)
      PROVE  /\ leases' \in Seq(LeaseDocs) /\ Ids' = Ids /\ leases'[i] = m
             /\ \A j \in Ids : /\ SameLease(j)
                               /\ j # i => leases'[j] = leases[j]
  <2>1. leases' \in [1 .. Len(leases) -> LeaseDocs]
    BY <1>1, <1>9
  <2>2. leases' \in Seq(LeaseDocs) /\ Len(leases') = Len(leases)
    BY <1>1, <2>1, TableIsSeq
  <2>3. Ids' = Ids BY <1>1, <2>1 DEF Ids
  <2> QED BY <1>1, <1>9, <2>2, <2>3 DEF SameLease
<1>10. CASE leases' = leases
  BY <1>10 DEF SameLease, Ids
<1>11. CASE Writes(part)
  BY <1>4, <1>9, <1>11
<1>12. CASE l.outcome \in stamps /\ Writes(late)
  BY <1>6, <1>9, <1>12
<1>13. CASE l.outcome = "open" /\ Writes(full)
  BY <1>7, <1>9, <1>13
<1> QED BY <1>8, <1>10, <1>11, <1>12, <1>13

-----------------------------------------------------------------------------
(* What each step does to the submission it belongs to.                    *)

SubDocs(ids) ==
    [pc : Pcs, tried : SUBSET Pledges, took : SUBSET ids,
     pledge : Pledges \cup {NoPledge}, unit : BOOLEAN, lease : {0} \cup ids,
     prior : Nat]

\* The submission of a moves on with these registers, and no other does.
SubMove(a, pc, took, pledge, unit, lease) ==
    /\ sub' \in [Attempts -> SubDocs(Ids')]
    /\ \A b \in Attempts : b # a => sub'[b] = sub[b]
    /\ sub'[a].pc = pc /\ sub'[a].took = took /\ sub'[a].pledge = pledge
    /\ (sub'[a].unit <=> unit) /\ sub'[a].lease = lease

\* Writing a well-typed record into one submission moves that one alone.
LEMMA MoveOne ==
    ASSUME TypeOK, Ids \subseteq Ids', NEW a \in Attempts,
           NEW x \in SubDocs(Ids'), sub' = [sub EXCEPT ![a] = x]
    PROVE  SubMove(a, x.pc, x.took, x.pledge, x.unit, x.lease)
<1>1. \A b \in Attempts : sub[b] \in SubDocs(Ids')
  <2>1. \A b \in Attempts : sub[b] \in SubDocs(Ids)
    BY DEF TypeOK, SubDocs
  <2>2. SubDocs(Ids) \subseteq SubDocs(Ids')
    BY DEF SubDocs
  <2> QED BY <2>1, <2>2
<1>2. DOMAIN sub = Attempts BY DEF TypeOK
<1>3. sub' \in [Attempts -> SubDocs(Ids')] /\ sub'[a] = x
  BY <1>1, <1>2
<1>4. \A b \in Attempts : b # a => sub'[b] = sub[b]
  BY <1>2
<1> QED BY <1>3, <1>4 DEF SubMove

\* The registers of a submission have their types.
LEMMA SubTypes ==
    ASSUME TypeOK, Ids \subseteq Ids', NEW a \in Attempts
    PROVE  /\ sub[a] \in SubDocs(Ids) /\ sub[a] \in SubDocs(Ids')
           /\ Idle \in SubDocs(Ids') /\ Returned \in SubDocs(Ids')
           /\ OpenOf(a[1]) \subseteq Ids'
<1>1. sub[a] \in SubDocs(Ids) BY DEF TypeOK, SubDocs
<1>2. sub[a] \in SubDocs(Ids') BY <1>1 DEF SubDocs
<1>3. Idle \in SubDocs(Ids') BY DEF Idle, SubDocs, Pcs
<1>4. Returned \in SubDocs(Ids') BY DEF Returned, Idle, SubDocs, Pcs
<1>5. OpenOf(a[1]) \subseteq Ids' BY DEF OpenOf
<1> QED BY <1>1, <1>2, <1>3, <1>4, <1>5

\* Submit starts a submission with empty registers.
LEMMA MoveSubmit ==
    ASSUME TypeOK, Ids \subseteq Ids', NEW a \in Attempts, Submit(a)
    PROVE  SubMove(a, "supersede", {}, NoPledge, FALSE, 0)
<1> DEFINE x == [Idle EXCEPT !.pc = "supersede", !.prior = doc[a[1]].marker]
<1>1. doc[a[1]].marker \in Nat BY AttemptParts DEF TypeOK
<1>2. /\ x \in SubDocs(Ids')
      /\ x.pc = "supersede" /\ x.took = {} /\ x.pledge = NoPledge
      /\ x.unit = FALSE /\ x.lease = 0
  BY <1>1 DEF Idle, SubDocs, Pcs
<1>3. sub' = [sub EXCEPT ![a] = x] BY DEF Submit
<1> HIDE DEF x
<1>4. SubMove(a, x.pc, x.took, x.pledge, x.unit, x.lease) BY <1>2, <1>3, MoveOne
<1> QED BY <1>2, <1>4

\* SupersedeOpenLeases remembers the leases that it takes over.
LEMMA MoveSupersede ==
    ASSUME TypeOK, Ids \subseteq Ids', NEW a \in Attempts, SupersedeOpenLeases(a)
    PROVE  SubMove(a, "choose", OpenOf(a[1]), sub[a].pledge, sub[a].unit,
                   sub[a].lease)
<1> DEFINE o == OpenOf(a[1])
           x == [sub[a] EXCEPT !.pc = "choose", !.took = o]
<1>1. sub[a] \in SubDocs(Ids') /\ o \subseteq Ids' BY SubTypes
<1> HIDE DEF o
<1>2. /\ x \in SubDocs(Ids')
      /\ x.pc = "choose" /\ x.took = o /\ x.pledge = sub[a].pledge
      /\ x.unit = sub[a].unit /\ x.lease = sub[a].lease
  BY <1>1 DEF SubDocs, Pcs
<1>3. sub' = [sub EXCEPT ![a] = x]
  BY <1>1, Zenon DEF SupersedeOpenLeases, o, TypeOK
<1> HIDE DEF x
<1>4. SubMove(a, x.pc, x.took, x.pledge, x.unit, x.lease) BY <1>2, <1>3, MoveOne
<1> QED BY <1>2, <1>4 DEF o

\* A renewal that finds its pledge goes on to record a lease without a unit.
LEMMA MoveRenew ==
    ASSUME TypeOK, Ids \subseteq Ids', NEW a \in Attempts,
           NEW p \in Pledges,
           sub' = [sub EXCEPT ![a].pc = "put", ![a].pledge = p, ![a].unit = FALSE]
    PROVE  SubMove(a, "put", sub[a].took, p, FALSE, sub[a].lease)
<1> DEFINE x == [sub[a] EXCEPT !.pc = "put", !.pledge = p, !.unit = FALSE]
<1>1. /\ sub[a] \in SubDocs(Ids') /\ Idle \in SubDocs(Ids') /\ Returned \in SubDocs(Ids')
  BY SubTypes
<1>2. /\ x \in SubDocs(Ids')
      /\ x.pc = "put" /\ x.took = sub[a].took
      /\ x.pledge = p
      /\ x.unit = FALSE /\ x.lease = sub[a].lease
  BY <1>1 DEF Idle, Returned, SubDocs, Pcs
<1>3. sub' = [sub EXCEPT ![a] = x]
  BY Zenon DEF TypeOK
<1> HIDE DEF x
<1>4. SubMove(a, x.pc, x.took, x.pledge, x.unit, x.lease) BY <1>2, <1>3, MoveOne
<1> QED BY <1>2, <1>4

\* A pledge that declines is not tried again.
LEMMA MoveTried ==
    ASSUME TypeOK, Ids \subseteq Ids', NEW a \in Attempts,
           NEW p \in Pledges,
           sub' = [sub EXCEPT ![a].tried = @ \cup {p}]
    PROVE  SubMove(a, sub[a].pc, sub[a].took, sub[a].pledge, sub[a].unit, sub[a].lease)
<1> DEFINE x == [sub[a] EXCEPT !.tried = sub[a].tried \cup {p}]
<1>1. /\ sub[a] \in SubDocs(Ids') /\ Idle \in SubDocs(Ids') /\ Returned \in SubDocs(Ids')
  BY SubTypes
<1>2. /\ x \in SubDocs(Ids')
      /\ x.pc = sub[a].pc /\ x.took = sub[a].took
      /\ x.pledge = sub[a].pledge
      /\ x.unit = sub[a].unit /\ x.lease = sub[a].lease
  BY <1>1 DEF Idle, Returned, SubDocs, Pcs
<1>3. sub' = [sub EXCEPT ![a] = x]
  BY Zenon DEF TypeOK
<1> HIDE DEF x
<1>4. SubMove(a, x.pc, x.took, x.pledge, x.unit, x.lease) BY <1>2, <1>3, MoveOne
<1> QED BY <1>2, <1>4

\* A reservation holds a unit, admitted or to be rolled back.
LEMMA MoveReserve ==
    ASSUME TypeOK, Ids \subseteq Ids', NEW a \in Attempts,
           NEW p \in Pledges, NEW pc \in {"put", "roll back"},
           sub' = [sub EXCEPT ![a] = [@ EXCEPT !.pc = pc, !.pledge = p, !.unit = TRUE]]
    PROVE  SubMove(a, pc, sub[a].took, p, TRUE, sub[a].lease)
<1> DEFINE x == [sub[a] EXCEPT !.pc = pc, !.pledge = p, !.unit = TRUE]
<1>1. /\ sub[a] \in SubDocs(Ids') /\ Idle \in SubDocs(Ids') /\ Returned \in SubDocs(Ids')
  BY SubTypes
<1>2. /\ x \in SubDocs(Ids')
      /\ x.pc = pc /\ x.took = sub[a].took
      /\ x.pledge = p
      /\ x.unit = TRUE /\ x.lease = sub[a].lease
  BY <1>1 DEF Idle, Returned, SubDocs, Pcs
<1>3. sub' = [sub EXCEPT ![a] = x]
  BY Zenon DEF TypeOK
<1> HIDE DEF x
<1>4. SubMove(a, x.pc, x.took, x.pledge, x.unit, x.lease) BY <1>2, <1>3, MoveOne
<1> QED BY <1>2, <1>4

\* A decline leaves the walk to the next pledge, without a unit.
LEMMA MoveDeclined ==
    ASSUME TypeOK, Ids \subseteq Ids', NEW a \in Attempts,
           sub[a].pledge \in Pledges, sub' = [sub EXCEPT ![a] = Declined(@)]
    PROVE  SubMove(a, "choose", sub[a].took, NoPledge, FALSE, sub[a].lease)
<1> DEFINE x == [sub[a] EXCEPT !.pc = "choose", !.tried = sub[a].tried \cup {sub[a].pledge},
                              !.pledge = NoPledge, !.unit = FALSE]
<1>1. /\ sub[a] \in SubDocs(Ids') /\ Idle \in SubDocs(Ids') /\ Returned \in SubDocs(Ids')
  BY SubTypes
<1>2. /\ x \in SubDocs(Ids')
      /\ x.pc = "choose" /\ x.took = sub[a].took
      /\ x.pledge = NoPledge
      /\ x.unit = FALSE /\ x.lease = sub[a].lease
  BY <1>1 DEF Idle, Returned, SubDocs, Pcs
<1>3. sub' = [sub EXCEPT ![a] = x]
  BY Zenon DEF TypeOK, Declined
<1> HIDE DEF x
<1>4. SubMove(a, x.pc, x.took, x.pledge, x.unit, x.lease) BY <1>2, <1>3, MoveOne
<1> QED BY <1>2, <1>4

\* The grant is returned with the lease that was recorded.
LEMMA MovePut ==
    ASSUME TypeOK, Ids \subseteq Ids', NEW a \in Attempts,
           Len(leases) + 1 \in Ids', Put(a)
    PROVE  SubMove(a, Acquired(a), sub[a].took, NoPledge, FALSE, Len(leases) + 1)
<1> DEFINE x == [sub[a] EXCEPT !.pc = Acquired(a), !.tried = {}, !.pledge = NoPledge,
                              !.unit = FALSE, !.lease = Len(leases) + 1]
<1>1. /\ sub[a] \in SubDocs(Ids') /\ Idle \in SubDocs(Ids') /\ Returned \in SubDocs(Ids')
      /\ Acquired(a) \in Pcs
  BY SubTypes, LeaseTable DEF Acquired, Pcs
<1>2. /\ x \in SubDocs(Ids')
      /\ x.pc = Acquired(a) /\ x.took = sub[a].took
      /\ x.pledge = NoPledge
      /\ x.unit = FALSE /\ x.lease = Len(leases) + 1
  BY <1>1 DEF Idle, Returned, SubDocs, Pcs
<1>3. sub' = [sub EXCEPT ![a] = x]
  BY Zenon DEF TypeOK, Put
<1> HIDE DEF x
<1>4. SubMove(a, x.pc, x.took, x.pledge, x.unit, x.lease) BY <1>2, <1>3, MoveOne
<1> QED BY <1>2, <1>4

\* Without a donor the submission goes on with no grant.
LEMMA MoveNoDonor ==
    ASSUME TypeOK, Ids \subseteq Ids', NEW a \in Attempts,
           NoDonor(a)
    PROVE  SubMove(a, Acquired(a), {}, sub[a].pledge, sub[a].unit, sub[a].lease)
<1> DEFINE x == [sub[a] EXCEPT !.pc = Acquired(a), !.tried = {}, !.took = {}]
<1>1. /\ sub[a] \in SubDocs(Ids') /\ Idle \in SubDocs(Ids') /\ Returned \in SubDocs(Ids')
      /\ Acquired(a) \in Pcs
  BY SubTypes, LeaseTable DEF Acquired, Pcs
<1>2. /\ x \in SubDocs(Ids')
      /\ x.pc = Acquired(a) /\ x.took = {}
      /\ x.pledge = sub[a].pledge
      /\ x.unit = sub[a].unit /\ x.lease = sub[a].lease
  BY <1>1 DEF Idle, Returned, SubDocs, Pcs
<1>3. sub' = [sub EXCEPT ![a] = x]
  BY Zenon DEF TypeOK, NoDonor
<1> HIDE DEF x
<1>4. SubMove(a, x.pc, x.took, x.pledge, x.unit, x.lease) BY <1>2, <1>3, MoveOne
<1> QED BY <1>2, <1>4

\* A step that only moves the stage of a submission.
LEMMA MoveOn ==
    ASSUME TypeOK, Ids \subseteq Ids', NEW a \in Attempts,
           NEW pc \in Pcs, sub' = [sub EXCEPT ![a].pc = pc]
    PROVE  SubMove(a, pc, sub[a].took, sub[a].pledge, sub[a].unit, sub[a].lease)
<1> DEFINE x == [sub[a] EXCEPT !.pc = pc]
<1>1. /\ sub[a] \in SubDocs(Ids') /\ Idle \in SubDocs(Ids') /\ Returned \in SubDocs(Ids')
  BY SubTypes
<1>2. /\ x \in SubDocs(Ids')
      /\ x.pc = pc /\ x.took = sub[a].took
      /\ x.pledge = sub[a].pledge
      /\ x.unit = sub[a].unit /\ x.lease = sub[a].lease
  BY <1>1 DEF Idle, Returned, SubDocs, Pcs
<1>3. sub' = [sub EXCEPT ![a] = x]
  BY Zenon DEF TypeOK
<1> HIDE DEF x
<1>4. SubMove(a, x.pc, x.took, x.pledge, x.unit, x.lease) BY <1>2, <1>3, MoveOne
<1> QED BY <1>2, <1>4

\* A submission that returns keeps nothing.
LEMMA MoveReturned ==
    ASSUME TypeOK, Ids \subseteq Ids', NEW a \in Attempts,
           sub' = [sub EXCEPT ![a] = Returned]
    PROVE  SubMove(a, "returned", {}, NoPledge, FALSE, 0)
<1> DEFINE x == Returned
<1>1. /\ sub[a] \in SubDocs(Ids') /\ Idle \in SubDocs(Ids') /\ Returned \in SubDocs(Ids')
  BY SubTypes
<1>2. /\ x \in SubDocs(Ids')
      /\ x.pc = "returned" /\ x.took = {}
      /\ x.pledge = NoPledge
      /\ x.unit = FALSE /\ x.lease = 0
  BY <1>1 DEF Idle, Returned, SubDocs, Pcs
<1>3. sub' = [sub EXCEPT ![a] = x]
  BY Zenon DEF TypeOK
<1> HIDE DEF x
<1>4. SubMove(a, x.pc, x.took, x.pledge, x.unit, x.lease) BY <1>2, <1>3, MoveOne
<1> QED BY <1>2, <1>4

\* A resume without a grant has still to end the older lease.
LEMMA MoveTakeOver ==
    ASSUME TypeOK, Ids \subseteq Ids', NEW a \in Attempts,
           sub' = [sub EXCEPT ![a] = [Idle EXCEPT !.pc = "take over"]]
    PROVE  SubMove(a, "take over", {}, NoPledge, FALSE, 0)
<1> DEFINE x == [Idle EXCEPT !.pc = "take over"]
<1>1. /\ sub[a] \in SubDocs(Ids') /\ Idle \in SubDocs(Ids') /\ Returned \in SubDocs(Ids')
  BY SubTypes
<1>2. /\ x \in SubDocs(Ids')
      /\ x.pc = "take over" /\ x.took = {}
      /\ x.pledge = NoPledge
      /\ x.unit = FALSE /\ x.lease = 0
  BY <1>1 DEF Idle, Returned, SubDocs, Pcs
<1>3. sub' = [sub EXCEPT ![a] = x]
  BY Zenon DEF TypeOK
<1> HIDE DEF x
<1>4. SubMove(a, x.pc, x.took, x.pledge, x.unit, x.lease) BY <1>2, <1>3, MoveOne
<1> QED BY <1>2, <1>4

\* A resume that was undone has still to reopen what it took over.
LEMMA MoveReopen ==
    ASSUME TypeOK, Ids \subseteq Ids', NEW a \in Attempts,
           sub' = [sub EXCEPT ![a] = [Idle EXCEPT !.pc = "reopen", !.took = sub[a].took]]
    PROVE  SubMove(a, "reopen", sub[a].took, NoPledge, FALSE, 0)
<1> DEFINE x == [Idle EXCEPT !.pc = "reopen", !.took = sub[a].took]
<1>1. /\ sub[a] \in SubDocs(Ids') /\ Idle \in SubDocs(Ids') /\ Returned \in SubDocs(Ids')
  BY SubTypes
<1>2. /\ x \in SubDocs(Ids')
      /\ x.pc = "reopen" /\ x.took = sub[a].took
      /\ x.pledge = NoPledge
      /\ x.unit = FALSE /\ x.lease = 0
  BY <1>1 DEF Idle, Returned, SubDocs, Pcs
<1>3. sub' = [sub EXCEPT ![a] = x]
  BY Zenon DEF TypeOK
<1> HIDE DEF x
<1>4. SubMove(a, x.pc, x.took, x.pledge, x.unit, x.lease) BY <1>2, <1>3, MoveOne
<1> QED BY <1>2, <1>4

-----------------------------------------------------------------------------
(* What each step does to the leases.                                      *)

\* Put records one more lease, open and unsettled.
LEMMA PutFields ==
    ASSUME TypeOK, HoldInv, NEW a \in Attempts, Put(a),
           NEW n, n = Len(leases) + 1
    PROVE  /\ leases' \in Seq(LeaseDocs) /\ Len(leases') = n
           /\ n \in Nat /\ n \notin Ids /\ Ids' = Ids \cup {n}
           /\ \A i \in Ids : leases'[i] = leases[i] /\ i < n
           /\ leases'[n].run = a[1] /\ leases'[n].att = a[2]
           /\ leases'[n].pledge = sub[a].pledge
           /\ (leases'[n].unit <=> sub[a].unit)
           /\ leases'[n].outcome = "open"
           /\ leases'[n].settled = 0 /\ leases'[n].payers = {}
<1> DEFINE d == [run |-> a[1], att |-> a[2], pledge |-> sub[a].pledge,
                 unit |-> sub[a].unit, outcome |-> "open", by |-> 0,
                 settled |-> 0, payers |-> {}]
<1>1. /\ leases \in Seq(LeaseDocs)
      /\ Len(leases) \in Nat /\ Ids = 1 .. Len(leases)
      /\ \A i \in Ids : leases[i] \in LeaseDocs
  BY LeaseTable DEF TypeOK
<1>2. /\ sub[a].pledge \in Pledges /\ sub[a].unit \in BOOLEAN
      /\ a[1] \in Runs /\ a[2] \in Nat
  BY AttemptParts DEF TypeOK, HoldInv, HoldOf, Put
<1>3. d \in LeaseDocs BY <1>2 DEF LeaseDocs, Outcomes
<1>4. /\ d.run = a[1] /\ d.att = a[2] /\ d.pledge = sub[a].pledge
      /\ d.unit = sub[a].unit /\ d.outcome = "open" /\ d.settled = 0
      /\ d.payers = {}
  OBVIOUS
<1>5. leases' = Append(leases, d) BY DEF Put
<1> HIDE DEF d
<1>6. /\ leases' \in Seq(LeaseDocs) /\ Len(leases') = n
      /\ \A i \in 1 .. Len(leases) : leases'[i] = leases[i]
      /\ leases'[n] = d
  BY <1>1, <1>3, <1>5
<1>7. n \in Nat /\ n \notin Ids /\ \A i \in Ids : i < n
  BY <1>1
<1>8. Ids' = 1 .. n BY <1>6 DEF Ids
<1>9. Ids' = Ids \cup {n} BY <1>1, <1>8
<1> QED BY <1>1, <1>4, <1>6, <1>7, <1>9

\* The steps of a submission that touch no lease.
QuietSub(a) ==
    \/ Submit(a) \/ (\E p \in Pledges : Renew(a, p) \/ Reserve(a, p))
    \/ Rollback(a) \/ Unusable(a) \/ SaveRun(a) \/ Publish(a)
    \/ SubmissionFails(a) \/ FailRunAtLaunch(a) \/ RevertQueuedFlip(a)
    \/ ServerDies(a)

\* The steps outside a submission that touch no lease.
QuietRun ==
    \/ \E a \in Attempts : Execute(a)
    \/ \E a \in Attempts, interim \in BOOLEAN : EndExecution(a, interim)
    \/ \E r \in Runs : Stops(r)
    \/ UNCHANGED vars

\* Quiet steps leave the leases as they are.
LEMMA QuietLeases ==
    ASSUME QuietRun \/ \E a \in Attempts : QuietSub(a)
    PROVE  leases' = leases /\ Ids' = Ids
<1>1. CASE QuietRun
  BY <1>1 DEF QuietRun, Execute, EndExecution, Stops, vars, Ids
<1>2. ASSUME NEW a \in Attempts, QuietSub(a) PROVE leases' = leases /\ Ids' = Ids
  BY <1>2 DEF QuietSub, Submit, Renew, Reserve, Rollback, Unusable, SaveRun,
     Publish, SubmissionFails, FailRunAtLaunch, RevertQueuedFlip, ServerDies, Ids
<1> QED BY <1>1, <1>2

\* The steps that close leases, reopen them or report, by what they do.
Closes ==
    \/ \E a \in Attempts :
          \/ SupersedeOpenLeases(a) \/ ReleaseGrant(a) \/ SupersedeRun(a)
    \/ \E i \in Ids : ReleaseExpired(i)

Reopens == \E a \in Attempts : NoDonor(a) \/ ReopenSuperseded(a)

\* Every step is quiet, closes, reopens, records or reports.
LEMMA StepKinds ==
    ASSUME [Next]_vars
    PROVE  \/ QuietRun \/ (\E a \in Attempts : QuietSub(a))
           \/ Closes \/ Reopens
           \/ (\E a \in Attempts : Put(a))
           \/ (\E t \in reports : ReportAttempt(t))
BY DEF Next, QuietRun, QuietSub, Closes, Reopens

\* A close ends open leases of one outcome, and only these: an acquisition or
\* a grantless resume takes over its run's, the others one lease.
LEMMA CloseFields ==
    ASSUME TypeOK, Closes
    PROVE  /\ leases' \in Seq(LeaseDocs) /\ Ids' = Ids
           /\ \A i \in Ids :
                 /\ SameLease(i) /\ SameCharge(i)
                 /\ \/ leases'[i].outcome = leases[i].outcome
                    \/ /\ leases[i].outcome = "open"
                       /\ leases'[i].outcome \in {"superseded", "abandoned",
                             "superseded_grantless", "not_launched"}
<1> DEFINE Goal ==
      /\ leases' \in Seq(LeaseDocs) /\ Ids' = Ids
      /\ \A i \in Ids :
            /\ SameLease(i) /\ SameCharge(i)
            /\ \/ leases'[i].outcome = leases[i].outcome
               \/ /\ leases[i].outcome = "open"
                  /\ leases'[i].outcome \in {"superseded", "abandoned",
                        "superseded_grantless", "not_launched"}
<1>0. leases \in Seq(LeaseDocs) BY DEF TypeOK
<1>1. ASSUME NEW S, NEW b \in Nat,
             NEW o \in {"superseded", "abandoned", "superseded_grantless",
                        "not_launched"},
             leases' = Closed(S, o, b)
      PROVE  Goal
  <2>1. o \in Outcomes BY DEF Outcomes
  <2> QED BY <1>0, <1>1, <2>1, ClosedFields
<1>2. ASSUME NEW a \in Attempts, SupersedeOpenLeases(a) PROVE Goal
  BY <1>1, <1>2, AttemptParts DEF SupersedeOpenLeases
<1>3. ASSUME NEW a \in Attempts, SupersedeRun(a) PROVE Goal
  BY <1>1, <1>3, AttemptParts DEF SupersedeRun
<1>4. ASSUME NEW a \in Attempts, ReleaseGrant(a) PROVE Goal
  <2>1. CASE leases' = Closed({sub[a].lease}, "not_launched", 0)
    BY <1>1, <2>1
  <2>2. CASE leases' = leases
    BY <1>0, <2>2 DEF SameLease, SameCharge, Ids
  <2> QED BY <1>4, <2>1, <2>2 DEF ReleaseGrant
<1>5. ASSUME NEW i \in Ids, ReleaseExpired(i) PROVE Goal
  BY <1>1, <1>5 DEF ReleaseExpired
<1> QED BY <1>2, <1>3, <1>4, <1>5 DEF Closes

\* Whatever step: the table of leases grows, and no lease changes hands.
LEMMA LeaseStep ==
    ASSUME TypeOK, HoldInv, reports \subseteq ReportDocs, [Next]_vars
    PROVE  /\ leases' \in Seq(LeaseDocs) /\ Ids \subseteq Ids'
           /\ \A i \in Ids : SameLease(i)
<1> DEFINE Goal == /\ leases' \in Seq(LeaseDocs) /\ Ids \subseteq Ids'
                   /\ \A i \in Ids : SameLease(i)
<1>0. leases \in Seq(LeaseDocs) BY DEF TypeOK
<1>1. CASE QuietRun \/ \E a \in Attempts : QuietSub(a)
  BY <1>0, <1>1, QuietLeases DEF SameLease
<1>2. CASE Closes
  BY <1>2, CloseFields
<1>3. CASE Reopens
  <2>1. PICK a \in Attempts : leases' = Reopened(sub[a].took, a)
    BY <1>3 DEF Reopens, NoDonor, ReopenSuperseded
  <2> QED BY <1>0, <2>1, ReopenedFields
<1>4. ASSUME NEW a \in Attempts, Put(a) PROVE Goal
  <2>1. /\ leases' \in Seq(LeaseDocs) /\ Ids \subseteq Ids'
        /\ \A i \in Ids : leases'[i] = leases[i]
    BY <1>4, PutFields
  <2> QED BY <2>1 DEF SameLease
<1>5. ASSUME NEW t \in reports, ReportAttempt(t) PROVE Goal
  BY <1>0, <1>5, ReportFields DEF TypeOK
<1> QED BY <1>1, <1>2, <1>3, <1>4, <1>5, StepKinds

-----------------------------------------------------------------------------
(* Where each step leaves the registers of its submission.                 *)

\* The part of the invariant that a step's effects follow from.
BaseInv == TypeOK /\ HoldInv /\ reports \subseteq ReportDocs

\* An acquisition sets out with the leases that it takes over, and no unit.
LEMMA ActSupersede ==
    ASSUME BaseInv, Ids \subseteq Ids', NEW a \in Attempts,
           SupersedeOpenLeases(a)
    PROVE  SubMove(a, "choose", OpenOf(a[1]), sub[a].pledge, FALSE, 0)
<1> USE DEF BaseInv
<1>0. sub[a].unit \in BOOLEAN /\ HoldOf(a) BY DEF HoldInv, TypeOK
<1>1. SubMove(a, "choose", OpenOf(a[1]), sub[a].pledge, sub[a].unit, sub[a].lease)
  BY MoveSupersede
<1> QED BY <1>0, <1>1 DEF HoldOf, SupersedeOpenLeases, SubMove

\* A renewal finds its pledge, or passes it by.
LEMMA ActRenew ==
    ASSUME BaseInv, Ids \subseteq Ids', NEW a \in Attempts, NEW p \in Pledges,
           Renew(a, p)
    PROVE  \/ SubMove(a, "put", sub[a].took, p, FALSE, 0)
           \/ SubMove(a, "choose", sub[a].took, sub[a].pledge, FALSE, 0)
<1> USE DEF BaseInv
<1>0. sub[a].unit \in BOOLEAN /\ HoldOf(a) BY DEF HoldInv, TypeOK
<1>1. sub[a].lease = 0 /\ ~sub[a].unit /\ sub[a].pc = "choose" BY <1>0 DEF HoldOf, Renew
<1>2. CASE sub' = [sub EXCEPT ![a].pc = "put", ![a].pledge = p, ![a].unit = FALSE]
  BY <1>1, <1>2, MoveRenew
<1>3. CASE sub' = [sub EXCEPT ![a].tried = @ \cup {p}]
  <2>1. SubMove(a, sub[a].pc, sub[a].took, sub[a].pledge, sub[a].unit, sub[a].lease)
    BY <1>3, MoveTried
  <2> QED BY <1>1, <2>1 DEF SubMove
<1> QED BY <1>2, <1>3, Zenon DEF Renew

\* A reservation counts its unit and holds it, to be admitted within the
\* limit or to be rolled back.
LEMMA ActReserve ==
    ASSUME BaseInv, Ids \subseteq Ids', NEW a \in Attempts, NEW p \in Pledges,
           Reserve(a, p)
    PROVE  \E pc \in {"put", "roll back"} :
              /\ SubMove(a, pc, sub[a].took, p, TRUE, 0)
              /\ pc = "put" => used'[p] <= MaxRunsPerDay
<1> USE DEF BaseInv
<1>0. sub[a].unit \in BOOLEAN /\ HoldOf(a) BY DEF HoldInv, TypeOK
<1>1. PICK pc \in {"put", "roll back"} :
         /\ pc = "put" => used'[p] <= MaxRunsPerDay
         /\ sub' = [sub EXCEPT ![a] = [@ EXCEPT !.pc = pc, !.pledge = p, !.unit = TRUE]]
  BY Zenon DEF Reserve
<1>2. SubMove(a, pc, sub[a].took, p, TRUE, sub[a].lease)
  BY <1>1, MoveReserve
<1>3. sub[a].lease = 0 BY <1>0 DEF HoldOf, Reserve
<1> QED BY <1>1, <1>2, <1>3

\* A decline lets go of the unit.
LEMMA ActDeclined ==
    ASSUME BaseInv, Ids \subseteq Ids', NEW a \in Attempts,
           Rollback(a) \/ Unusable(a)
    PROVE  SubMove(a, "choose", sub[a].took, NoPledge, FALSE, 0)
<1> USE DEF BaseInv
<1>0. sub[a].unit \in BOOLEAN /\ HoldOf(a) BY DEF HoldInv, TypeOK
<1>1. sub[a].pledge \in Pledges /\ sub' = [sub EXCEPT ![a] = Declined(@)]
  BY <1>0, Zenon DEF HoldOf, Rollback, Unusable
<1>2. SubMove(a, "choose", sub[a].took, NoPledge, FALSE, sub[a].lease)
  BY <1>1, MoveDeclined
<1>3. sub[a].lease = 0 BY <1>0 DEF HoldOf, Rollback, Unusable
<1> QED BY <1>2, <1>3

\* The lease is recorded, and the unit with it.
LEMMA ActPut ==
    ASSUME BaseInv, Ids \subseteq Ids', NEW a \in Attempts, NEW n, n = Len(leases) + 1,
           Put(a)
    PROVE  /\ SubMove(a, Acquired(a), sub[a].took, NoPledge, FALSE, n)
           /\ Acquired(a) \in {"save", "publish"} /\ n # 0
<1> USE DEF BaseInv
<1>0. sub[a].unit \in BOOLEAN /\ HoldOf(a) BY DEF HoldInv, TypeOK
<1>1. Len(leases) + 1 \in Ids' /\ Len(leases) + 1 # 0
  BY PutFields, LeaseTable DEF TypeOK
<1>2. SubMove(a, Acquired(a), sub[a].took, NoPledge, FALSE, Len(leases) + 1)
  BY <1>1, MovePut
<1> QED BY <1>1, <1>2 DEF Acquired

\* Without a donor the submission goes on, and no lease is taken over.
LEMMA ActNoDonor ==
    ASSUME BaseInv, Ids \subseteq Ids', NEW a \in Attempts,
           NoDonor(a)
    PROVE  /\ SubMove(a, Acquired(a), {}, sub[a].pledge, FALSE, 0)
           /\ Acquired(a) \in {"save", "publish"}
<1> USE DEF BaseInv
<1>0. sub[a].unit \in BOOLEAN /\ HoldOf(a) BY DEF HoldInv, TypeOK
<1>1. SubMove(a, Acquired(a), {}, sub[a].pledge, sub[a].unit, sub[a].lease)
  BY MoveNoDonor
<1>2. sub[a].lease = 0 /\ ~sub[a].unit BY <1>0 DEF HoldOf, NoDonor
<1> QED BY <1>1, <1>2 DEF Acquired, SubMove

\* A submission goes on to its publication, or to its undoing.
LEMMA ActOn ==
    ASSUME BaseInv, Ids \subseteq Ids', NEW a \in Attempts,
           SaveRun(a) \/ SubmissionFails(a) \/ FailRunAtLaunch(a)
    PROVE  /\ sub[a].pc \in {"save", "publish", "fail launch"}
           /\ \E pc \in {"publish", "fail launch", "release"} :
                 SubMove(a, pc, sub[a].took, sub[a].pledge, FALSE, sub[a].lease)
<1> USE DEF BaseInv
<1>0. sub[a].unit \in BOOLEAN /\ HoldOf(a) BY DEF HoldInv, TypeOK
<1>1. ASSUME NEW pc \in {"publish", "fail launch", "release"},
             sub[a].pc \in {"save", "publish", "fail launch"},
             sub' = [sub EXCEPT ![a].pc = pc]
      PROVE  SubMove(a, pc, sub[a].took, sub[a].pledge, FALSE, sub[a].lease)
  <2>1. pc \in Pcs BY DEF Pcs
  <2>2. SubMove(a, pc, sub[a].took, sub[a].pledge, sub[a].unit, sub[a].lease)
    BY <1>1, <2>1, MoveOn
  <2> QED BY <1>0, <1>1, <2>2 DEF HoldOf, SubMove
<1>2. sub[a].pc \in {"save", "publish", "fail launch"}
  BY DEF SaveRun, SubmissionFails, FailRunAtLaunch
<1>3. \E pc \in {"publish", "fail launch", "release"} : sub' = [sub EXCEPT ![a].pc = pc]
  BY Zenon DEF SaveRun, SubmissionFails, FailRunAtLaunch
<1> QED BY <1>1, <1>2, <1>3

\* The submission returns, or has still to end the older lease.
LEMMA ActPublish ==
    ASSUME BaseInv, Ids \subseteq Ids', NEW a \in Attempts,
           Publish(a)
    PROVE  \/ SubMove(a, "returned", {}, NoPledge, FALSE, 0)
           \/ SubMove(a, "take over", {}, NoPledge, FALSE, 0)
<1> USE DEF BaseInv
<1>0. sub[a].unit \in BOOLEAN /\ HoldOf(a) BY DEF HoldInv, TypeOK
<1>1. CASE sub' = [sub EXCEPT ![a] = Returned] BY <1>1, MoveReturned
<1>2. CASE sub' = [sub EXCEPT ![a] = [Idle EXCEPT !.pc = "take over"]]
  BY <1>2, MoveTakeOver
<1> QED BY <1>1, <1>2, Zenon DEF Publish

\* The grant is given back: a launch returns, a resume reverts its flip.
LEMMA ActRelease ==
    ASSUME BaseInv, Ids \subseteq Ids', NEW a \in Attempts,
           ReleaseGrant(a)
    PROVE  \/ SubMove(a, "returned", {}, NoPledge, FALSE, 0)
           \/ SubMove(a, "revert", sub[a].took, sub[a].pledge, FALSE, sub[a].lease)
<1> USE DEF BaseInv
<1>0. sub[a].unit \in BOOLEAN /\ HoldOf(a) BY DEF HoldInv, TypeOK
<1>1. CASE sub' = [sub EXCEPT ![a] = Returned] BY <1>1, MoveReturned
<1>2. CASE sub' = [sub EXCEPT ![a].pc = "revert"]
  <2>1. "revert" \in Pcs BY DEF Pcs
  <2>2. SubMove(a, "revert", sub[a].took, sub[a].pledge, sub[a].unit, sub[a].lease)
    BY <1>2, <2>1, MoveOn
  <2> QED BY <1>0, <2>2 DEF HoldOf, SubMove, ReleaseGrant
<1> QED BY <1>1, <1>2, Zenon DEF ReleaseGrant

\* The flip is undone: what was taken over has still to be reopened, if
\* anything was.
LEMMA ActRevert ==
    ASSUME BaseInv, Ids \subseteq Ids', NEW a \in Attempts,
           RevertQueuedFlip(a)
    PROVE  \/ SubMove(a, "returned", {}, NoPledge, FALSE, 0)
           \/ /\ SubMove(a, "reopen", sub[a].took, NoPledge, FALSE, 0)
              /\ sub[a].took # {}
<1> USE DEF BaseInv
<1>0. sub[a].unit \in BOOLEAN /\ HoldOf(a) BY DEF HoldInv, TypeOK
<1>1. CASE sub' = [sub EXCEPT ![a] = Returned] BY <1>1, MoveReturned
<1>2. CASE /\ sub[a].took # {}
           /\ sub' = [sub EXCEPT ![a] = [Idle EXCEPT !.pc = "reopen",
                                                    !.took = sub[a].took]]
  BY <1>2, MoveReopen
<1> QED BY <1>1, <1>2, Zenon DEF RevertQueuedFlip

\* A submission ends.
LEMMA ActReturn ==
    ASSUME BaseInv, Ids \subseteq Ids', NEW a \in Attempts,
           ReopenSuperseded(a) \/ SupersedeRun(a) \/ ServerDies(a)
    PROVE  SubMove(a, "returned", {}, NoPledge, FALSE, 0)
<1> USE DEF BaseInv
<1>0. sub[a].unit \in BOOLEAN /\ HoldOf(a) BY DEF HoldInv, TypeOK
<1>1. sub' = [sub EXCEPT ![a] = Returned]
  BY DEF ReopenSuperseded, SupersedeRun, ServerDies
<1> QED BY <1>1, MoveReturned

\* The steps that belong to no submission.
Outside ==
    \/ QuietRun
    \/ (\E i \in Ids : ReleaseExpired(i))
    \/ (\E t \in reports : ReportAttempt(t))

\* They leave the submissions and the ledger as they are.
LEMMA OutsideKeeps ==
    ASSUME Outside
    PROVE  sub' = sub /\ used' = used /\ overlapped' = overlapped /\ msg' = msg
BY DEF Outside, QuietRun, Execute, EndExecution, Stops, ReleaseExpired,
       ReportAttempt, RunKeeps, vars

\* Every step keeps the registers typed and in step with their stages.
LEMMA HoldStep ==
    ASSUME BaseInv, [Next]_vars
    PROVE  HoldInv' /\ sub' \in [Attempts -> SubDocs(Ids')]
<1> DEFINE Goal == HoldInv' /\ sub' \in [Attempts -> SubDocs(Ids')]
<1>0. Ids \subseteq Ids' /\ HoldInv BY LeaseStep DEF BaseInv
<1> USE <1>0
<1>a. ASSUME NEW a \in Attempts, sub' \in [Attempts -> SubDocs(Ids')],
             \A b \in Attempts : b # a => sub'[b] = sub[b], HoldOf(a)'
      PROVE  Goal
  <2>1. ASSUME NEW b \in Attempts, b # a PROVE HoldOf(b)'
    BY <1>a, <2>1 DEF HoldInv, HoldOf
  <2> QED BY <1>a, <2>1 DEF HoldInv
<1>b. ASSUME NEW a \in Attempts PROVE HoldOf(a) BY DEF HoldInv
<1>1. ASSUME NEW a \in Attempts, Submit(a) PROVE Goal
  BY <1>a, <1>1, MoveSubmit DEF SubMove, HoldOf, BaseInv
<1>2. ASSUME NEW a \in Attempts, SupersedeOpenLeases(a) PROVE Goal
  BY <1>a, <1>2, ActSupersede DEF SubMove, HoldOf
<1>3. ASSUME NEW a \in Attempts, NEW p \in Pledges, Renew(a, p) PROVE Goal
  <2>1. \/ SubMove(a, "put", sub[a].took, p, FALSE, 0)
        \/ SubMove(a, "choose", sub[a].took, sub[a].pledge, FALSE, 0)
    BY <1>3, ActRenew
  <2> QED BY <1>a, <2>1 DEF SubMove, HoldOf
<1>4. ASSUME NEW a \in Attempts, NEW p \in Pledges, Reserve(a, p) PROVE Goal
  <2>1. PICK pc \in {"put", "roll back"} : SubMove(a, pc, sub[a].took, p, TRUE, 0)
    BY <1>4, ActReserve
  <2> QED BY <1>a, <2>1 DEF SubMove, HoldOf
<1>5. ASSUME NEW a \in Attempts, Rollback(a) \/ Unusable(a) PROVE Goal
  BY <1>a, <1>5, ActDeclined DEF SubMove, HoldOf
<1>6. ASSUME NEW a \in Attempts, Put(a) PROVE Goal
  BY <1>a, <1>6, ActPut DEF SubMove, HoldOf
<1>7. ASSUME NEW a \in Attempts, NoDonor(a) PROVE Goal
  BY <1>a, <1>7, ActNoDonor DEF SubMove, HoldOf
<1>8. ASSUME NEW a \in Attempts, SaveRun(a) \/ SubmissionFails(a) \/ FailRunAtLaunch(a)
      PROVE  Goal
  <2>1. PICK pc \in {"publish", "fail launch", "release"} :
           SubMove(a, pc, sub[a].took, sub[a].pledge, FALSE, sub[a].lease)
    BY <1>8, ActOn
  <2>2. sub[a].pc \in {"save", "publish", "fail launch"} BY <1>8, ActOn
  <2> QED BY <1>a, <1>b, <2>1, <2>2 DEF SubMove, HoldOf
<1>9. ASSUME NEW a \in Attempts, Publish(a) PROVE Goal
  BY <1>a, <1>9, ActPublish DEF SubMove, HoldOf
<1>10. ASSUME NEW a \in Attempts, ReleaseGrant(a) PROVE Goal
  <2>1. sub[a].pc = "release" BY <1>10 DEF ReleaseGrant
  <2>2. \/ SubMove(a, "returned", {}, NoPledge, FALSE, 0)
        \/ SubMove(a, "revert", sub[a].took, sub[a].pledge, FALSE, sub[a].lease)
    BY <1>10, ActRelease
  <2> QED BY <1>a, <1>b, <2>1, <2>2 DEF SubMove, HoldOf
<1>11. ASSUME NEW a \in Attempts, RevertQueuedFlip(a) PROVE Goal
  BY <1>a, <1>11, ActRevert DEF SubMove, HoldOf
<1>12. ASSUME NEW a \in Attempts,
              ReopenSuperseded(a) \/ SupersedeRun(a) \/ ServerDies(a)
       PROVE  Goal
  BY <1>a, <1>12, ActReturn DEF SubMove, HoldOf
<1>13. CASE Outside
  <2>1. SubDocs(Ids) \subseteq SubDocs(Ids') BY DEF SubDocs
  <2>2. sub \in [Attempts -> SubDocs(Ids)] BY DEF BaseInv, TypeOK, SubDocs
  <2> QED BY <1>13, <2>1, <2>2, OutsideKeeps DEF HoldInv, HoldOf
<1> QED BY <1>1, <1>2, <1>3, <1>4, <1>5, <1>6, <1>7, <1>8, <1>9, <1>10, <1>11,
           <1>12, <1>13, StepKinds DEF QuietSub, Closes, Reopens, Outside

-----------------------------------------------------------------------------
(* The ledger.                                                             *)

\* The units of a donor that stand are finitely many.
LEMMA StandingFinite ==
    ASSUME leases \in Seq(LeaseDocs), NEW p
    PROVE  /\ IsFiniteSet(Standing(p)) /\ Cardinality(Standing(p)) \in Nat
           /\ Standing(p) \subseteq Ids
<1>1. Len(leases) \in Nat /\ Ids = 1 .. Len(leases) BY LeaseTable
<1>2. IsFiniteSet(1 .. Len(leases)) BY <1>1, FS_Interval
<1>3. Standing(p) \in SUBSET (1 .. Len(leases)) BY <1>1 DEF Standing
<1> QED BY <1>1, <1>2, <1>3, FS_Subset, FS_CardinalityType

\* A step that gives no lease back leaves the units that stand.
LEMMA StandingKept ==
    ASSUME NEW p, Ids' = Ids,
           \A i \in Ids : /\ SameLease(i)
                          /\ leases'[i].outcome = "not_launched"
                             <=> leases[i].outcome = "not_launched"
    PROVE  Standing(p)' = Standing(p)
BY DEF Standing, SameLease

\* A submission that moves on without a unit holds none.
LEMMA HolderLeaves ==
    ASSUME NEW a \in Attempts, NEW pc, NEW took, NEW pledge, NEW lease,
           SubMove(a, pc, took, pledge, FALSE, lease), NEW p
    PROVE  Holders(p)' = Holders(p) \ {a} /\ Admitted(p)' = Admitted(p) \ {a}
BY DEF SubMove, Holders, Admitted

\* A submission that moves on with a unit of one donor holds that one alone.
LEMMA HolderTakes ==
    ASSUME NEW a \in Attempts, NEW pc, NEW took, NEW pledge, NEW lease,
           SubMove(a, pc, took, pledge, TRUE, lease), NEW p
    PROVE  /\ pledge # p => /\ Holders(p)' = Holders(p) \ {a}
                            /\ Admitted(p)' = Admitted(p) \ {a}
           /\ pledge = p =>
                 /\ Holders(p)' = Holders(p) \cup {a}
                 /\ pc = "put" => Admitted(p)' = Admitted(p) \cup {a}
                 /\ pc # "put" => Admitted(p)' = Admitted(p) \ {a}
BY DEF SubMove, Holders, Admitted

\* The three sets of a donor that the ledger is compared with, by their sizes.
CountOf(p) ==
    /\ IsFiniteSet(Holders(p))
    /\ Cardinality(Standing(p)) + Cardinality(Holders(p)) <= used[p]
    /\ Cardinality(Standing(p)) + Cardinality(Admitted(p)) <= MaxRunsPerDay

\* The holders of a unit are finitely many, and so are those admitted.
LEMMA CountTypes ==
    ASSUME TypeOK, CountInv, NEW p \in Pledges
    PROVE  /\ IsFiniteSet(Holders(p)) /\ IsFiniteSet(Admitted(p))
           /\ IsFiniteSet(Standing(p))
           /\ Cardinality(Holders(p)) \in Nat /\ Cardinality(Admitted(p)) \in Nat
           /\ Cardinality(Standing(p)) \in Nat /\ used[p] \in Nat
           /\ Cardinality(Admitted(p)) <= Cardinality(Holders(p))
           /\ MaxRunsPerDay \in Nat /\ CountOf(p)
<1>1. IsFiniteSet(Holders(p)) /\ CountOf(p) BY DEF CountInv, CountOf
<1>2. Admitted(p) \in SUBSET Holders(p) BY DEF Admitted
<1>3. IsFiniteSet(Standing(p)) /\ Cardinality(Standing(p)) \in Nat
  BY StandingFinite DEF TypeOK
<1>4. used[p] \in Nat /\ MaxRunsPerDay \in Nat BY PoolAssumption DEF TypeOK
<1> QED BY <1>1, <1>2, <1>3, <1>4, FS_Subset, FS_CardinalityType

\* A step that adds no unit and takes none out of the ledger.
LEMMA CountLess ==
    ASSUME TypeOK, CountInv, NEW p \in Pledges,
           Standing(p)' \subseteq Standing(p), Holders(p)' \subseteq Holders(p),
           Admitted(p)' \subseteq Admitted(p), used'[p] = used[p]
    PROVE  CountOf(p)'
<1>1. /\ IsFiniteSet(Holders(p)')
      /\ Cardinality(Holders(p)') \in Nat
      /\ Cardinality(Holders(p)') <= Cardinality(Holders(p))
  BY CountTypes, FS_Subset, FS_CardinalityType
<1>2. /\ Cardinality(Standing(p)') \in Nat
      /\ Cardinality(Standing(p)') <= Cardinality(Standing(p))
  BY CountTypes, FS_Subset, FS_CardinalityType
<1>3. /\ Cardinality(Admitted(p)') \in Nat
      /\ Cardinality(Admitted(p)') <= Cardinality(Admitted(p))
  BY CountTypes, FS_Subset, FS_CardinalityType
<1> QED BY <1>1, <1>2, <1>3, CountTypes DEF CountOf

\* A step that lets go of a unit that a submission holds, and takes it out of
\* the ledger.
LEMMA CountDeclined ==
    ASSUME TypeOK, CountInv, NEW p \in Pledges, NEW a \in Holders(p),
           Standing(p)' = Standing(p), Holders(p)' = Holders(p) \ {a},
           Admitted(p)' = Admitted(p) \ {a}
    PROVE  /\ used[p] > 0
           /\ used'[p] = used[p] - 1 => CountOf(p)'
<1>1. /\ IsFiniteSet(Holders(p)') /\ Cardinality(Holders(p)) > 0
      /\ Cardinality(Holders(p)') = Cardinality(Holders(p)) - 1
  <2>1. Cardinality(Holders(p)) # 0 BY CountTypes, FS_EmptySet
  <2>2. /\ IsFiniteSet(Holders(p) \ {a})
        /\ Cardinality(Holders(p) \ {a}) = Cardinality(Holders(p)) - 1
    BY CountTypes, FS_RemoveElement
  <2> QED BY <2>1, <2>2, CountTypes
<1>2. /\ Cardinality(Admitted(p)') \in Nat
      /\ Cardinality(Admitted(p)') <= Cardinality(Admitted(p))
  BY CountTypes, FS_Subset, FS_CardinalityType
<1> QED BY <1>1, <1>2, CountTypes DEF CountOf

\* A step that takes a unit for a submission.
LEMMA CountReserved ==
    ASSUME TypeOK, CountInv, NEW p \in Pledges, NEW a, a \notin Holders(p),
           Standing(p)' = Standing(p), Holders(p)' = Holders(p) \cup {a},
           used'[p] = used[p] + 1,
           \/ Admitted(p)' \subseteq Admitted(p)
           \/ /\ Admitted(p)' = Admitted(p) \cup {a}
              /\ used'[p] <= MaxRunsPerDay
    PROVE  CountOf(p)'
<1>1. /\ IsFiniteSet(Holders(p)')
      /\ Cardinality(Holders(p)') = Cardinality(Holders(p)) + 1
  BY CountTypes, FS_AddElement
<1>2. CASE Admitted(p)' \subseteq Admitted(p)
  <2>1. /\ Cardinality(Admitted(p)') \in Nat
        /\ Cardinality(Admitted(p)') <= Cardinality(Admitted(p))
    BY <1>2, CountTypes, FS_Subset, FS_CardinalityType
  <2> QED BY <1>1, <2>1, CountTypes DEF CountOf
<1>3. CASE Admitted(p)' = Admitted(p) \cup {a} /\ used'[p] <= MaxRunsPerDay
  <2>1. a \notin Admitted(p) BY DEF Admitted
  <2>2. Cardinality(Admitted(p)') = Cardinality(Admitted(p)) + 1
    BY <1>3, <2>1, CountTypes, FS_AddElement
  <2> QED BY <1>1, <1>3, <2>2, CountTypes DEF CountOf
<1> QED BY <1>2, <1>3

\* A step that records the lease of an admitted submission.
LEMMA CountRecorded ==
    ASSUME TypeOK, CountInv, NEW p \in Pledges, NEW a \in Admitted(p),
           NEW n, n \notin Standing(p), Standing(p)' = Standing(p) \cup {n},
           Holders(p)' = Holders(p) \ {a}, Admitted(p)' = Admitted(p) \ {a},
           used'[p] = used[p]
    PROVE  CountOf(p)'
<1>1. a \in Holders(p) BY DEF Admitted
<1>2. /\ IsFiniteSet(Holders(p)')
      /\ Cardinality(Holders(p)') = Cardinality(Holders(p)) - 1
  BY <1>1, CountTypes, FS_RemoveElement
<1>3. Cardinality(Admitted(p)') = Cardinality(Admitted(p)) - 1
  BY CountTypes, FS_RemoveElement
<1>4. Cardinality(Standing(p)') = Cardinality(Standing(p)) + 1
  BY CountTypes, FS_AddElement
<1> QED BY <1>2, <1>3, <1>4, CountTypes DEF CountOf

\* A step that gives the unit of a lease back.
LEMMA CountReleased ==
    ASSUME TypeOK, CountInv, NEW p \in Pledges, NEW i \in Standing(p),
           Standing(p)' = Standing(p) \ {i}, Holders(p)' \subseteq Holders(p),
           Admitted(p)' \subseteq Admitted(p)
    PROVE  /\ used[p] > 0
           /\ used'[p] = used[p] - 1 => CountOf(p)'
<1>1. /\ Cardinality(Standing(p)) > 0
      /\ Cardinality(Standing(p)') = Cardinality(Standing(p)) - 1
  <2>1. Cardinality(Standing(p)) # 0 BY CountTypes, FS_EmptySet
  <2>2. Cardinality(Standing(p) \ {i}) = Cardinality(Standing(p)) - 1
    BY CountTypes, FS_RemoveElement
  <2> QED BY <2>1, <2>2, CountTypes
<1>2. /\ IsFiniteSet(Holders(p)') /\ Cardinality(Holders(p)') \in Nat
      /\ Cardinality(Holders(p)') <= Cardinality(Holders(p))
  BY CountTypes, FS_Subset, FS_CardinalityType
<1>3. /\ Cardinality(Admitted(p)') \in Nat
      /\ Cardinality(Admitted(p)') <= Cardinality(Admitted(p))
  BY CountTypes, FS_Subset, FS_CardinalityType
<1> QED BY <1>1, <1>2, <1>3, CountTypes DEF CountOf

\* A count that goes up by one is a count.
LEMMA OneMore ==
    ASSUME NEW f \in [Pledges -> Nat], NEW p \in Pledges, NEW g,
           g = [f EXCEPT ![p] = @ + 1]
    PROVE  f[p] \in Nat /\ g[p] = f[p] + 1 /\ g \in [Pledges -> Nat]
OBVIOUS

\* Every step keeps the ledger natural, above every unit that stands or is
\* held, and the admitted ones within the limit.
LEMMA CountStep ==
    ASSUME BaseInv, CountInv, [Next]_vars
    PROVE  CountInv' /\ used' \in [Pledges -> Nat]
<1> USE DEF BaseInv
<1> DEFINE Goal == CountInv' /\ used' \in [Pledges -> Nat]
<1>0. /\ Ids \subseteq Ids' /\ leases \in Seq(LeaseDocs)
      /\ used \in [Pledges -> Nat] /\ HoldInv
  BY LeaseStep DEF TypeOK
<1> USE <1>0
<1>a. ASSUME used' = used, \A p \in Pledges : CountOf(p)' PROVE Goal
  BY <1>a DEF CountInv, CountOf
<1>b. ASSUME NEW a \in Attempts, used' = used, NEW pc, NEW took, NEW pledge,
             NEW lease, SubMove(a, pc, took, pledge, FALSE, lease),
             \A p \in Pledges : Standing(p)' \subseteq Standing(p)
      PROVE  Goal
  <2>1. ASSUME NEW p \in Pledges PROVE CountOf(p)'
    <3>1. Holders(p)' \subseteq Holders(p) /\ Admitted(p)' \subseteq Admitted(p)
      BY <1>b, HolderLeaves
    <3> QED BY <1>b, <3>1, CountLess
  <2> QED BY <1>a, <1>b, <2>1
<1>c. ASSUME leases' = leases PROVE \A p : Standing(p)' = Standing(p)
  BY <1>c DEF Standing, Ids
<1>d. ASSUME NEW a \in Attempts PROVE HoldOf(a) /\ sub[a].unit \in BOOLEAN
  BY DEF HoldInv, TypeOK
<1>1. ASSUME NEW a \in Attempts, Submit(a) PROVE Goal
  <2>1. leases' = leases /\ used' = used BY <1>1 DEF Submit
  <2>2. SubMove(a, "supersede", {}, NoPledge, FALSE, 0) BY <1>1, MoveSubmit
  <2> QED BY <1>b, <1>c, <2>1, <2>2
<1>2. ASSUME NEW a \in Attempts, NEW p \in Pledges, Renew(a, p) PROVE Goal
  <2>1. leases' = leases /\ used' = used BY <1>2 DEF Renew
  <2>2. \/ SubMove(a, "put", sub[a].took, p, FALSE, 0)
        \/ SubMove(a, "choose", sub[a].took, sub[a].pledge, FALSE, 0)
    BY <1>2, ActRenew
  <2> QED BY <1>b, <1>c, <2>1, <2>2
<1>3. ASSUME NEW a \in Attempts, SaveRun(a) \/ SubmissionFails(a) \/ FailRunAtLaunch(a)
      PROVE  Goal
  <2>1. leases' = leases /\ used' = used
    BY <1>3 DEF SaveRun, SubmissionFails, FailRunAtLaunch
  <2>2. PICK pc \in {"publish", "fail launch", "release"} :
           SubMove(a, pc, sub[a].took, sub[a].pledge, FALSE, sub[a].lease)
    BY <1>3, ActOn
  <2> QED BY <1>b, <1>c, <2>1, <2>2
<1>4. ASSUME NEW a \in Attempts, Publish(a) \/ RevertQueuedFlip(a) PROVE Goal
  <2>1. leases' = leases /\ used' = used
    BY <1>4 DEF Publish, RevertQueuedFlip
  <2>2. \/ SubMove(a, "returned", {}, NoPledge, FALSE, 0)
        \/ SubMove(a, "take over", {}, NoPledge, FALSE, 0)
        \/ SubMove(a, "reopen", sub[a].took, NoPledge, FALSE, 0)
    BY <1>4, ActPublish, ActRevert
  <2> QED BY <1>b, <1>c, <2>1, <2>2
<1>5. ASSUME NEW a \in Attempts,
             SupersedeOpenLeases(a) \/ SupersedeRun(a)
      PROVE  Goal
  <2>1. used' = used BY <1>5 DEF SupersedeOpenLeases, SupersedeRun
  <2>2. PICK o \in Outcomes : o # "not_launched" /\ leases' = Closed(OpenOf(a[1]), o, a[2])
    BY <1>5 DEF SupersedeOpenLeases, SupersedeRun, Outcomes
  <2>3. \A p \in Pledges : Standing(p)' = Standing(p)
    BY <2>2, AttemptParts, ClosedFields, StandingKept
  <2>4. \/ SubMove(a, "choose", OpenOf(a[1]), sub[a].pledge, FALSE, 0)
        \/ SubMove(a, "returned", {}, NoPledge, FALSE, 0)
    BY <1>5, ActSupersede, ActReturn
  <2> QED BY <1>b, <2>1, <2>3, <2>4
<1>6. ASSUME NEW a \in Attempts, NoDonor(a) \/ ReopenSuperseded(a) PROVE Goal
  <2>1. used' = used /\ leases' = Reopened(sub[a].took, a)
    BY <1>6 DEF NoDonor, ReopenSuperseded
  <2>2. \A p \in Pledges : Standing(p)' = Standing(p)
    BY <2>1, ReopenedFields, StandingKept
  <2>3. \/ SubMove(a, Acquired(a), {}, sub[a].pledge, FALSE, 0)
        \/ SubMove(a, "returned", {}, NoPledge, FALSE, 0)
    BY <1>6, ActNoDonor, ActReturn
  <2> QED BY <1>b, <2>1, <2>2, <2>3
<1>7. ASSUME NEW a \in Attempts, ServerDies(a) PROVE Goal
  <2>1. leases' = leases /\ used' = used BY <1>7 DEF ServerDies
  <2>2. SubMove(a, "returned", {}, NoPledge, FALSE, 0) BY <1>7, ActReturn
  <2> QED BY <1>b, <1>c, <2>1, <2>2
<1>8. ASSUME NEW a \in Attempts, NEW p \in Pledges, Reserve(a, p) PROVE Goal
  <2>1. leases' = leases /\ used' = [used EXCEPT ![p] = @ + 1]
    BY <1>8 DEF Reserve
  <2>2. PICK pc \in {"put", "roll back"} :
           /\ SubMove(a, pc, sub[a].took, p, TRUE, 0)
           /\ pc = "put" => used'[p] <= MaxRunsPerDay
    BY <1>8, ActReserve
  <2>3. used[p] \in Nat /\ used'[p] = used[p] + 1 /\ used' \in [Pledges -> Nat]
    BY <1>0, <2>1, OneMore, Zenon
  <2>4. ~sub[a].unit BY <1>8, <1>d DEF Reserve, HoldOf
  <2>5. ASSUME NEW q \in Pledges PROVE CountOf(q)'
    <3>1. a \notin Holders(q) /\ a \notin Admitted(q)
      BY <2>4 DEF Holders, Admitted
    <3>2. CASE q # p
      <4>1. Holders(q)' = Holders(q) \ {a} /\ Admitted(q)' = Admitted(q) \ {a}
        BY <2>2, <3>2, HolderTakes
      <4>2. used'[q] = used[q] BY <2>1, <3>2
      <4> QED BY <1>c, <2>1, <4>1, <4>2, CountLess
    <3>3. CASE q = p
      <4>1. /\ Holders(p)' = Holders(p) \cup {a}
            /\ pc = "put" => Admitted(p)' = Admitted(p) \cup {a}
            /\ pc # "put" => Admitted(p)' = Admitted(p) \ {a}
        BY <2>2, HolderTakes
      <4>2. \/ Admitted(p)' \subseteq Admitted(p)
            \/ /\ Admitted(p)' = Admitted(p) \cup {a}
               /\ used'[p] <= MaxRunsPerDay
        BY <2>2, <4>1
      <4>3. Standing(p)' = Standing(p) BY <1>c, <2>1
      <4> QED BY <2>3, <3>1, <3>3, <4>1, <4>2, <4>3, CountReserved
    <3> QED BY <3>2, <3>3
  <2> QED BY <2>3, <2>5 DEF CountInv, CountOf
<1>9. ASSUME NEW a \in Attempts, Rollback(a) \/ Unusable(a) PROVE Goal
  <2>0. leases' = leases /\ sub[a].pledge \in Pledges
    BY <1>9, <1>d DEF Rollback, Unusable, HoldOf
  <2>p. PICK p \in Pledges : p = sub[a].pledge BY <2>0
  <2>1. SubMove(a, "choose", sub[a].took, NoPledge, FALSE, 0)
    BY <1>9, ActDeclined
  <2>2. CASE ~sub[a].unit
    <3>1. used' = used BY <1>9, <1>d, <2>2 DEF Rollback, Unusable, HoldOf
    <3> QED BY <1>b, <1>c, <2>0, <2>1, <3>1
  <2>3. CASE sub[a].unit
    <3>1. \A q : /\ Holders(q)' = Holders(q) \ {a} /\ Admitted(q)' = Admitted(q) \ {a}
                 /\ Standing(q)' = Standing(q)
      BY <1>c, <2>0, <2>1, HolderLeaves
    <3>2. a \in Holders(p) BY <2>3, <2>p DEF Holders
    <3>3. used[p] > 0 BY <2>0, <3>1, <3>2, CountDeclined
    <3>4. used' = [used EXCEPT ![p] = @ - 1]
      BY <1>9, <2>p, <2>3, <3>3 DEF Rollback, Unusable, GiveBack
    <3>5. used[p] \in Nat /\ used'[p] = used[p] - 1 /\ used' \in [Pledges -> Nat]
      BY <2>0, <3>3, <3>4
    <3>6. CountOf(p)' BY <2>0, <3>1, <3>2, <3>5, CountDeclined
    <3>7. ASSUME NEW q \in Pledges, q # p PROVE CountOf(q)'
      <4>1. used'[q] = used[q] BY <3>4, <3>7
      <4>2. /\ Holders(q)' \subseteq Holders(q) /\ Admitted(q)' \subseteq Admitted(q)
            /\ Standing(q)' \subseteq Standing(q)
        BY <3>1
      <4> QED BY <4>1, <4>2, CountLess
    <3> QED BY <3>5, <3>6, <3>7 DEF CountInv, CountOf
  <2> QED BY <1>d, <2>2, <2>3
<1>10. ASSUME NEW a \in Attempts, Put(a) PROVE Goal
  <2> DEFINE p == sub[a].pledge
             n == Len(leases) + 1
  <2>0. used' = used /\ sub[a].pc = "put" BY <1>10 DEF Put
  <2>1. SubMove(a, Acquired(a), sub[a].took, NoPledge, FALSE, n)
    BY <1>10, ActPut
  <2>2. /\ n \notin Ids /\ Ids' = Ids \cup {n}
        /\ \A i \in Ids : leases'[i] = leases[i]
        /\ leases'[n].pledge = p /\ (leases'[n].unit <=> sub[a].unit)
        /\ leases'[n].outcome = "open"
    BY <1>10, PutFields
  <2> HIDE DEF n
  <2>3. ASSUME NEW q \in Pledges PROVE CountOf(q)'
    <3>1. Holders(q)' = Holders(q) \ {a} /\ Admitted(q)' = Admitted(q) \ {a}
      BY <2>1, HolderLeaves
    <3>2. CASE sub[a].unit /\ q = p
      <4>1. a \in Admitted(q) BY <2>0, <3>2 DEF Admitted, Holders
      <4>2. n \notin Standing(q) /\ Standing(q)' = Standing(q) \cup {n}
        BY <2>2, <3>2 DEF Standing
      <4> QED BY <2>0, <3>1, <4>1, <4>2, CountRecorded
    <3>3. CASE ~sub[a].unit \/ q # p
      <4>1. Standing(q)' = Standing(q)
        BY <2>2, <3>3 DEF Standing
      <4> QED BY <2>0, <3>1, <4>1, CountLess
    <3> QED BY <3>2, <3>3
  <2> QED BY <1>a, <2>0, <2>3
<1>11. ASSUME NEW a \in Attempts, ReleaseGrant(a) PROVE Goal
  <2> DEFINE i == sub[a].lease
  <2>1. \/ SubMove(a, "returned", {}, NoPledge, FALSE, 0)
        \/ SubMove(a, "revert", sub[a].took, sub[a].pledge, FALSE, i)
    BY <1>11, ActRelease
  <2>2. CASE ~(i # 0 /\ leases[i].outcome = "open")
    <3>1. leases' = leases /\ used' = used BY <1>11, <2>2 DEF ReleaseGrant
    <3> QED BY <1>b, <1>c, <2>1, <3>1
  <2>3. CASE i # 0 /\ leases[i].outcome = "open"
    <3>1. /\ i \in Ids
          /\ leases' = Closed({i}, "not_launched", 0)
          /\ used' = IF leases[i].unit THEN GiveBack(leases[i].pledge) ELSE used
      <4>1. i \in {0} \cup Ids BY DEF TypeOK
      <4> QED BY <1>11, <2>3, <4>1 DEF ReleaseGrant
    <3> HIDE DEF i
    <3>2. /\ Ids' = Ids /\ \A j \in Ids : SameLease(j)
          /\ \A j \in Ids : leases'[j].outcome = IF j = i THEN "not_launched"
                                                 ELSE leases[j].outcome
      <4>1. "not_launched" \in Outcomes /\ 0 \in Nat BY DEF Outcomes
      <4> QED BY <2>3, <3>1, <4>1, ClosedFields
    <3>3. leases[i].pledge \in Pledges /\ leases[i].unit \in BOOLEAN
      BY <3>1, LeaseTable DEF LeaseDocs
    <3>4. \A q : Standing(q)' = Standing(q) \ {i}
      BY <3>2 DEF Standing, SameLease
    <3>5. CASE ~leases[i].unit
      BY <1>b, <2>1, <3>1, <3>4, <3>5
    <3>6. CASE leases[i].unit
      <4>p. PICK p \in Pledges : p = leases[i].pledge BY <3>3
      <4>1. i \in Standing(p) BY <2>3, <3>1, <3>6, <4>p DEF Standing
      <4>2. \A q : Holders(q)' = Holders(q) \ {a} /\ Admitted(q)' = Admitted(q) \ {a}
        BY <2>1, HolderLeaves
      <4>3. p \in Pledges OBVIOUS
      <4>4. used' = GiveBack(p) BY <3>1, <3>6, <4>p
      <4>5. used[p] > 0 BY <3>4, <4>1, <4>2, <4>3, CountReleased
      <4>6. used' = [used EXCEPT ![p] = @ - 1] BY <4>3, <4>4, <4>5 DEF GiveBack
      <4>7. used[p] \in Nat /\ used'[p] = used[p] - 1 /\ used' \in [Pledges -> Nat]
        BY <4>3, <4>5, <4>6
      <4>8. CountOf(p)' BY <3>4, <4>1, <4>2, <4>3, <4>7, CountReleased
      <4>9. ASSUME NEW q \in Pledges, q # p PROVE CountOf(q)'
        <5>1. used'[q] = used[q] BY <4>6, <4>9
        <5>2. /\ Holders(q)' \subseteq Holders(q) /\ Admitted(q)' \subseteq Admitted(q)
              /\ Standing(q)' \subseteq Standing(q)
          BY <3>4, <4>2
        <5> QED BY <5>1, <5>2, CountLess
      <4> QED BY <4>7, <4>8, <4>9 DEF CountInv, CountOf
    <3> QED BY <3>3, <3>5, <3>6
  <2> QED BY <2>2, <2>3
<1>12. CASE Outside
  <2>1. used' = used /\ sub' = sub BY <1>12, OutsideKeeps
  <2>2. \A p \in Pledges : Standing(p)' = Standing(p)
    <3>1. CASE QuietRun BY <1>c, <3>1, QuietLeases
    <3>2. ASSUME NEW i \in Ids, ReleaseExpired(i)
          PROVE  \A p \in Pledges : Standing(p)' = Standing(p)
      <4>1. "abandoned" \in Outcomes /\ 0 \in Nat BY DEF Outcomes
      <4>2. leases' = Closed({i}, "abandoned", 0) BY <3>2 DEF ReleaseExpired
      <4> QED BY <4>1, <4>2, ClosedFields, StandingKept
    <3>3. ASSUME NEW t \in reports, ReportAttempt(t)
          PROVE  \A p \in Pledges : Standing(p)' = Standing(p)
      <4>1. t \in ReportDocs /\ t.lease \in Ids BY DEF TypeOK
      <4> QED BY <3>3, <4>1, ReportFields, StandingKept
    <3> QED BY <1>12, <3>1, <3>2, <3>3 DEF Outside
  <2>3. ASSUME NEW p \in Pledges PROVE CountOf(p)'
    <3>1. Holders(p)' = Holders(p) /\ Admitted(p)' = Admitted(p)
      BY <2>1 DEF Holders, Admitted
    <3> QED BY <2>1, <2>2, <3>1, CountLess
  <2> QED BY <1>a, <2>1, <2>3
<1> QED BY <1>1, <1>2, <1>3, <1>4, <1>5, <1>6, <1>7, <1>8, <1>9, <1>10, <1>11,
           <1>12, StepKinds DEF QuietSub, Closes, Reopens, Outside

-----------------------------------------------------------------------------
(* The documents, messages, deliveries and reports keep their types.       *)

RunDocs == [status : {"none", "queued", "running", "resumable", "failed"},
            marker : Nat]

MsgDocs(ids) == [kind : {"none", "granted", "grantless"}, at : {0} \cup ids]

\* A publication is placed at or after its own lease.
LEMMA PublishedFields ==
    ASSUME TypeOK, NEW a \in Attempts, Published(a)
    PROVE  /\ msg' \in [Attempts -> MsgDocs(Ids)]
           /\ \A b \in Attempts : b # a => msg'[b] = msg[b]
           /\ \/ sub[a].lease = 0 /\ msg'[a].kind = "grantless"
              \/ /\ sub[a].lease \in Ids
                 /\ msg'[a].kind = "granted"
                 /\ msg'[a].at \in Ids /\ sub[a].lease <= msg'[a].at
<1>0. /\ Len(leases) \in Nat /\ Ids = 1 .. Len(leases)
      /\ msg \in [Attempts -> MsgDocs(Ids)] /\ sub[a].lease \in {0} \cup Ids
  BY LeaseTable DEF TypeOK, MsgDocs
<1>1. ASSUME NEW x \in MsgDocs(Ids), msg' = [msg EXCEPT ![a] = x]
      PROVE  /\ msg' \in [Attempts -> MsgDocs(Ids)]
             /\ \A b \in Attempts : b # a => msg'[b] = msg[b]
             /\ msg'[a] = x
  BY <1>0, <1>1
<1>2. CASE sub[a].lease = 0
  <2> DEFINE x == [kind |-> "grantless", at |-> 0]
  <2>1. x \in MsgDocs(Ids) /\ x.kind = "grantless" BY DEF MsgDocs
  <2>2. msg' = [msg EXCEPT ![a] = x] BY <1>2 DEF Published
  <2> HIDE DEF x
  <2> QED BY <1>1, <1>2, <2>1, <2>2
<1>3. CASE sub[a].lease # 0
  <2>1. PICK at \in sub[a].lease .. Len(leases) :
           msg' = [msg EXCEPT ![a] = [kind |-> "granted", at |-> at]]
    BY <1>3, Zenon DEF Published
  <2> DEFINE x == [kind |-> "granted", at |-> at]
  <2>2. sub[a].lease \in Ids BY <1>0, <1>3
  <2>3. at \in Ids /\ sub[a].lease <= at BY <1>0, <2>1, <2>2
  <2>4. x \in MsgDocs(Ids) /\ x.kind = "granted" /\ x.at = at BY <2>3 DEF MsgDocs
  <2>5. msg' = [msg EXCEPT ![a] = x] BY <2>1
  <2> HIDE DEF x
  <2> QED BY <1>1, <2>2, <2>3, <2>4, <2>5
<1> QED BY <1>2, <1>3

\* Messages change in a publication alone, and a run is overlapped by a
\* submission alone.
LEMMA HistoryMoves ==
    ASSUME [Next]_vars
    PROVE  /\ \/ msg' = msg
              \/ \E a \in Attempts : Publish(a) \/ SubmissionFails(a)
           /\ overlapped' = overlapped \/ \E a \in Attempts : Submit(a)
<1>1. CASE Outside BY <1>1, OutsideKeeps
<1>2. ASSUME NEW a \in Attempts, Submit(a) PROVE msg' = msg
  BY <1>2 DEF Submit
<1>3. ASSUME NEW a \in Attempts, Publish(a) \/ SubmissionFails(a)
      PROVE  overlapped' = overlapped
  BY <1>3 DEF Publish, SubmissionFails
<1>4. ASSUME NEW a \in Attempts,
             \/ SupersedeOpenLeases(a) \/ Rollback(a) \/ Unusable(a) \/ Put(a)
             \/ NoDonor(a) \/ SaveRun(a) \/ FailRunAtLaunch(a) \/ ReleaseGrant(a)
             \/ RevertQueuedFlip(a) \/ ReopenSuperseded(a) \/ SupersedeRun(a)
             \/ ServerDies(a)
      PROVE  msg' = msg /\ overlapped' = overlapped
  BY <1>4 DEF SupersedeOpenLeases, Rollback, Unusable, Put, NoDonor, SaveRun,
     FailRunAtLaunch, ReleaseGrant, RevertQueuedFlip, ReopenSuperseded,
     SupersedeRun, ServerDies
<1>5. ASSUME NEW a \in Attempts, NEW p \in Pledges, Renew(a, p) \/ Reserve(a, p)
      PROVE  msg' = msg /\ overlapped' = overlapped
  BY <1>5 DEF Renew, Reserve
<1> QED BY <1>1, <1>2, <1>3, <1>4, <1>5, StepKinds
        DEF QuietSub, Closes, Reopens, Outside

\* A message that changes is published under leases that stay.
LEMMA MsgMoves ==
    ASSUME [Next]_vars
    PROVE  \/ msg' = msg
           \/ \E a \in Attempts : /\ sub[a].pc = "publish" /\ Published(a)
                                  /\ leases' = leases /\ Ids' = Ids
                                  /\ overlapped' = overlapped
<1>1. ASSUME NEW a \in Attempts, Publish(a) \/ SubmissionFails(a)
      PROVE  \/ msg' = msg
             \/ /\ sub[a].pc = "publish" /\ Published(a)
                /\ leases' = leases /\ Ids' = Ids /\ overlapped' = overlapped
  BY <1>1 DEF Publish, SubmissionFails, Ids
<1> QED BY <1>1, HistoryMoves

\* The run documents keep their type.
LEMMA DocStep ==
    ASSUME TypeOK, [Next]_vars
    PROVE  doc' \in [Runs -> RunDocs]
<1> DEFINE Goal == doc' \in [Runs -> RunDocs]
<1>0. doc \in [Runs -> RunDocs] BY DEF TypeOK, RunDocs
<1>a. ASSUME NEW r \in Runs, NEW x \in RunDocs, doc' = [doc EXCEPT ![r] = x]
      PROVE  Goal
  BY <1>0, <1>a
<1>b. ASSUME NEW r \in Runs,
             NEW s \in {"none", "queued", "running", "resumable", "failed"},
             doc' = [doc EXCEPT ![r].status = s]
      PROVE  Goal
  <2> DEFINE x == [doc[r] EXCEPT !.status = s]
  <2>1. x \in RunDocs BY <1>0 DEF RunDocs
  <2>2. doc' = [doc EXCEPT ![r] = x] BY <1>b, Zenon
  <2> HIDE DEF x
  <2> QED BY <1>a, <2>1, <2>2
<1>1. ASSUME NEW a \in Attempts, Submit(a) PROVE Goal
  <2> DEFINE x == [status |-> "queued", marker |-> a[2]]
  <2>1. x \in RunDocs /\ a[1] \in Runs BY AttemptParts DEF RunDocs
  <2>2. doc' = doc \/ doc' = [doc EXCEPT ![a[1]] = x] BY <1>1, Zenon DEF Submit
  <2> HIDE DEF x
  <2> QED BY <1>0, <1>a, <2>1, <2>2
<1>2. ASSUME NEW a \in Attempts, SaveRun(a) PROVE Goal
  <2> DEFINE x == [status |-> "queued", marker |-> Launch]
  <2>1. x \in RunDocs /\ a[1] \in Runs BY AttemptParts DEF RunDocs, Launch
  <2>2. doc' = [doc EXCEPT ![a[1]] = x] BY <1>2, Zenon DEF SaveRun
  <2> HIDE DEF x
  <2> QED BY <1>a, <2>1, <2>2
<1>3. ASSUME NEW a \in Attempts, FailRunAtLaunch(a) PROVE Goal
  <2>1. doc' = doc \/ doc' = [doc EXCEPT ![a[1]].status = "failed"]
    BY <1>3, Zenon DEF FailRunAtLaunch
  <2> QED BY <1>0, <1>b, <2>1, AttemptParts
<1>4. ASSUME NEW a \in Attempts, RevertQueuedFlip(a) PROVE Goal
  <2> DEFINE x == [status |-> "resumable", marker |-> sub[a].prior]
  <2>1. x \in RunDocs /\ a[1] \in Runs BY AttemptParts DEF RunDocs, TypeOK
  <2>2. doc' = doc \/ doc' = [doc EXCEPT ![a[1]] = x]
    BY <1>4, Zenon DEF RevertQueuedFlip
  <2> HIDE DEF x
  <2> QED BY <1>0, <1>a, <2>1, <2>2
<1>5. ASSUME NEW a \in Attempts, Execute(a) PROVE Goal
  <2>1. doc' = [doc EXCEPT ![a[1]].status = "running"] BY <1>5, Zenon DEF Execute
  <2> QED BY <1>b, <2>1, AttemptParts
<1>6. ASSUME NEW r \in Runs, Stops(r) PROVE Goal
  <2>1. doc' = [doc EXCEPT ![r].status = "resumable"] BY <1>6, Zenon DEF Stops
  <2> QED BY <1>b, <2>1
<1>7. CASE doc' = doc BY <1>0, <1>7
<1>8. \/ doc' = doc
      \/ \E a \in Attempts : \/ Submit(a) \/ SaveRun(a) \/ FailRunAtLaunch(a)
                             \/ RevertQueuedFlip(a) \/ Execute(a)
      \/ \E r \in Runs : Stops(r)
  <2>1. ASSUME NEW a \in Attempts,
               \/ SupersedeOpenLeases(a) \/ Rollback(a)
               \/ \E p \in Pledges : Renew(a, p) \/ Reserve(a, p)
        PROVE  doc' = doc
    BY <2>1 DEF SupersedeOpenLeases, Rollback, Renew, Reserve, SubKeeps
  <2>2. ASSUME NEW a \in Attempts,
               \/ Unusable(a) \/ Put(a) \/ NoDonor(a)
               \/ Publish(a) \/ SubmissionFails(a)
        PROVE  doc' = doc
    BY <2>2 DEF Unusable, Put, NoDonor, Publish, SubmissionFails, SubKeeps
  <2>3. ASSUME NEW a \in Attempts,
               \/ ReleaseGrant(a) \/ ReopenSuperseded(a) \/ SupersedeRun(a)
               \/ ServerDies(a)
               \/ \E interim \in BOOLEAN : EndExecution(a, interim)
        PROVE  doc' = doc
    BY <2>3 DEF ReleaseGrant, ReopenSuperseded, SupersedeRun, ServerDies,
        EndExecution, SubKeeps
  <2>4. ASSUME \/ \E t \in reports : ReportAttempt(t)
               \/ \E i \in Ids : ReleaseExpired(i)
        PROVE  doc' = doc
    BY <2>4 DEF ReportAttempt, ReleaseExpired
  <2>5. CASE UNCHANGED vars
    BY <2>5 DEF vars
  <2> QED BY <2>1, <2>2, <2>3, <2>4, <2>5 DEF Next
<1> QED BY <1>1, <1>2, <1>3, <1>4, <1>5, <1>6, <1>7, <1>8

\* A delivery that executes or ends is counted.
LEMMA DelivStep ==
    ASSUME TypeOK, [Next]_vars
    PROVE  deliv' \in [Attempts -> [begun : Nat, executing : Nat]]
<1> DEFINE Goal == deliv' \in [Attempts -> [begun : Nat, executing : Nat]]
<1>0. deliv \in [Attempts -> [begun : Nat, executing : Nat]] BY DEF TypeOK
<1>a. ASSUME NEW a \in Attempts, NEW x \in [begun : Nat, executing : Nat],
             deliv' = [deliv EXCEPT ![a] = x]
      PROVE  Goal
  BY <1>0, <1>a
<1>1. ASSUME NEW a \in Attempts, Execute(a) PROVE Goal
  <2> DEFINE n == deliv[a].begun + 1
             m == deliv[a].executing + 1
             x == [deliv[a] EXCEPT !.begun = n, !.executing = m]
  <2>0. n \in Nat /\ m \in Nat BY <1>0
  <2>2. deliv' = [deliv EXCEPT ![a] = x] BY <1>0, <1>1, Zenon DEF Execute
  <2> HIDE DEF n, m
  <2>1. x \in [begun : Nat, executing : Nat] BY <1>0, <2>0
  <2> HIDE DEF x
  <2> QED BY <1>a, <2>1, <2>2
<1>2. ASSUME NEW a \in Attempts, NEW interim \in BOOLEAN, EndExecution(a, interim)
      PROVE  Goal
  <2> DEFINE n == IF interim THEN deliv[a].begun ELSE MaxDeliver[a]
             m == deliv[a].executing - 1
             x == [deliv[a] EXCEPT !.executing = m, !.begun = n]
  <2>0. deliv[a].executing > 0 BY <1>2 DEF EndExecution
  <2>1. n \in Nat /\ m \in Nat BY <1>0, <2>0, PoolAssumption
  <2>2. deliv' = [deliv EXCEPT ![a] = x] BY <1>0, <1>2, Zenon DEF EndExecution
  <2> HIDE DEF n, m
  <2>3. x \in [begun : Nat, executing : Nat] BY <1>0, <2>1
  <2> HIDE DEF x
  <2> QED BY <1>a, <2>2, <2>3
<1>3. CASE deliv' = deliv BY <1>0, <1>3
<1>4. \/ deliv' = deliv
      \/ \E a \in Attempts : \/ Execute(a)
                             \/ \E interim \in BOOLEAN : EndExecution(a, interim)
  <2>1. ASSUME NEW a \in Attempts,
               \/ Submit(a) \/ SupersedeOpenLeases(a) \/ Rollback(a)
               \/ \E p \in Pledges : Renew(a, p) \/ Reserve(a, p)
        PROVE  deliv' = deliv
    BY <2>1 DEF Submit, SupersedeOpenLeases, Rollback, Renew, Reserve, SubKeeps
  <2>2. ASSUME NEW a \in Attempts,
               \/ Unusable(a) \/ Put(a) \/ NoDonor(a)
               \/ SaveRun(a) \/ Publish(a) \/ SubmissionFails(a)
        PROVE  deliv' = deliv
    BY <2>2 DEF Unusable, Put, NoDonor, SaveRun, Publish, SubmissionFails,
        SubKeeps
  <2>3. ASSUME NEW a \in Attempts,
               \/ FailRunAtLaunch(a) \/ ReleaseGrant(a) \/ RevertQueuedFlip(a)
               \/ ReopenSuperseded(a) \/ SupersedeRun(a) \/ ServerDies(a)
        PROVE  deliv' = deliv
    BY <2>3 DEF FailRunAtLaunch, ReleaseGrant, RevertQueuedFlip,
        ReopenSuperseded, SupersedeRun, ServerDies, SubKeeps
  <2>4. ASSUME \/ \E t \in reports : ReportAttempt(t)
               \/ \E i \in Ids : ReleaseExpired(i)
               \/ \E r \in Runs : Stops(r)
        PROVE  deliv' = deliv
    BY <2>4 DEF ReportAttempt, ReleaseExpired, Stops
  <2>5. CASE UNCHANGED vars
    BY <2>5 DEF vars
  <2> QED BY <2>1, <2>2, <2>3, <2>4, <2>5 DEF Next
<1> QED BY <1>1, <1>2, <1>3, <1>4

\* Reports are added where an execution of a granted delivery ends, for the
\* lease it picks.
LEMMA ReportMoves ==
    ASSUME [Next]_vars
    PROVE  \/ reports' \subseteq reports
           \/ \E a \in Attempts, interim \in BOOLEAN :
                 /\ EndExecution(a, interim) /\ msg[a].kind = "granted"
                 /\ leases' = leases /\ Ids' = Ids
                 /\ reports' = reports \cup
                       {[att |-> a, lease |-> i, saw |-> leases[i].outcome,
                         interim |-> interim, left |-> deliv[a].executing] :
                        i \in AttemptLease(a)}
<1>1. CASE reports' \subseteq reports BY <1>1
<1>2. ASSUME NEW a \in Attempts, NEW interim \in BOOLEAN, EndExecution(a, interim)
      PROVE  \/ reports' \subseteq reports
             \/ /\ EndExecution(a, interim) /\ msg[a].kind = "granted"
                /\ leases' = leases /\ Ids' = Ids
                /\ reports' = reports \cup
                       {[att |-> a, lease |-> i, saw |-> leases[i].outcome,
                         interim |-> interim, left |-> deliv[a].executing] :
                        i \in AttemptLease(a)}
  <2>1. leases' = leases /\ Ids' = Ids BY <1>2 DEF EndExecution, Ids
  <2> QED BY <1>2, <2>1, Zenon DEF EndExecution
<1>3. \/ reports' \subseteq reports
      \/ \E a \in Attempts, interim \in BOOLEAN : EndExecution(a, interim)
  <2>1. ASSUME NEW a \in Attempts,
               \/ Submit(a) \/ SupersedeOpenLeases(a) \/ Rollback(a)
               \/ \E p \in Pledges : Renew(a, p) \/ Reserve(a, p)
        PROVE  reports' = reports
    BY <2>1 DEF Submit, SupersedeOpenLeases, Renew, Reserve, Rollback, SubKeeps
  <2>2. ASSUME NEW a \in Attempts,
               \/ Unusable(a) \/ Put(a) \/ NoDonor(a) \/ SaveRun(a)
               \/ Publish(a) \/ SubmissionFails(a)
        PROVE  reports' = reports
    BY <2>2 DEF Unusable, Put, NoDonor, SaveRun, Publish, SubmissionFails, SubKeeps
  <2>3. ASSUME NEW a \in Attempts,
               \/ FailRunAtLaunch(a) \/ ReleaseGrant(a) \/ RevertQueuedFlip(a)
               \/ ReopenSuperseded(a) \/ SupersedeRun(a) \/ ServerDies(a)
               \/ Execute(a)
        PROVE  reports' = reports
    BY <2>3 DEF FailRunAtLaunch, ReleaseGrant, RevertQueuedFlip,
                ReopenSuperseded, SupersedeRun, ServerDies, Execute, SubKeeps
  <2>4. ASSUME (\E r \in Runs : Stops(r)) \/ (\E i \in Ids : ReleaseExpired(i))
        PROVE  reports' = reports
    BY <2>4 DEF Stops, ReleaseExpired
  <2>5. ASSUME NEW t \in reports, ReportAttempt(t)
        PROVE  reports' \subseteq reports
    BY <2>5 DEF ReportAttempt
  <2>6. CASE UNCHANGED vars
    BY <2>6 DEF vars
  <2> QED BY <2>1, <2>2, <2>3, <2>4, <2>5, <2>6 DEF Next
<1> QED BY <1>2, <1>3

\* Every step keeps the types, the registers and the ledger.
LEMMA TypeStep ==
    ASSUME BaseInv, CountInv, [Next]_vars
    PROVE  BaseInv' /\ CountInv'
<1> USE DEF BaseInv
<1>1. used' \in [Pledges -> Nat] /\ CountInv' BY CountStep
<1>2. leases' \in Seq(LeaseDocs) /\ Ids \subseteq Ids' BY LeaseStep
<1>3. HoldInv' /\ sub' \in [Attempts -> SubDocs(Ids')] BY HoldStep
<1>4. doc' \in [Runs -> RunDocs] BY DocStep
<1>5. msg' \in [Attempts -> MsgDocs(Ids')]
  <2>1. msg \in [Attempts -> MsgDocs(Ids)] BY DEF TypeOK, MsgDocs
  <2>2. MsgDocs(Ids) \subseteq MsgDocs(Ids') BY <1>2 DEF MsgDocs
  <2>3. msg' = msg \/ \E a \in Attempts : Published(a) BY MsgMoves
  <2>4. msg' = msg \/ msg' \in [Attempts -> MsgDocs(Ids)] BY <2>3, PublishedFields
  <2> QED BY <2>1, <2>2, <2>4
<1>6. deliv' \in [Attempts -> [begun : Nat, executing : Nat]] BY DelivStep
<1>7. reports' \subseteq ReportDocs /\ \A t \in reports' : t.att \in Attempts /\ t.lease \in Ids'
  <2>1. \A t \in reports : t.att \in Attempts /\ t.lease \in Ids BY DEF TypeOK
  <2>2. CASE reports' \subseteq reports BY <1>2, <2>1, <2>2
  <2>3. ASSUME NEW a \in Attempts, NEW interim \in BOOLEAN,
               reports' = reports \cup
                       {[att |-> a, lease |-> i, saw |-> leases[i].outcome,
                         interim |-> interim, left |-> deliv[a].executing] :
                        i \in AttemptLease(a)}
        PROVE  /\ reports' \subseteq ReportDocs
               /\ \A t \in reports' : t.att \in Attempts /\ t.lease \in Ids'
    <3>1. AttemptLease(a) \subseteq Ids BY DEF AttemptLease, OpenOf
    <3>2. deliv[a].executing \in Nat BY DEF TypeOK
    <3>3. Ids \subseteq Nat /\ \A i \in Ids : leases[i].outcome \in Outcomes
      <4>1. /\ Len(leases) \in Nat /\ Ids = 1 .. Len(leases)
            /\ \A i \in Ids : leases[i] \in LeaseDocs
        BY LeaseTable DEF TypeOK
      <4> QED BY <4>1 DEF LeaseDocs
    <3>4. ASSUME NEW i \in AttemptLease(a), NEW t,
                 t = [att |-> a, lease |-> i, saw |-> leases[i].outcome,
                      interim |-> interim, left |-> deliv[a].executing]
          PROVE  t \in ReportDocs /\ t.att \in Attempts /\ t.lease \in Ids'
      BY <1>2, <3>1, <3>2, <3>3, <3>4 DEF ReportDocs
    <3> QED BY <1>2, <2>1, <2>3, <3>4
  <2> QED BY <2>2, <2>3, ReportMoves
<1>8. overlapped' \in SUBSET Runs
  <2>1. overlapped' = overlapped \/ \E a \in Attempts : overlapped' = overlapped \cup {a[1]}
    BY HistoryMoves DEF Submit
  <2> QED BY <2>1, AttemptParts DEF TypeOK
<1> QED BY <1>1, <1>2, <1>3, <1>4, <1>5, <1>6, <1>7, <1>8
    DEF TypeOK, SubDocs, RunDocs, MsgDocs

-----------------------------------------------------------------------------
(* Settlement, and the registers of a submission.                          *)

\* A lease that was settled is never closed, reopened or settled again.
LEMMA SettleStep ==
    ASSUME BaseInv, SettleInv, [Next]_vars
    PROVE  SettleInv'
<1> USE DEF BaseInv
<1>0. /\ leases \in Seq(LeaseDocs)
      /\ \A i \in Ids : leases[i].settled \in Nat /\ leases[i].outcome \in Outcomes
  <2>1. /\ leases \in Seq(LeaseDocs) /\ \A i \in Ids : leases[i] \in LeaseDocs
    BY LeaseTable DEF TypeOK
  <2> QED BY <2>1 DEF LeaseDocs
<1>1. CASE QuietRun \/ \E a \in Attempts : QuietSub(a)
  BY <1>1, QuietLeases DEF SettleInv
<1>2. CASE Closes
  BY <1>0, <1>2, CloseFields DEF SettleInv, SameCharge
<1>3. CASE Reopens
  <2>1. PICK a \in Attempts : leases' = Reopened(sub[a].took, a)
    BY <1>3 DEF Reopens, NoDonor, ReopenSuperseded
  <2> QED BY <1>0, <2>1, ReopenedFields DEF SettleInv, SameCharge
<1>4. ASSUME NEW a \in Attempts, Put(a) PROVE SettleInv'
  <2> DEFINE n == Len(leases) + 1
  <2>1. /\ Ids' = Ids \cup {n} /\ leases'[n].settled = 0
        /\ \A i \in Ids : leases'[i] = leases[i]
    BY <1>4, PutFields
  <2> HIDE DEF n
  <2> QED BY <2>1 DEF SettleInv
<1>5. ASSUME NEW t \in reports, ReportAttempt(t) PROVE SettleInv'
  <2>1. t \in ReportDocs /\ t.lease \in Ids BY DEF TypeOK
  <2>2. /\ Ids' = Ids /\ \A i \in Ids : i # t.lease => leases'[i] = leases[i]
        /\ LET l == leases[t.lease]  m == leases'[t.lease] IN
           \/ m = l
           \/ m.outcome = l.outcome /\ m.settled = l.settled
           \/ /\ l.outcome \in {"open", "superseded", "superseded_grantless"}
              /\ m.outcome \in {"ok", "superseded_reported"}
              /\ m.settled = l.settled + 1
    BY <1>0, <1>5, <2>1, ReportFields
  <2> QED BY <1>0, <2>1, <2>2 DEF SettleInv
<1> QED BY <1>1, <1>2, <1>3, <1>4, <1>5, StepKinds

\* The steps of a submission.
Acts(a) ==
    \/ QuietSub(a)
    \/ SupersedeOpenLeases(a) \/ ReleaseGrant(a) \/ SupersedeRun(a)
    \/ NoDonor(a) \/ ReopenSuperseded(a) \/ Put(a)

\* Every step is one of a submission, or outside all of them.
LEMMA Movers ==
    ASSUME [Next]_vars
    PROVE  Outside \/ \E a \in Attempts : Acts(a)
BY StepKinds DEF Outside, Acts, Closes, Reopens

\* A submission's step moves no other, starts one only in Submit, takes over
\* only the open leases of its run and holds only the lease it records.
LEMMA ActsEffect ==
    ASSUME BaseInv, Ids \subseteq Ids', NEW a \in Attempts, Acts(a)
    PROVE  /\ \A b \in Attempts : b # a => sub'[b] = sub[b]
           /\ Submit(a) => ~InFlight(a)
           /\ ~Submit(a) => InFlight(a)
           /\ sub'[a].took \subseteq sub[a].took \cup OpenOf(a[1])
           /\ \/ sub'[a].lease \in {0, sub[a].lease}
              \/ Put(a) /\ sub'[a].lease = Len(leases) + 1
<1> DEFINE Frame == \A b \in Attempts : b # a => sub'[b] = sub[b]
           Regs == /\ sub'[a].took \subseteq sub[a].took \cup OpenOf(a[1])
                   /\ sub'[a].lease \in {0, sub[a].lease}
           Goal == Frame /\ InFlight(a) /\ Regs
<1>1. CASE Submit(a)
  <2>1. SubMove(a, "supersede", {}, NoPledge, FALSE, 0)
    BY <1>1, MoveSubmit DEF BaseInv
  <2> QED BY <1>1, <2>1 DEF SubMove, Submit, InFlight
<1>2. CASE SupersedeOpenLeases(a)
  <2>1. Goal BY <1>2, ActSupersede DEF SubMove, SupersedeOpenLeases, InFlight
  <2> QED BY <2>1, <1>2 DEF SupersedeOpenLeases, Submit
<1>3. ASSUME NEW p \in Pledges, Renew(a, p) PROVE Goal
  <2>1. \/ SubMove(a, "put", sub[a].took, p, FALSE, 0)
        \/ SubMove(a, "choose", sub[a].took, sub[a].pledge, FALSE, 0)
    BY <1>3, ActRenew
  <2> QED BY <1>3, <2>1 DEF SubMove, Renew, InFlight
<1>4. ASSUME NEW p \in Pledges, Reserve(a, p) PROVE Goal
  <2>1. PICK pc \in {"put", "roll back"} : SubMove(a, pc, sub[a].took, p, TRUE, 0)
    BY <1>4, ActReserve
  <2> QED BY <1>4, <2>1 DEF SubMove, Reserve, InFlight
<1>5. CASE Rollback(a) \/ Unusable(a)
  BY <1>5, ActDeclined DEF SubMove, Rollback, Unusable, InFlight, Submit
<1>6. CASE Put(a)
  <2>1. SubMove(a, Acquired(a), sub[a].took, NoPledge, FALSE, Len(leases) + 1)
    BY <1>6, ActPut
  <2> QED BY <1>6, <2>1 DEF SubMove, Put, InFlight, Submit
<1>7. CASE NoDonor(a)
  BY <1>7, ActNoDonor DEF SubMove, NoDonor, InFlight, Submit
<1>8. CASE SaveRun(a) \/ SubmissionFails(a) \/ FailRunAtLaunch(a)
  <2>1. PICK pc \in {"publish", "fail launch", "release"} :
           SubMove(a, pc, sub[a].took, sub[a].pledge, FALSE, sub[a].lease)
    BY <1>8, ActOn
  <2>2. sub[a].pc \in {"save", "publish", "fail launch"} BY <1>8, ActOn
  <2> QED BY <2>1, <2>2 DEF SubMove, InFlight, Submit
<1>9. CASE Publish(a)
  BY <1>9, ActPublish DEF SubMove, Publish, InFlight, Submit
<1>10. CASE ReleaseGrant(a)
  BY <1>10, ActRelease DEF SubMove, ReleaseGrant, InFlight, Submit
<1>11. CASE RevertQueuedFlip(a)
  BY <1>11, ActRevert DEF SubMove, RevertQueuedFlip, InFlight, Submit
<1>12. CASE ReopenSuperseded(a) \/ SupersedeRun(a) \/ ServerDies(a)
  BY <1>12, ActReturn DEF SubMove, ReopenSuperseded, SupersedeRun, ServerDies,
     InFlight, Submit
<1>13. CASE \E p \in Pledges : Renew(a, p) \/ Reserve(a, p)
  <2>1. Goal BY <1>3, <1>4, <1>13
  <2>2. ~Submit(a) BY <1>13 DEF Renew, Reserve, Submit
  <2> QED BY <2>1, <2>2
<1> QED BY <1>1, <1>2, <1>5, <1>6, <1>7, <1>8, <1>9, <1>10, <1>11, <1>12, <1>13
    DEF Acts, QuietSub

\* The leases a submission holds or took over stay those of its run.
LEMMA OwnStep ==
    ASSUME BaseInv, OwnInv, [Next]_vars
    PROVE  OwnInv'
<1> USE DEF BaseInv
<1>0. /\ Ids \subseteq Ids' /\ \A i \in Ids : SameLease(i)
      /\ \A a \in Attempts : sub[a].took \subseteq Ids /\ sub[a].lease \in {0} \cup Ids
  BY LeaseStep DEF TypeOK
<1>1. \A a \in Attempts :
         /\ \A i \in sub[a].took : leases'[i].run = a[1]
         /\ sub[a].lease # 0 => /\ leases'[sub[a].lease].run = a[1]
                                /\ leases'[sub[a].lease].att = a[2]
  BY <1>0 DEF OwnInv, SameLease
<1>2. CASE Outside BY <1>1, <1>2, OutsideKeeps DEF OwnInv
<1>3. ASSUME NEW a \in Attempts, Acts(a) PROVE OwnInv'
  <2>1. /\ \A b \in Attempts : b # a => sub'[b] = sub[b]
        /\ sub'[a].took \subseteq sub[a].took \cup OpenOf(a[1])
        /\ \/ sub'[a].lease \in {0, sub[a].lease}
           \/ Put(a) /\ sub'[a].lease = Len(leases) + 1
    BY <1>0, <1>3, ActsEffect
  <2>2. \A i \in OpenOf(a[1]) : leases'[i].run = a[1]
    BY <1>0 DEF OpenOf, SameLease
  <2>3. ASSUME Put(a) PROVE /\ leases'[Len(leases) + 1].run = a[1]
                            /\ leases'[Len(leases) + 1].att = a[2]
    BY <2>3, PutFields
  <2> QED BY <1>1, <2>1, <2>2, <2>3 DEF OwnInv
<1> QED BY <1>2, <1>3, Movers

\* A second submission of a run in flight marks the run as overlapped.
LEMMA SubmitOverlaps ==
    ASSUME NEW a \in Attempts, Submit(a), NEW b \in Attempts, b[1] = a[1],
           InFlight(b)
    PROVE  a[1] \in overlapped'
BY DEF Submit

\* Overlapped runs stay so.
LEMMA OverlappedGrows ==
    ASSUME [Next]_vars
    PROVE  overlapped \subseteq overlapped'
BY HistoryMoves DEF Submit

\* The submissions of a run that is not overlapped do not meet.
LEMMA SerialStep ==
    ASSUME BaseInv, SerialInv, [Next]_vars
    PROVE  SerialInv'
<1>0. Ids \subseteq Ids' BY LeaseStep DEF BaseInv
<1>1. CASE Outside BY <1>1, OutsideKeeps DEF SerialInv, InFlight
<1>2. ASSUME NEW a \in Attempts, Acts(a), NEW b \in Attempts, NEW c \in Attempts,
             b[1] = c[1], b[1] \notin overlapped', InFlight(b)', InFlight(c)'
      PROVE  b = c
  <2>1. /\ \A d \in Attempts : d # a => sub'[d] = sub[d]
        /\ ~Submit(a) => InFlight(a)
    BY <1>0, <1>2, ActsEffect
  <2>2. \A d \in Attempts : d # a /\ InFlight(d)' => InFlight(d)
    BY <2>1 DEF InFlight
  <2>3. b[1] \notin overlapped BY <1>2, OverlappedGrows
  <2>4. CASE Submit(a)
    BY <1>2, <2>2, <2>3, <2>4, SubmitOverlaps DEF SerialInv
  <2>5. CASE ~Submit(a)
    BY <1>2, <2>1, <2>2, <2>3, <2>5 DEF SerialInv
  <2> QED BY <2>4, <2>5
<1> QED BY <1>1, <1>2, Movers DEF SerialInv

-----------------------------------------------------------------------------
(* The open lease of a run.                                                *)

\* What OpenInv says of one submission in flight, and of one run.
OpenHere(a) ==
    /\ \A i, j \in sub[a].took : i = j
    /\ sub[a].pc \in {"choose", "roll back", "put", "reopen"} =>
          OpenOf(a[1]) = {}
    /\ sub[a].lease # 0 =>
          /\ Newest(sub[a].lease)
          /\ OpenOf(a[1]) \subseteq {sub[a].lease}
          /\ sub[a].pc = "revert" => OpenOf(a[1]) = {}

OpenAt(r) ==
    /\ \A i, j \in OpenOf(r) : i = j
    /\ \A a \in Attempts : a[1] = r /\ InFlight(a) => OpenHere(a)

\* OpenInv, run by run.
LEMMA OpenByRun ==
    /\ OpenInv  <=> \A r \in Runs \ overlapped : OpenAt(r)
    /\ OpenInv' <=> \A r \in Runs \ overlapped' : OpenAt(r)'
BY DEF OpenInv, OpenAt, OpenHere

\* The leases of another run do not open, and none is recorded for it.
LEMMA OtherRuns ==
    ASSUME BaseInv, OwnInv, [Next]_vars, NEW r,
           Outside \/ \E a \in Attempts : Acts(a) /\ a[1] # r
    PROVE  /\ OpenOf(r)' \subseteq OpenOf(r)
           /\ \A i \in Ids' \ Ids : leases'[i].run # r
<1> USE DEF BaseInv
<1> DEFINE Goal == /\ OpenOf(r)' \subseteq OpenOf(r)
                   /\ \A i \in Ids' \ Ids : leases'[i].run # r
<1>0. leases \in Seq(LeaseDocs) BY DEF TypeOK
<1>1. CASE leases' = leases /\ Ids' = Ids BY <1>1 DEF OpenOf
<1>2. CASE Closes BY <1>2, CloseFields DEF OpenOf, SameLease
<1>3. ASSUME NEW t \in reports, ReportAttempt(t) PROVE Goal
  <2>1. t \in ReportDocs /\ t.lease \in Ids BY DEF TypeOK
  <2>2. /\ Ids' = Ids
        /\ \A i \in Ids : SameLease(i) /\ (i # t.lease => leases'[i] = leases[i])
        /\ \/ leases'[t.lease].outcome = leases[t.lease].outcome
           \/ leases'[t.lease].outcome \in {"ok", "superseded_reported"}
    BY <1>0, <1>3, <2>1, ReportFields
  <2> QED BY <2>1, <2>2 DEF OpenOf, SameLease
<1>4. ASSUME NEW a \in Attempts, a[1] # r, NoDonor(a) \/ ReopenSuperseded(a)
      PROVE  Goal
  <2>1. leases' = Reopened(sub[a].took, a) BY <1>4 DEF NoDonor, ReopenSuperseded
  <2>2. /\ Ids' = Ids
        /\ \A i \in Ids :
              /\ SameLease(i)
              /\ leases'[i].outcome = leases[i].outcome \/ i \in sub[a].took
    BY <1>0, <2>1, ReopenedFields
  <2>3. \A i \in sub[a].took : leases[i].run = a[1] BY DEF OwnInv
  <2> QED BY <1>4, <2>2, <2>3 DEF OpenOf, SameLease
<1>5. ASSUME NEW a \in Attempts, a[1] # r, Put(a) PROVE Goal
  <2> DEFINE n == Len(leases) + 1
  <2>1. /\ Ids' = Ids \cup {n} /\ leases'[n].run = a[1]
        /\ \A i \in Ids : leases'[i] = leases[i]
    BY <1>5, PutFields
  <2> HIDE DEF n
  <2> QED BY <1>5, <2>1 DEF OpenOf
<1> QED BY <1>1, <1>2, <1>3, <1>4, <1>5, QuietLeases DEF Outside, Acts, Closes

\* A run whose submissions and leases a step leaves alone keeps what holds of
\* its open lease.
LEMMA OpenFrame ==
    ASSUME BaseInv, OwnInv, [Next]_vars, NEW r, OpenAt(r),
           OpenOf(r)' \subseteq OpenOf(r),
           \A i \in Ids' \ Ids : leases'[i].run # r,
           \A b \in Attempts : b[1] = r => sub'[b] = sub[b]
    PROVE  OpenAt(r)'
<1>0. /\ Ids \subseteq Ids' /\ \A i \in Ids : SameLease(i)
      /\ \A a \in Attempts : sub[a].lease \in {0} \cup Ids
  BY LeaseStep DEF TypeOK, BaseInv
<1>1. ASSUME NEW a \in Attempts, a[1] = r, InFlight(a)' PROVE OpenHere(a)'
  <2>1. sub'[a] = sub[a] /\ InFlight(a) BY <1>1 DEF InFlight
  <2>2. OpenHere(a) BY <1>1, <2>1 DEF OpenAt
  <2>3. ASSUME sub[a].lease # 0, Newest(sub[a].lease)
        PROVE  /\ leases[sub[a].lease].run = r
               /\ leases'[sub[a].lease].run = r
               /\ \A j \in Ids' : leases'[j].run = r => j <= sub[a].lease
    BY <1>0, <1>1, <2>3 DEF OwnInv, Newest, SameLease
  <2>4. sub[a].lease # 0 => Newest(sub[a].lease)'
    BY <2>1, <2>2, <2>3 DEF OpenHere, Newest
  <2> QED BY <1>1, <2>1, <2>2, <2>4 DEF OpenHere
<1> QED BY <1>1 DEF OpenAt

\* The only submission of its run in flight decides what holds of the run.
LEMMA OpenAlone ==
    ASSUME BaseInv, SerialInv, [Next]_vars, NEW a \in Attempts, Acts(a),
           a[1] \notin overlapped',
           \A i, j \in OpenOf(a[1])' : i = j, InFlight(a)' => OpenHere(a)'
    PROVE  OpenAt(a[1])'
<1>0. Ids \subseteq Ids' BY LeaseStep DEF BaseInv
<1>1. /\ \A b \in Attempts : b # a => sub'[b] = sub[b]
      /\ ~Submit(a) => InFlight(a)
  BY <1>0, ActsEffect
<1>2. a[1] \notin overlapped BY OverlappedGrows
<1>3. ASSUME NEW b \in Attempts, b[1] = a[1], b # a, InFlight(b)' PROVE FALSE
  <2>1. InFlight(b) BY <1>1, <1>3 DEF InFlight
  <2>2. ~Submit(a) BY <1>3, <2>1, SubmitOverlaps
  <2> QED BY <1>1, <1>2, <1>3, <2>1, <2>2 DEF SerialInv
<1> QED BY <1>3 DEF OpenAt

\* A run that is not overlapped keeps one open lease at most, over the steps
\* of its own submission.
LEMMA OpenOwn ==
    ASSUME BaseInv, OwnInv, [Next]_vars, NEW a \in Attempts, Acts(a),
           OpenAt(a[1])
    PROVE  /\ \A i, j \in OpenOf(a[1])' : i = j
           /\ InFlight(a)' => OpenHere(a)'
<1> DEFINE o == OpenOf(a[1])
           Goal == /\ \A i, j \in OpenOf(a[1])' : i = j
                   /\ InFlight(a)' => OpenHere(a)'
<1>0. /\ Ids \subseteq Ids' /\ leases \in Seq(LeaseDocs)
      /\ sub[a].lease \in {0} \cup Ids /\ HoldOf(a)
  BY LeaseStep DEF TypeOK, BaseInv, HoldInv
<1>1. /\ \A i, j \in o : i = j
      /\ InFlight(a) => OpenHere(a)
  BY DEF OpenAt
<1>q. ASSUME leases' = leases, Ids' = Ids
      PROVE  /\ OpenOf(a[1])' = o
             /\ \A i : Newest(i)' <=> Newest(i)
  BY <1>q DEF OpenOf, Newest
<1>r. ASSUME SubMove(a, "returned", {}, NoPledge, FALSE, 0),
             \A i, j \in OpenOf(a[1])' : i = j
      PROVE  Goal
  BY <1>r DEF SubMove, InFlight
<1> HIDE DEF o
<1>2. CASE Submit(a)
  <2>1. SubMove(a, "supersede", {}, NoPledge, FALSE, 0)
    BY <1>0, <1>2, MoveSubmit DEF BaseInv
  <2>2. OpenOf(a[1])' = o BY <1>q, <1>2 DEF Submit, Ids
  <2> QED BY <1>1, <2>1, <2>2 DEF SubMove, OpenHere
<1>3. CASE SupersedeOpenLeases(a)
  <2>1. SubMove(a, "choose", OpenOf(a[1]), sub[a].pledge, FALSE, 0)
    BY <1>0, <1>3, ActSupersede
  <2>2. OpenOf(a[1])' = {}
    <3>1. /\ "superseded" \in Outcomes /\ a[2] \in Nat
          /\ leases' = Closed(OpenOf(a[1]), "superseded", a[2])
      BY <1>3, AttemptParts DEF SupersedeOpenLeases, Outcomes
    <3>2. /\ Ids' = Ids
          /\ \A i \in Ids :
                /\ SameLease(i)
                /\ leases'[i].outcome =
                      IF i \in OpenOf(a[1]) /\ leases[i].outcome = "open"
                      THEN "superseded" ELSE leases[i].outcome
      BY <1>0, <3>1, ClosedFields
    <3> QED BY <3>2 DEF OpenOf, SameLease
  <2> QED BY <1>1, <2>1, <2>2 DEF SubMove, OpenHere, o
<1>4. ASSUME NEW p \in Pledges, Renew(a, p) \/ Reserve(a, p) PROVE Goal
  <2>1. /\ leases' = leases /\ Ids' = Ids /\ sub[a].pc = "choose" /\ InFlight(a)
    BY <1>4 DEF Renew, Reserve, Ids, InFlight
  <2>2. sub'[a].took = sub[a].took /\ sub'[a].lease = 0
    <3>1. CASE Renew(a, p)
      <4>1. \/ SubMove(a, "put", sub[a].took, p, FALSE, 0)
            \/ SubMove(a, "choose", sub[a].took, sub[a].pledge, FALSE, 0)
        BY <1>0, <3>1, ActRenew
      <4> QED BY <4>1 DEF SubMove
    <3>2. CASE Reserve(a, p)
      <4>1. PICK pc \in {"put", "roll back"} : SubMove(a, pc, sub[a].took, p, TRUE, 0)
        BY <1>0, <3>2, ActReserve
      <4> QED BY <4>1 DEF SubMove
    <3> QED BY <1>4, <3>1, <3>2
  <2>3. OpenOf(a[1])' = {} BY <1>q, <1>1, <2>1 DEF OpenHere, o
  <2> QED BY <1>1, <2>1, <2>2, <2>3 DEF OpenHere
<1>5. CASE Rollback(a) \/ Unusable(a)
  <2>1. /\ leases' = leases /\ Ids' = Ids /\ sub[a].pc \in {"roll back", "put"}
        /\ InFlight(a)
    BY <1>5 DEF Rollback, Unusable, Ids, InFlight
  <2>2. SubMove(a, "choose", sub[a].took, NoPledge, FALSE, 0)
    BY <1>0, <1>5, ActDeclined
  <2>3. OpenOf(a[1])' = {} BY <1>q, <1>1, <2>1 DEF OpenHere, o
  <2> QED BY <1>1, <2>1, <2>2, <2>3 DEF OpenHere, SubMove
<1>6. CASE Put(a)
  <2>n. PICK n : n = Len(leases) + 1 OBVIOUS
  <2>1. /\ SubMove(a, Acquired(a), sub[a].took, NoPledge, FALSE, n)
        /\ Acquired(a) \in {"save", "publish"} /\ n # 0
    BY <1>0, <1>6, <2>n, ActPut
  <2>2. /\ n \in Nat /\ Ids' = Ids \cup {n} /\ leases'[n].run = a[1]
        /\ \A i \in Ids : leases'[i] = leases[i] /\ i < n
    BY <1>6, <2>n, PutFields DEF BaseInv
  <2>3. sub[a].pc = "put" /\ InFlight(a) BY <1>6 DEF Put, InFlight
  <2>4. o = {} /\ \A i, j \in sub[a].took : i = j
    BY <1>1, <2>3 DEF OpenHere, o
  <2>5. OpenOf(a[1])' \subseteq {n}
    BY <2>2, <2>4 DEF OpenOf, o
  <2>6. Newest(n)'
    <3>1. \A i \in Ids : i <= n
      <4>1. Ids \subseteq Nat BY <1>0, LeaseTable
      <4> QED BY <2>2, <4>1
    <3> QED BY <2>2, <3>1 DEF Newest
  <2> QED BY <2>1, <2>4, <2>5, <2>6 DEF SubMove, OpenHere
<1>7. CASE NoDonor(a) \/ ReopenSuperseded(a)
  <2>1. /\ leases' = Reopened(sub[a].took, a) /\ InFlight(a)
        /\ sub[a].pc \in {"choose", "reopen"}
    BY <1>7 DEF NoDonor, ReopenSuperseded, InFlight
  <2>2. /\ Ids' = Ids
        /\ \A i \in Ids : /\ SameLease(i)
                          /\ \/ leases'[i].outcome = leases[i].outcome
                             \/ i \in sub[a].took
    BY <1>0, <2>1, ReopenedFields
  <2>3. o = {} /\ \A i, j \in sub[a].took : i = j
    BY <1>1, <2>1 DEF OpenHere, o
  <2>4. OpenOf(a[1])' \subseteq sub[a].took
    BY <2>2, <2>3 DEF OpenOf, o, SameLease
  <2>5. CASE NoDonor(a)
    <3>1. /\ SubMove(a, Acquired(a), {}, sub[a].pledge, FALSE, 0)
          /\ Acquired(a) \in {"save", "publish"}
      BY <1>0, <2>5, ActNoDonor
    <3> QED BY <2>3, <2>4, <3>1 DEF SubMove, OpenHere
  <2>6. CASE ReopenSuperseded(a)
    BY <1>0, <1>r, <2>3, <2>4, <2>6, ActReturn
  <2> QED BY <1>7, <2>5, <2>6
<1>8. CASE SaveRun(a) \/ SubmissionFails(a) \/ FailRunAtLaunch(a)
  <2>1. leases' = leases /\ Ids' = Ids
    BY <1>8 DEF SaveRun, SubmissionFails, FailRunAtLaunch, Ids
  <2>2. PICK pc \in {"publish", "fail launch", "release"} :
           SubMove(a, pc, sub[a].took, sub[a].pledge, FALSE, sub[a].lease)
    BY <1>0, <1>8, ActOn
  <2>3. sub[a].pc \in {"save", "publish", "fail launch"} BY <1>0, <1>8, ActOn
  <2>4. InFlight(a) BY <2>3 DEF InFlight
  <2> QED BY <1>1, <1>q, <2>1, <2>2, <2>4 DEF SubMove, OpenHere, o
<1>9. CASE Publish(a)
  <2>1. leases' = leases /\ Ids' = Ids BY <1>9 DEF Publish, Ids
  <2>2. \/ SubMove(a, "returned", {}, NoPledge, FALSE, 0)
        \/ SubMove(a, "take over", {}, NoPledge, FALSE, 0)
    BY <1>0, <1>9, ActPublish
  <2> QED BY <1>1, <1>q, <2>1, <2>2 DEF SubMove, OpenHere
<1>10. CASE ReleaseGrant(a)
  <2>1. InFlight(a) /\ sub[a].pc = "release" BY <1>10 DEF ReleaseGrant, InFlight
  <2>2. Closes BY <1>10 DEF Closes
  <2>3. /\ Ids' = Ids
        /\ \A i \in Ids : /\ SameLease(i)
                          /\ \/ leases'[i].outcome = leases[i].outcome
                             \/ leases'[i].outcome # "open"
    BY <2>2, CloseFields DEF BaseInv
  <2>4. OpenOf(a[1])' \subseteq o BY <2>3 DEF OpenOf, o, SameLease
  <2>5. \A i \in Ids : Newest(i)' <=> Newest(i) BY <2>3 DEF Newest, SameLease
  <2>6. sub[a].lease # 0 => OpenOf(a[1])' = {}
    <3>1. CASE sub[a].lease # 0 /\ leases[sub[a].lease].outcome = "open"
      <4>1. leases' = Closed({sub[a].lease}, "not_launched", 0)
        BY <1>10, <3>1 DEF ReleaseGrant
      <4>2. "not_launched" \in Outcomes /\ 0 \in Nat BY DEF Outcomes
      <4>3. sub[a].lease \in Ids BY <1>0, <3>1
      <4>4. leases'[sub[a].lease].outcome = "not_launched"
        BY <1>0, <3>1, <4>1, <4>2, <4>3, ClosedFields
      <4>5. o \subseteq {sub[a].lease} BY <1>1, <2>1, <3>1 DEF OpenHere, o
      <4>6. sub[a].lease \notin OpenOf(a[1])' BY <4>4 DEF OpenOf
      <4> QED BY <2>4, <4>5, <4>6
    <3>2. CASE sub[a].lease # 0 /\ leases[sub[a].lease].outcome # "open"
      <4>1. o \subseteq {sub[a].lease} BY <1>1, <2>1, <3>2 DEF OpenHere, o
      <4>2. sub[a].lease \notin o BY <3>2 DEF OpenOf, o
      <4> QED BY <2>4, <4>1, <4>2
    <3> QED BY <3>1, <3>2
  <2>7. \/ SubMove(a, "returned", {}, NoPledge, FALSE, 0)
        \/ SubMove(a, "revert", sub[a].took, sub[a].pledge, FALSE, sub[a].lease)
    BY <1>0, <1>10, ActRelease
  <2>8. CASE SubMove(a, "returned", {}, NoPledge, FALSE, 0)
    BY <1>r, <1>1, <2>4, <2>8
  <2>9. CASE SubMove(a, "revert", sub[a].took, sub[a].pledge, FALSE, sub[a].lease)
    <3>1. sub[a].lease # 0 => Newest(sub[a].lease)'
      BY <1>0, <1>1, <2>1, <2>5, <2>9 DEF OpenHere, SubMove
    <3> QED BY <1>1, <2>1, <2>4, <2>6, <2>9, <3>1 DEF SubMove, OpenHere
  <2> QED BY <2>7, <2>8, <2>9
<1>11. CASE RevertQueuedFlip(a)
  <2>1. leases' = leases /\ Ids' = Ids /\ sub[a].pc = "revert" /\ InFlight(a)
    BY <1>11 DEF RevertQueuedFlip, Ids, InFlight
  <2>2. \/ SubMove(a, "returned", {}, NoPledge, FALSE, 0)
        \/ /\ SubMove(a, "reopen", sub[a].took, NoPledge, FALSE, 0)
           /\ sub[a].took # {}
    BY <1>0, <1>11, ActRevert
  <2>3. sub[a].took # {} => OpenOf(a[1])' = {}
    <3>1. sub[a].took # {} => sub[a].lease # 0 BY <1>0, <2>1 DEF HoldOf
    <3> QED BY <1>q, <1>1, <2>1, <3>1 DEF OpenHere, o
  <2>4. OpenOf(a[1])' = o BY <1>q, <2>1
  <2> QED BY <1>r, <1>1, <2>1, <2>2, <2>3, <2>4 DEF SubMove, OpenHere
<1>12. CASE SupersedeRun(a)
  <2>1. Closes BY <1>12 DEF Closes
  <2>2. OpenOf(a[1])' \subseteq o
    BY <2>1, CloseFields DEF OpenOf, o, SameLease, BaseInv
  <2> QED BY <1>r, <1>0, <1>1, <1>12, <2>2, ActReturn
<1>13. CASE ServerDies(a)
  <2>1. leases' = leases /\ Ids' = Ids BY <1>13 DEF ServerDies, Ids
  <2> QED BY <1>r, <1>q, <1>0, <1>1, <1>13, <2>1, ActReturn
<1>14. CASE \E p \in Pledges : Renew(a, p) \/ Reserve(a, p) BY <1>4, <1>14
<1> QED BY <1>2, <1>3, <1>5, <1>6, <1>7, <1>8, <1>9, <1>10, <1>11, <1>12, <1>13,
           <1>14 DEF Acts, QuietSub

\* Every step keeps the open lease of a run where it may be.
LEMMA OpenStep ==
    ASSUME BaseInv, OwnInv, SerialInv, OpenInv, [Next]_vars
    PROVE  OpenInv'
<1>0. Ids \subseteq Ids' BY LeaseStep DEF BaseInv
<1>1. ASSUME NEW r \in Runs \ overlapped' PROVE OpenAt(r)'
  <2>1. OpenAt(r) BY <1>1, OverlappedGrows, OpenByRun
  <2>2. CASE Outside
    BY <2>1, <2>2, OutsideKeeps, OtherRuns, OpenFrame
  <2>3. ASSUME NEW a \in Attempts, Acts(a), a[1] # r PROVE OpenAt(r)'
    <3>1. \A b \in Attempts : b[1] = r => sub'[b] = sub[b]
      BY <1>0, <2>3, ActsEffect
    <3>2. /\ OpenOf(r)' \subseteq OpenOf(r)
          /\ \A i \in Ids' \ Ids : leases'[i].run # r
      BY <2>3, OtherRuns
    <3> QED BY <2>1, <3>1, <3>2, OpenFrame
  <2>4. ASSUME NEW a \in Attempts, Acts(a), a[1] = r PROVE OpenAt(r)'
    <3>1. /\ \A i, j \in OpenOf(a[1])' : i = j
          /\ InFlight(a)' => OpenHere(a)'
      BY <2>1, <2>4, OpenOwn
    <3>2. OpenAt(a[1])' BY <1>1, <2>4, <3>1, OpenAlone
    <3> QED BY <2>4, <3>2
  <2> QED BY <2>2, <2>3, <2>4, Movers
<1> QED BY <1>1, OpenByRun

-----------------------------------------------------------------------------
(* The unit under a readmission.                                           *)

\* Only ReleaseGrant returns a unit: that of the lease its submission holds.
LEMMA GivenBack ==
    ASSUME BaseInv, [Next]_vars, NEW j \in Ids,
           leases'[j].outcome = "not_launched",
           leases[j].outcome # "not_launched"
    PROVE  \E a \in Attempts : /\ ReleaseGrant(a) /\ sub[a].lease = j
                               /\ sub[a].lease # 0
<1> USE DEF BaseInv
<1>0. leases \in Seq(LeaseDocs) BY DEF TypeOK
<1>1. CASE QuietRun \/ \E a \in Attempts : QuietSub(a) BY <1>1, QuietLeases
<1>2. CASE Reopens
  <2>1. PICK a \in Attempts : leases' = Reopened(sub[a].took, a)
    BY <1>2 DEF Reopens, NoDonor, ReopenSuperseded
  <2>2. leases'[j].outcome = leases[j].outcome \/ leases'[j].outcome = "open"
    BY <1>0, <2>1, ReopenedFields
  <2> QED BY <2>2
<1>3. ASSUME NEW a \in Attempts, Put(a) PROVE FALSE BY <1>3, PutFields
<1>4. ASSUME NEW t \in reports, ReportAttempt(t) PROVE FALSE
  <2>1. t \in ReportDocs /\ t.lease \in Ids BY DEF TypeOK
  <2>2. /\ \A i \in Ids : i # t.lease => leases'[i] = leases[i]
        /\ \/ leases'[t.lease].outcome = leases[t.lease].outcome
           \/ leases'[t.lease].outcome \in {"ok", "superseded_reported"}
    BY <1>0, <1>4, <2>1, ReportFields
  <2> QED BY <2>2
<1>5. ASSUME NEW S, NEW b \in Nat, NEW o \in Outcomes, o # "not_launched",
             leases' = Closed(S, o, b)
      PROVE  FALSE
  <2>1. leases'[j].outcome \in {leases[j].outcome, o} BY <1>0, <1>5, ClosedFields
  <2> QED BY <1>5, <2>1
<1>6. /\ "superseded" \in Outcomes /\ "superseded_grantless" \in Outcomes
      /\ "abandoned" \in Outcomes /\ "not_launched" \in Outcomes /\ 0 \in Nat
  BY DEF Outcomes
<1>7. ASSUME NEW a \in Attempts, SupersedeOpenLeases(a) \/ SupersedeRun(a) PROVE FALSE
  BY <1>5, <1>6, <1>7, AttemptParts DEF SupersedeOpenLeases, SupersedeRun
<1>8. ASSUME NEW i \in Ids, ReleaseExpired(i) PROVE FALSE
  BY <1>5, <1>6, <1>8 DEF ReleaseExpired
<1>9. ASSUME NEW a \in Attempts, ReleaseGrant(a)
      PROVE  sub[a].lease = j /\ sub[a].lease # 0
  <2>1. /\ sub[a].lease # 0
        /\ leases' = Closed({sub[a].lease}, "not_launched", 0)
    BY <1>9 DEF ReleaseGrant
  <2>2. leases'[j].outcome = IF j \in {sub[a].lease} /\ leases[j].outcome = "open"
                             THEN "not_launched" ELSE leases[j].outcome
    BY <1>0, <1>6, <2>1, ClosedFields
  <2> QED BY <2>1, <2>2
<1> QED BY <1>1, <1>2, <1>3, <1>4, <1>7, <1>8, <1>9, StepKinds DEF Closes

\* A submission is about to record a readmission because it already was, or
\* because it has just renewed one.
LEMMA Renewing ==
    ASSUME BaseInv, [Next]_vars, NEW a \in Attempts,
           sub'[a].pc = "put", ~sub'[a].unit
    PROVE  \/ sub'[a] = sub[a]
           \/ \E p \in Pledges : Renew(a, p) /\ sub'[a].pledge = p /\ leases' = leases
<1>0. Ids \subseteq Ids' BY LeaseStep DEF BaseInv
<1>1. CASE Outside BY <1>1, OutsideKeeps
<1>2. ASSUME NEW b \in Attempts, b # a, Acts(b) PROVE sub'[a] = sub[a]
  BY <1>0, <1>2, ActsEffect
<1>3. ASSUME NEW p \in Pledges, Renew(a, p)
      PROVE  sub'[a].pledge = p /\ leases' = leases
  <2>1. \/ SubMove(a, "put", sub[a].took, p, FALSE, 0)
        \/ SubMove(a, "choose", sub[a].took, sub[a].pledge, FALSE, 0)
    BY <1>0, <1>3, ActRenew
  <2> QED BY <1>3, <2>1 DEF SubMove, Renew
<1>4. ASSUME NEW p \in Pledges, Reserve(a, p) PROVE FALSE
  <2>1. PICK pc \in {"put", "roll back"} : SubMove(a, pc, sub[a].took, p, TRUE, 0)
    BY <1>0, <1>4, ActReserve
  <2> QED BY <2>1 DEF SubMove
<1>5. CASE Submit(a) BY <1>0, <1>5, MoveSubmit DEF SubMove, BaseInv
<1>6. CASE SupersedeOpenLeases(a) BY <1>0, <1>6, ActSupersede DEF SubMove
<1>7. CASE Rollback(a) \/ Unusable(a) BY <1>0, <1>7, ActDeclined DEF SubMove
<1>8. CASE Put(a) BY <1>0, <1>8, ActPut DEF SubMove
<1>9. CASE NoDonor(a) BY <1>0, <1>9, ActNoDonor DEF SubMove
<1>10. CASE SaveRun(a) \/ SubmissionFails(a) \/ FailRunAtLaunch(a)
  <2>1. PICK pc \in {"publish", "fail launch", "release"} :
           SubMove(a, pc, sub[a].took, sub[a].pledge, FALSE, sub[a].lease)
    BY <1>0, <1>10, ActOn
  <2> QED BY <2>1 DEF SubMove
<1>11. CASE Publish(a) BY <1>0, <1>11, ActPublish DEF SubMove
<1>12. CASE ReleaseGrant(a) BY <1>0, <1>12, ActRelease DEF SubMove
<1>13. CASE RevertQueuedFlip(a) BY <1>0, <1>13, ActRevert DEF SubMove
<1>14. CASE ReopenSuperseded(a) \/ SupersedeRun(a) \/ ServerDies(a)
  BY <1>0, <1>14, ActReturn DEF SubMove
<1> QED BY <1>1, <1>2, <1>3, <1>4, <1>5, <1>6, <1>7, <1>8, <1>9, <1>10, <1>11,
           <1>12, <1>13, <1>14, Movers DEF Acts, QuietSub

\* A lease that covers a readmission covers it until it is given back.
LEMMA CoverKept ==
    ASSUME BaseInv, [Next]_vars, NEW j \in Ids, NEW r, NEW p, Covers(j, r, p)
    PROVE  \/ Covers(j, r, p)'
           \/ \E a \in Attempts : ReleaseGrant(a) /\ sub[a].lease = j /\ sub[a].lease # 0
<1>1. SameLease(j) BY LeaseStep DEF BaseInv
<1>2. CASE leases'[j].outcome # "not_launched"
  BY <1>1, <1>2 DEF Covers, SameLease
<1>3. CASE leases'[j].outcome = "not_launched"
  BY <1>3, GivenBack DEF Covers
<1> QED BY <1>2, <1>3

\* Every readmission keeps the unit that it rests on.
LEMMA CoverStep ==
    ASSUME BaseInv, OwnInv, SerialInv, OpenInv, CoverInv, [Next]_vars
    PROVE  CoverInv'
<1>0. /\ Ids \subseteq Ids' /\ \A i \in Ids : SameLease(i)
      /\ Len(leases) \in Nat /\ Ids = 1 .. Len(leases)
      /\ \A i \in Ids : leases[i].run \in Runs
  <2>1. /\ leases \in Seq(LeaseDocs) /\ Ids \subseteq Ids' /\ \A i \in Ids : SameLease(i)
    BY LeaseStep DEF BaseInv, TypeOK
  <2>2. /\ Len(leases) \in Nat /\ Ids = 1 .. Len(leases)
        /\ \A i \in Ids : leases[i] \in LeaseDocs
    BY <2>1, LeaseTable
  <2> QED BY <2>1, <2>2 DEF LeaseDocs
<1>1. overlapped \subseteq overlapped' BY OverlappedGrows
<1>2. ASSUME NEW i \in Ids, ~leases[i].unit, leases[i].run \notin overlapped
      PROVE  \E j \in 1 .. i - 1 : Covers(j, leases[i].run, leases[i].pledge)'
  <2>r. PICK r : r = leases[i].run OBVIOUS
  <2>p. PICK p : p = leases[i].pledge OBVIOUS
  <2>s. leases'[i].run = r /\ leases'[i].pledge = p
    BY <1>0, <2>r, <2>p DEF SameLease
  <2>1. PICK j \in 1 .. i - 1 : Covers(j, r, p)
    BY <1>2, <2>r, <2>p DEF CoverInv
  <2>2. j \in Ids /\ j < i BY <1>0, <1>2, <2>1
  <2>3. ASSUME NEW a \in Attempts, ReleaseGrant(a), sub[a].lease = j, j # 0
        PROVE  FALSE
    <3>1. InFlight(a) BY <2>3 DEF ReleaseGrant, InFlight
    <3>2. a[1] = r BY <2>1, <2>3 DEF OwnInv, Covers
    <3>3. r \in Runs \ overlapped BY <1>0, <1>2, <2>r
    <3>4. Newest(j) BY <2>3, <3>1, <3>2, <3>3 DEF OpenInv
    <3>5. i <= j BY <2>1, <2>r, <3>4 DEF Newest, Covers
    <3> QED BY <1>0, <2>2, <3>5
  <2>4. Covers(j, r, p)' BY <2>1, <2>2, <2>3, CoverKept
  <2> QED BY <2>1, <2>4, <2>s
<1>3. ASSUME NEW i \in Ids', ~leases'[i].unit, leases'[i].run \notin overlapped'
      PROVE  \E j \in 1 .. i - 1 : Covers(j, leases[i].run, leases[i].pledge)'
  <2>1. CASE i \in Ids
    BY <1>0, <1>1, <1>2, <1>3, <2>1 DEF SameLease
  <2>2. CASE i \notin Ids
    <3>1. PICK a \in Attempts : Put(a)
      <4>1. CASE \E a \in Attempts : Put(a) BY <4>1
      <4>2. CASE Ids' = Ids BY <1>3, <2>2, <4>2
      <4>3. Ids' = Ids \/ \E a \in Attempts : Put(a)
        <5>0. leases \in Seq(LeaseDocs) BY DEF BaseInv, TypeOK
        <5>1. CASE Reopens
          <6>1. PICK a \in Attempts : leases' = Reopened(sub[a].took, a)
            BY <5>1 DEF Reopens, NoDonor, ReopenSuperseded
          <6> QED BY <5>0, <6>1, ReopenedFields
        <5>2. ASSUME NEW t \in reports, ReportAttempt(t) PROVE Ids' = Ids
          <6>1. t \in ReportDocs /\ t.lease \in Ids BY DEF TypeOK, BaseInv
          <6> QED BY <5>0, <5>2, <6>1, ReportFields
        <5>3. CASE Closes BY <5>3, CloseFields DEF BaseInv
        <5>4. CASE QuietRun \/ \E a \in Attempts : QuietSub(a) BY <5>4, QuietLeases
        <5> QED BY <5>1, <5>2, <5>3, <5>4, StepKinds
      <4> QED BY <4>1, <4>2, <4>3
    <3>n. PICK n : n = Len(leases) + 1 OBVIOUS
    <3>2. /\ Ids' = Ids \cup {n} /\ \A j \in Ids : leases'[j] = leases[j]
          /\ leases'[n].run = a[1] /\ leases'[n].pledge = sub[a].pledge
          /\ (leases'[n].unit <=> sub[a].unit)
      BY <3>1, <3>n, PutFields DEF BaseInv
    <3>3. i = n BY <2>2, <3>2
    <3>4. PICK j \in Ids : Covers(j, a[1], sub[a].pledge)
      BY <1>1, <1>3, <3>1, <3>2, <3>3 DEF CoverInv, Put
    <3>5. j \in 1 .. i - 1 BY <1>0, <3>3, <3>n, <3>4
    <3>6. leases'[j] = leases[j] BY <3>2
    <3>7. Covers(j, leases[i].run, leases[i].pledge)'
      BY <3>2, <3>3, <3>4, <3>6 DEF Covers
    <3> QED BY <3>5, <3>7
  <2> QED BY <2>1, <2>2
<1>4. ASSUME NEW a \in Attempts, sub'[a].pc = "put", ~sub'[a].unit,
             a[1] \notin overlapped'
      PROVE  \E j \in Ids' : Covers(j, a[1], sub[a].pledge)'
  <2>1. a[1] \notin overlapped BY <1>1, <1>4
  <2>2. CASE sub'[a] = sub[a]
    <3>p. PICK p : p = sub[a].pledge OBVIOUS
    <3>1. PICK j \in Ids : Covers(j, a[1], p) BY <1>4, <2>1, <2>2, <3>p DEF CoverInv
    <3>2. InFlight(a) BY <1>4, <2>2 DEF InFlight
    <3>3. ASSUME NEW b \in Attempts, ReleaseGrant(b), sub[b].lease = j, j # 0
          PROVE  FALSE
      <4>1. InFlight(b) /\ sub[b].pc = "release" BY <3>3 DEF ReleaseGrant, InFlight
      <4>2. b[1] = a[1] BY <3>1, <3>3 DEF OwnInv, Covers
      <4>3. b = a BY <2>1, <3>2, <4>1, <4>2 DEF SerialInv
      <4> QED BY <1>4, <2>2, <4>1, <4>3
    <3>4. Covers(j, a[1], p)' BY <3>1, <3>3, CoverKept
    <3> QED BY <1>0, <2>2, <3>p, <3>4
  <2>3. ASSUME NEW p \in Pledges, Renew(a, p), sub'[a].pledge = p, leases' = leases
        PROVE  \E j \in Ids' : Covers(j, a[1], sub[a].pledge)'
    <3>1. PICK i \in Ids : /\ leases[i].run = a[1] /\ leases[i].pledge = p
                           /\ leases[i].outcome \notin nonAdmissionOutcomes
      BY <2>3 DEF Renew, HasServedAttempt
    <3>2. \E j \in Ids : Covers(j, a[1], p)
      <4>1. CASE leases[i].unit
        BY <3>1, <4>1 DEF Covers, nonAdmissionOutcomes
      <4>2. CASE ~leases[i].unit
        <5>1. PICK j \in 1 .. i - 1 : Covers(j, a[1], p)
          BY <2>1, <3>1, <4>2 DEF CoverInv
        <5>2. j \in Ids BY <1>0, <3>1, <5>1
        <5> QED BY <5>1, <5>2
      <4> QED BY <4>1, <4>2
    <3>3. PICK j \in Ids : Covers(j, a[1], p) BY <3>2
    <3>4. Covers(j, a[1], p)' BY <2>3, <3>3 DEF Covers
    <3> QED BY <1>0, <2>3, <3>4
  <2> QED BY <1>4, <2>2, <2>3, Renewing
<1>5. \A i \in Ids' :
         ~leases'[i].unit /\ leases'[i].run \notin overlapped' =>
             \E j \in 1 .. i - 1 : Covers(j, leases[i].run, leases[i].pledge)'
  BY <1>3
<1>6. \A a \in Attempts :
         sub'[a].pc = "put" /\ ~sub'[a].unit /\ a[1] \notin overlapped' =>
             \E j \in Ids' : Covers(j, a[1], sub[a].pledge)'
  BY <1>4
<1> QED BY <1>5, <1>6 DEF CoverInv

-----------------------------------------------------------------------------
(* The lease that a report charges.                                        *)

\* Every message keeps its own lease as the newest at its publication, every
\* report goes to the lease of its attempt, and so do the charges.
LEMMA ReportStep ==
    ASSUME BaseInv, OwnInv, OpenInv, ReportInv, [Next]_vars,
           reports' \subseteq ReportDocs
    PROVE  ReportInv'
<1>0. /\ Ids \subseteq Ids' /\ \A i \in Ids : SameLease(i)
      /\ leases \in Seq(LeaseDocs)
      /\ Len(leases) \in Nat /\ Ids = 1 .. Len(leases)
      /\ \A a \in Attempts : msg[a].at \in {0} \cup Ids
      /\ \A t \in reports : t.lease \in Ids /\ t \in ReportDocs
  <2>1. leases \in Seq(LeaseDocs) BY DEF BaseInv, TypeOK
  <2>2. Ids \subseteq Ids' /\ \A i \in Ids : SameLease(i) BY LeaseStep DEF BaseInv
  <2>3. \A a \in Attempts : msg[a].at \in {0} \cup Ids BY DEF BaseInv, TypeOK
  <2>4. \A t \in reports : t.lease \in Ids /\ t \in ReportDocs BY DEF BaseInv, TypeOK
  <2> QED BY <2>1, <2>2, <2>3, <2>4, LeaseTable
<1>1. overlapped \subseteq overlapped' BY OverlappedGrows
<1>n. \A i \in Ids' \ Ids : i > Len(leases)
  <2>1. leases' \in Seq(LeaseDocs) BY LeaseStep DEF BaseInv
  <2>2. Ids' = 1 .. Len(leases') /\ Len(leases') \in Nat BY <2>1 DEF Ids
  <2> QED BY <1>0, <2>2
<1>2. ASSUME NEW a \in Attempts, msg'[a].kind = "granted", a[1] \notin overlapped'
      PROVE  \E i \in Ids' :
                /\ i <= msg'[a].at
                /\ leases'[i].run = a[1] /\ leases'[i].att = a[2]
                /\ \A j \in Ids' : leases'[j].run = a[1] /\ j <= msg'[a].at => j <= i
  <2>1. CASE msg'[a] = msg[a]
    <3>1. PICK i \in Ids :
             /\ i <= msg[a].at
             /\ leases[i].run = a[1] /\ leases[i].att = a[2]
             /\ \A j \in Ids : leases[j].run = a[1] /\ j <= msg[a].at => j <= i
      BY <1>1, <1>2, <2>1 DEF ReportInv
    <3>2. leases'[i].run = a[1] /\ leases'[i].att = a[2] BY <1>0, <3>1 DEF SameLease
    <3>3. ASSUME NEW j \in Ids', leases'[j].run = a[1], j <= msg[a].at PROVE j <= i
      <4>1. j \in Ids BY <1>0, <1>n, <3>3
      <4> QED BY <1>0, <3>1, <3>3, <4>1 DEF SameLease
    <3> QED BY <1>0, <2>1, <3>1, <3>2, <3>3
  <2>2. CASE msg'[a] # msg[a]
    <3>1. PICK b \in Attempts : /\ sub[b].pc = "publish" /\ Published(b)
                                /\ leases' = leases /\ Ids' = Ids
                                /\ overlapped' = overlapped
      BY <2>2, MsgMoves
    <3>2. /\ \A c \in Attempts : c # b => msg'[c] = msg[c]
          /\ \/ msg'[b].kind = "grantless"
             \/ sub[b].lease \in Ids /\ sub[b].lease <= msg'[b].at
      BY <3>1, PublishedFields DEF BaseInv
    <3>3. b = a BY <2>2, <3>2
    <3>4. sub[a].lease \in Ids /\ sub[a].lease <= msg'[a].at BY <1>2, <3>2, <3>3
    <3>5. sub[a].lease # 0 BY <1>0, <3>4
    <3>6. InFlight(a) BY <3>1, <3>3 DEF InFlight
    <3>7. a[1] \in Runs \ overlapped BY <1>1, <1>2, AttemptParts
    <3>8. Newest(sub[a].lease) BY <3>5, <3>6, <3>7 DEF OpenInv
    <3>9. leases[sub[a].lease].run = a[1] /\ leases[sub[a].lease].att = a[2]
      BY <3>5 DEF OwnInv
    <3> QED BY <3>1, <3>4, <3>8, <3>9 DEF Newest
  <2> QED BY <2>1, <2>2
<1>3. ASSUME NEW t \in reports'
      PROVE  /\ leases'[t.lease].run = t.att[1]
             /\ t.att[1] \notin overlapped' => leases'[t.lease].att = t.att[2]
  <2>1. CASE t \in reports
    BY <1>0, <1>1, <2>1 DEF ReportInv, SameLease
  <2>2. CASE t \notin reports
    <3>1. PICK a \in Attempts, interim \in BOOLEAN :
             /\ EndExecution(a, interim) /\ msg[a].kind = "granted"
             /\ leases' = leases /\ Ids' = Ids
             /\ reports' = reports \cup
                   {[att |-> a, lease |-> i, saw |-> leases[i].outcome,
                     interim |-> interim, left |-> deliv[a].executing] :
                    i \in AttemptLease(a)}
      BY <2>2, ReportMoves
    <3>2. PICK i \in AttemptLease(a) : t.att = a /\ t.lease = i
      BY <2>2, <3>1
    <3>3. leases[i].run = a[1] BY <3>2 DEF AttemptLease, OpenOf
    <3>4. ASSUME a[1] \notin overlapped PROVE leases[i].att = a[2]
      <4>1. PICK k \in Ids :
               /\ k <= msg[a].at
               /\ leases[k].run = a[1] /\ leases[k].att = a[2]
               /\ \A j \in Ids : leases[j].run = a[1] /\ j <= msg[a].at => j <= k
        BY <3>1, <3>4 DEF ReportInv
      <4> DEFINE mine == {j \in Ids : leases[j].run = a[1] /\ j <= msg[a].at}
      <4>2. k \in mine BY <4>1
      <4>3. i \in mine /\ \A j \in mine : j <= i
        BY <3>2, <4>2 DEF AttemptLease
      <4>4. k <= i /\ i <= k BY <4>1, <4>2, <4>3
      <4>5. i = k BY <1>0, <4>1, <4>3, <4>4
      <4> QED BY <4>1, <4>5
    <3>5. overlapped' = overlapped BY <3>1 DEF EndExecution, RunKeeps
    <3> QED BY <3>1, <3>2, <3>3, <3>4, <3>5
  <2> QED BY <2>1, <2>2
<1>4. ASSUME NEW i \in Ids', leases'[i].run \notin overlapped'
      PROVE  leases'[i].payers \subseteq {leases'[i].att}
  <2>0. ASSUME i \in Ids, leases'[i].payers = leases[i].payers
        PROVE  leases'[i].payers \subseteq {leases'[i].att}
    BY <1>0, <1>1, <1>4, <2>0 DEF ReportInv, SameLease
  <2>1. CASE QuietRun \/ \E a \in Attempts : QuietSub(a)
    BY <1>4, <2>0, <2>1, QuietLeases
  <2>2. CASE Closes
    BY <1>4, <2>0, <2>2, CloseFields DEF SameCharge, BaseInv
  <2>3. CASE Reopens
    <3>1. PICK a \in Attempts : leases' = Reopened(sub[a].took, a)
      BY <2>3 DEF Reopens, NoDonor, ReopenSuperseded
    <3> QED BY <1>0, <1>4, <2>0, <3>1, ReopenedFields DEF SameCharge
  <2>4. ASSUME NEW a \in Attempts, Put(a)
        PROVE  leases'[i].payers \subseteq {leases'[i].att}
    <3>n. PICK n : n = Len(leases) + 1 OBVIOUS
    <3>1. /\ Ids' = Ids \cup {n} /\ leases'[n].payers = {}
          /\ \A j \in Ids : leases'[j] = leases[j]
      BY <2>4, <3>n, PutFields DEF BaseInv
    <3> QED BY <1>4, <2>0, <3>1
  <2>5. ASSUME NEW t \in reports, ReportAttempt(t)
        PROVE  leases'[i].payers \subseteq {leases'[i].att}
    <3>1. /\ Ids' = Ids
          /\ \A j \in Ids : j # t.lease => leases'[j] = leases[j]
          /\ \/ leases'[t.lease].payers = leases[t.lease].payers
             \/ leases'[t.lease].payers = leases[t.lease].payers \cup {t.att[2]}
      BY <1>0, <2>5, ReportFields
    <3>2. CASE leases'[i].payers = leases[i].payers BY <1>4, <2>0, <3>1, <3>2
    <3>3. CASE /\ i = t.lease
               /\ leases'[t.lease].payers = leases[t.lease].payers \cup {t.att[2]}
      <4>1. leases[i].run = t.att[1] /\ leases'[i].run = leases[i].run
            /\ leases'[i].att = leases[i].att
        BY <1>0, <3>3 DEF ReportInv, SameLease
      <4>2. t.att[1] \notin overlapped BY <1>1, <1>4, <4>1
      <4>3. leases[i].att = t.att[2] BY <3>3, <4>2 DEF ReportInv
      <4>4. leases[i].payers \subseteq {leases[i].att}
        BY <1>4, <3>1, <4>1, <4>2 DEF ReportInv
      <4> QED BY <3>3, <4>1, <4>3, <4>4
    <3> QED BY <1>4, <3>1, <3>2, <3>3
  <2> QED BY <2>1, <2>2, <2>3, <2>4, <2>5, StepKinds
<1> QED BY <1>2, <1>3, <1>4 DEF ReportInv

-----------------------------------------------------------------------------
(* The theorems.                                                           *)

\* The invariant holds of an empty pool.
LEMMA InitInv ==
    ASSUME Init
    PROVE  IndInv
<1> USE DEF Init
<1>1. Ids = {} BY DEF Ids
<1>2. TypeOK
  <2>1. leases \in Seq(LeaseDocs) OBVIOUS
  <2>2. Idle \in SubDocs(Ids) BY DEF Idle, SubDocs, Pcs
  <2>3. sub \in [Attempts -> SubDocs(Ids)] BY <2>2
  <2> QED BY <2>1, <2>3 DEF TypeOK, SubDocs
<1>3. \A a \in Attempts : /\ sub[a].pc = "idle" /\ ~sub[a].unit
                          /\ sub[a].took = {} /\ sub[a].lease = 0
                          /\ msg[a].kind = "none" /\ ~InFlight(a)
  BY DEF Idle, InFlight
<1>4. HoldInv BY <1>3 DEF HoldInv, HoldOf
<1>5. CountInv
  <2>1. ASSUME NEW p \in Pledges
        PROVE  Holders(p) = {} /\ Admitted(p) = {} /\ Standing(p) = {} /\ used[p] = 0
    BY <1>1, <1>3 DEF Holders, Admitted, Standing
  <2>2. IsFiniteSet({}) /\ Cardinality({}) = 0 BY FS_EmptySet
  <2>3. MaxRunsPerDay \in Nat /\ 0 + 0 <= 0 /\ 0 + 0 <= MaxRunsPerDay
    BY PoolAssumption
  <2>4. ASSUME NEW p \in Pledges
        PROVE  /\ IsFiniteSet(Holders(p))
               /\ Cardinality(Standing(p)) + Cardinality(Holders(p)) <= used[p]
               /\ Cardinality(Standing(p)) + Cardinality(Admitted(p)) <= MaxRunsPerDay
    <3>1. /\ Holders(p) = {} /\ Admitted(p) = {} /\ Standing(p) = {} /\ used[p] = 0
      BY <2>1
    <3> QED BY <2>2, <2>3, <3>1, Zenon
  <2> QED BY <2>4 DEF CountInv
<1>6. SettleInv /\ OwnInv /\ SerialInv BY <1>1, <1>3 DEF SettleInv, OwnInv, SerialInv
<1>7. OpenInv BY <1>1, <1>3 DEF OpenInv, OpenOf
<1>8. CoverInv /\ ReportInv BY <1>1, <1>3 DEF CoverInv, ReportInv
<1> QED BY <1>2, <1>4, <1>5, <1>6, <1>7, <1>8 DEF IndInv

\* The invariant is inductive, whichever step of whichever submission,
\* delivery, report or sweep comes next.
THEOREM Inductive == Spec => []IndInv
<1>1. Init => IndInv BY InitInv
<1>2. IndInv /\ [Next]_vars => IndInv'
  <2> SUFFICES ASSUME IndInv, [Next]_vars PROVE IndInv'
    OBVIOUS
  <2>1. /\ BaseInv /\ TypeOK /\ HoldInv /\ CountInv /\ SettleInv /\ OwnInv
        /\ SerialInv /\ OpenInv /\ CoverInv /\ ReportInv
    BY DEF IndInv, BaseInv, ReportInv
  <2>2. BaseInv' /\ CountInv' BY <2>1, TypeStep
  <2>3. TypeOK' /\ HoldInv' /\ reports' \subseteq ReportDocs BY <2>2 DEF BaseInv
  <2>4. SettleInv' BY <2>1, SettleStep
  <2>5. OwnInv' BY <2>1, OwnStep
  <2>6. SerialInv' BY <2>1, SerialStep
  <2>7. OpenInv' BY <2>1, OpenStep
  <2>8. CoverInv' BY <2>1, CoverStep
  <2>9. ReportInv' BY <2>1, <2>3, ReportStep
  <2> QED BY <2>2, <2>3, <2>4, <2>5, <2>6, <2>7, <2>8, <2>9 DEF IndInv
<1> QED BY <1>1, <1>2, PTL DEF Spec

\* Every variable keeps its type; in particular no rollback and no refund
\* takes a donor's counter below zero.
THEOREM TypeCorrect == Spec => []TypeOK
<1>1. IndInv => TypeOK BY DEF IndInv
<1> QED BY <1>1, Inductive, PTL

\* A run that executes on a donor's credential has a unit there.
LEMMA ServedHasUnit ==
    ASSUME IndInv, NEW p \in Pledges
    PROVE  RunsServed(p) \ overlapped \subseteq
             {leases[j].run : j \in Standing(p)}
<1> SUFFICES ASSUME NEW r \in RunsServed(p), r \notin overlapped
             PROVE  \E j \in Standing(p) : r = leases[j].run
  OBVIOUS
<1>1. PICK i \in Landed(p) : r = leases[i].run /\ leases[i].outcome # "not_launched"
  BY DEF RunsServed
<1>2. i \in Ids /\ leases[i].pledge = p BY DEF Landed
<1>3. CASE leases[i].unit
  BY <1>1, <1>2, <1>3 DEF Standing
<1>4. CASE ~leases[i].unit
  <2>1. PICK j \in 1 .. i - 1 : Covers(j, leases[i].run, leases[i].pledge)
    BY <1>1, <1>2, <1>4 DEF IndInv, CoverInv
  <2>2. Len(leases) \in Nat /\ Ids = 1 .. Len(leases)
    BY LeaseTable DEF IndInv, TypeOK
  <2>3. j \in Ids BY <1>2, <2>2
  <2> QED BY <1>1, <1>2, <2>1, <2>3 DEF Covers, Standing
<1> QED BY <1>3, <1>4

\* No donor has more units out in a day than they allowed, however many
\* submissions reserve, decline, roll back and refund at the same time; and no
\* more runs execute on their credential, those excepted that overlapped or
\* were given back although published (publisher.go, ReleaseGrant on an error
\* of the publication).
THEOREM CeilingHolds == Spec => []DailyCeiling
<1>1. IndInv => DailyCeiling
  <2> SUFFICES ASSUME IndInv, NEW p \in Pledges
               PROVE  /\ Cardinality(Standing(p)) <= MaxRunsPerDay
                      /\ Cardinality(RunsServed(p) \ overlapped) <= MaxRunsPerDay
    BY DEF DailyCeiling
  <2>1. /\ Cardinality(Standing(p)) <= MaxRunsPerDay
        /\ IsFiniteSet(Standing(p))
        /\ Cardinality(Standing(p)) \in Nat /\ MaxRunsPerDay \in Nat
    BY CountTypes DEF IndInv, CountOf
  <2> DEFINE g == [j \in Standing(p) |-> leases[j].run]
             T == {leases[j].run : j \in Standing(p)}
             U == RunsServed(p) \ overlapped
  <2>2. g \in Surjection(Standing(p), T) BY DEF Surjection
  <2>3. IsFiniteSet(T) /\ Cardinality(T) <= Cardinality(Standing(p))
    BY <2>1, <2>2, FS_Surjection
  <2>4. U \in SUBSET T BY ServedHasUnit
  <2>5. IsFiniteSet(U) /\ Cardinality(U) <= Cardinality(T)
    BY <2>3, <2>4, FS_Subset
  <2>6. Cardinality(T) \in Nat /\ Cardinality(U) \in Nat
    BY <2>3, <2>5, FS_CardinalityType
  <2> QED BY <2>1, <2>3, <2>5, <2>6
<1> QED BY <1>1, Inductive, PTL

\* A readmission that took no unit rests on one that was taken for its run
\* and never given back, while submissions of the run do not overlap.
THEOREM RenewalHolds == Spec => []RenewalHasUnit
<1>1. IndInv => RenewalHasUnit
  BY DEF IndInv, CoverInv, Covers, RenewalHasUnit
<1> QED BY <1>1, Inductive, PTL

\* A run whose submissions do not overlap never holds two open leases.
THEOREM OneOpenHolds == Spec => []OneOpenLease
<1>1. IndInv => OneOpenLease
  <2> SUFFICES ASSUME IndInv, NEW r \in Runs \ overlapped
               PROVE  Cardinality(OpenOf(r)) <= 1
    BY DEF OneOpenLease
  <2>1. \A i, j \in OpenOf(r) : i = j BY DEF IndInv, OpenInv
  <2>2. CASE OpenOf(r) = {} BY <2>2, FS_EmptySet
  <2>3. CASE OpenOf(r) # {}
    <3>1. PICK i : i \in OpenOf(r) BY <2>3
    <3>2. OpenOf(r) = {i} BY <2>1, <3>1
    <3> QED BY <3>2, FS_Singleton
  <2> QED BY <2>2, <2>3
<1> QED BY <1>1, Inductive, PTL

\* A lease is settled at most once, and while submissions of its run do not
\* overlap only the attempt that it was acquired for charges it.
THEOREM ChargedHolds == Spec => []ChargedOnceToItsDonor
<1>1. IndInv => ChargedOnceToItsDonor
  BY DEF IndInv, SettleInv, ReportInv, ChargedOnceToItsDonor
<1> QED BY <1>1, Inductive, PTL
=============================================================================
