-------------------------- MODULE DispatcherProofs ---------------------------
(***************************************************************************)
(* Proofs about Dispatcher.  The inductive invariant comes first; then     *)
(* what each action changes, one lemma per action that also shows the step *)
(* well typed; then one lemma per part of the invariant, with one step per *)
(* action; the theorems are at the end.                                    *)
(***************************************************************************)
EXTENDS Dispatcher, FiniteSetTheorems, TLAPS

-----------------------------------------------------------------------------
(* The inductive invariant.                                                *)

Finite == \A d \in Daemons : IsFiniteSet(fins[d])

\* A card is filed in a column.
Filing == \A d \in Daemons : reap[d].at = "file" => reap[d].to \in Columns

\* A dispatch whose set-up has not been reported yet has its entry.
Pending == \A d \in Daemons : entry[d].pending => entry[d].on

\* Only a live daemon has something under way, and only one whose actor runs
\* dispatches.
Resting ==
    \A d \in Daemons :
        /\ entry[d].on => up[d] = "up"
        /\ pick[d].at # "none" => up[d] = "up"
        /\ fins[d] # {} => Alive(d)
        /\ work[d].pc # "none" => Alive(d)

\* A dispatch that has passed the holds has neither an entry nor a tombstone.
OneCommand ==
    \A d \in Daemons :
        pick[d].at \in {"checked", "claimed"} => ~entry[d].on /\ ~tomb[d]

\* The worker of a running actor is accounted for, by the entry or by the
\* tombstone, and by the entry as long as nobody has stopped it.
Accounted ==
    \A d \in Daemons :
        /\ entry[d].on => work[d].pc # "none" /\ work[d].run = entry[d].run
        /\ work[d].pc # "none" /\ work[d].stop = "no" => entry[d].on
        /\ work[d].pc # "none" /\ up[d] = "up" => entry[d].on \/ tomb[d]

\* An engine holds the lock of its run from its start to its return.
Engaged(d) == work[d].pc \in {"exec", "doomed"}

LocksHeld ==
    /\ \A d \in Daemons : Engaged(d) =>
          lock[work[d].run] = d /\ run[work[d].run] = "running"
    /\ \A i \in Runs, d \in Daemons :
          lock[i] = d => Engaged(d) /\ work[d].run = i

\* When daemons take turns, the card points to the run that an engine
\* executes, whoever executes it.
InTurn == \A d, e \in Daemons : up[d] = "up" /\ up[e] = "up" => d = e

Pointer ==
    /\ \A d \in Daemons : Executing(d) => card.last = work[d].run
    /\ \A d \in Daemons : entry[d].on => card.last = entry[d].run
    /\ \A d, e \in Daemons : entry[d].on /\ Executing(e) => d = e
    /\ \A d, e \in Daemons :
          pick[d].at \in {"checked", "claimed"} => ~Executing(e)

\* A dispatch and what is left of it hold their daemon's marker, the watchdog
\* a recovery marker.
OwnToken(d, t) == t.by = d /\ ~t.rec

Marked ==
    \A d \in Daemons :
        /\ pick[d].at = "claimed" => OwnToken(d, pick[d].tok)
        /\ entry[d].on => OwnToken(d, entry[d].tok)
        /\ \A f \in fins[d] : OwnToken(d, f.tok)
        /\ reap[d].at \in {"file", "release"} => reap[d].prev.rec

\* A dispatch does not share its token with what is left of an earlier one:
\* from the listing of the free card on, the older tokens are off the card.
Apart ==
    \A d \in Daemons :
        /\ pick[d].at # "none" => \A f \in fins[d] : f.tok # card.claim
        /\ pick[d].at # "none" /\ entry[d].on => entry[d].tok # card.claim
        /\ entry[d].on => \A f \in fins[d] : f.tok # entry[d].tok
        /\ pick[d].at = "claimed" => \A f \in fins[d] : f.tok # pick[d].tok

\* Without lapses, the claim of a live dispatch is fresh, and its own.
Fresh == \A d \in Daemons : Dispatches(d, card.claim) => card.fresh

Holding ==
    \A d \in Daemons :
        /\ pick[d].at = "claimed" => card.claim = pick[d].tok
        /\ entry[d].on => card.claim = entry[d].tok

TurnInv  == ~Overlap => InTurn /\ Pointer
LeaseInv == ~Lapses => Fresh /\ Holding

IndInv ==
    /\ TypeOK /\ Finite /\ Filing /\ Pending
    /\ Resting /\ OneCommand /\ Accounted /\ LocksHeld
    /\ TurnInv /\ Marked /\ Apart /\ LeaseInv

-----------------------------------------------------------------------------
\* The epochs one daemon remembers.
EpochsOf(d) ==
    {pick[d].tok.ep, entry[d].tok.ep, work[d].tok.ep, reap[d].prev.ep}
        \cup {f.tok.ep : f \in fins[d]}

\* The values of a function on a finite set are finitely many.
LEMMA ImageFinite ==
    ASSUME NEW S, IsFiniteSet(S), NEW g, DOMAIN g = S
    PROVE  IsFiniteSet({g[x] : x \in S})
<1> DEFINE T == {g[x] : x \in S} h == [x \in S |-> g[x]]
<1>1. h \in Surjection(S, T)
  BY DEF Surjection
<1> QED BY <1>1, FS_Surjection

\* Finitely many epochs are remembered at any time.
LEMMA RememberedFinite ==
    ASSUME Finite
    PROVE  IsFiniteSet(Remembered)
<1>1. \A d \in Daemons : IsFiniteSet(EpochsOf(d))
  <2> TAKE d \in Daemons
  <2>1. IsFiniteSet({f.tok.ep : f \in fins[d]})
    <3> DEFINE g == [f \in fins[d] |-> f.tok.ep]
    <3>1. IsFiniteSet({g[f] : f \in fins[d]})
      BY ImageFinite DEF Finite
    <3>2. {g[f] : f \in fins[d]} = {f.tok.ep : f \in fins[d]}
      OBVIOUS
    <3> QED BY <3>1, <3>2
  <2>2. IsFiniteSet({pick[d].tok.ep, entry[d].tok.ep, work[d].tok.ep,
                     reap[d].prev.ep})
    <3> DEFINE A == {pick[d].tok.ep} B == A \cup {entry[d].tok.ep}
               C == B \cup {work[d].tok.ep} D == C \cup {reap[d].prev.ep}
    <3>1. IsFiniteSet(A) BY FS_Singleton
    <3>2. IsFiniteSet(B) BY <3>1, FS_AddElement
    <3>3. IsFiniteSet(C) BY <3>2, FS_AddElement
    <3>4. IsFiniteSet(D) BY <3>3, FS_AddElement
    <3> QED BY <3>4
  <2> QED BY <2>1, <2>2, FS_Union DEF EpochsOf
<1>2. IsFiniteSet({EpochsOf(d) : d \in Daemons})
  <2> DEFINE g == [d \in Daemons |-> EpochsOf(d)]
  <2>1. IsFiniteSet({g[d] : d \in Daemons})
    <3>1. IsFiniteSet(Daemons) BY DispatcherAssumption
    <3>2. DOMAIN g = Daemons OBVIOUS
    <3> QED BY <3>1, <3>2, ImageFinite
  <2>2. {g[d] : d \in Daemons} = {EpochsOf(d) : d \in Daemons}
    OBVIOUS
  <2> QED BY <2>1, <2>2
<1>3. IsFiniteSet(UNION {EpochsOf(d) : d \in Daemons})
  BY <1>1, <1>2, FS_UNION
<1>4. Remembered = {card.claim.ep} \cup UNION {EpochsOf(d) : d \in Daemons}
  BY DEF Remembered, EpochsOf
<1> QED BY <1>3, <1>4, FS_Singleton, FS_Union

\* The new token of a claim carries an epoch that nobody remembers.
LEMMA NewTokenFresh ==
    ASSUME Finite, NEW d, NEW rec
    PROVE  /\ NewToken(d, rec).by = d /\ NewToken(d, rec).rec = rec
           /\ NewToken(d, rec).ep \in Nat
           /\ NewToken(d, rec).ep \notin Remembered
           /\ NewToken(d, rec) = [by |-> d, rec |-> rec, ep |-> NewToken(d, rec).ep]
<1> DEFINE n == Cardinality(Remembered) + 1
<1>1. n \in Nat /\ n = Cardinality(Remembered) + 1 /\ Cardinality(Remembered) \in Nat
  BY RememberedFinite, FS_CardinalityType
<1>2. IsFiniteSet(1..n) /\ Cardinality(1..n) = n
  BY <1>1, FS_Interval
<1>3. \E m \in 1..n : m \notin Remembered
  <2>1. SUFFICES ASSUME 1..n \subseteq Remembered PROVE FALSE
    OBVIOUS
  <2>2. Cardinality(1..n) <= Cardinality(Remembered)
    BY <2>1, RememberedFinite, FS_Subset
  <2> HIDE DEF n
  <2> QED BY <1>1, <1>2, <2>2
<1>4. (CHOOSE m \in 1..n : m \notin Remembered) \in {m \in 1..n : m \notin Remembered}
  BY <1>3
<1> DEFINE c == CHOOSE m \in 1..n : m \notin Remembered
<1>5. NewToken(d, rec) = [by |-> d, rec |-> rec, ep |-> c]
  BY DEF NewToken
<1>6. c \in Nat /\ c \notin Remembered
  BY <1>4, <1>1
<1> HIDE DEF c
<1> QED BY <1>5, <1>6

\* The new token of a claim is well typed, and of the asked kind.
LEMMA NewTokenTyped ==
    ASSUME Finite, NEW d \in Daemons, NEW rec \in BOOLEAN
    PROVE  /\ NewToken(d, rec) \in Tokens
           /\ NewToken(d, rec).by = d /\ NewToken(d, rec).rec = rec
           /\ NewToken(d, rec).ep \notin Remembered
<1> DEFINE n == NewToken(d, rec)
<1>1. /\ n.by = d /\ n.rec = rec /\ n.ep \in Nat /\ n.ep \notin Remembered
      /\ n = [by |-> d, rec |-> rec, ep |-> n.ep]
  BY NewTokenFresh
<1> HIDE DEF n
<1>2. n \in Tokens BY <1>1 DEF Tokens
<1> QED BY <1>1, <1>2 DEF n

-----------------------------------------------------------------------------
(* The records: which fields an update leaves alone.                       *)

\* The idle records are well typed, and idle.
LEMMA Constants ==
    /\ NoClaim \in Tokens /\ NoPick \in Picks /\ NoEntry \in Entries
    /\ NoRetry \in Retries /\ NoWork \in Workers /\ NoReap \in Passes
    /\ NoClaim.by = None /\ NoPick.at = "none" /\ ~NoEntry.on /\ ~NoEntry.pending
    /\ NoWork.pc = "none" /\ NoReap.at = "none" /\ None \notin Daemons
    /\ None # Console
<1>1. /\ None \notin Daemons /\ None # Console
      /\ NRuns \in Nat \ {0}
  BY DispatcherAssumption
<1>2. NoClaim \in Tokens /\ NoClaim.by = None
  BY DEF NoClaim, Tokens
<1>3. NoPick \in Picks /\ NoPick.at = "none"
  BY <1>2 DEF NoPick, Picks, Columns
<1>4. 1 \in Runs
  BY <1>1 DEF Runs
<1>5. NoEntry \in Entries /\ ~NoEntry.on /\ ~NoEntry.pending
  BY <1>2, <1>4 DEF NoEntry, Entries, Columns, Origins
<1>6. NoRetry \in Retries
  BY DEF NoRetry, Retries, RunPointers
<1>7. NoWork \in Workers /\ NoWork.pc = "none"
  BY <1>2, <1>4 DEF NoWork, Workers, Columns, Origins, Outcomes
<1>8. NoReap \in Passes /\ NoReap.at = "none"
  BY <1>2 DEF NoReap, Passes, RunStatuses, RunPointers
<1> QED BY <1>1, <1>2, <1>3, <1>5, <1>6, <1>7, <1>8

\* A move changes the column only.
LEMMA CardCol ==
    ASSUME NEW c \in Cards, NEW to \in Columns, NEW e, e = [c EXCEPT !.col = to]
    PROVE  /\ e \in Cards /\ e.claim = c.claim /\ e.fresh = c.fresh
           /\ e.last = c.last
BY DEF Cards

\* A renewal or an expiry changes the freshness only.
LEMMA CardFresh ==
    ASSUME NEW c \in Cards, NEW b \in BOOLEAN, NEW e, e = [c EXCEPT !.fresh = b]
    PROVE  e \in Cards /\ e.claim = c.claim /\ e.fresh = b /\ e.last = c.last
BY DEF Cards

\* A stamp changes the pointer only.
LEMMA CardLast ==
    ASSUME NEW c \in Cards, NEW i \in RunPointers, NEW e,
           e = [c EXCEPT !.last = i]
    PROVE  e \in Cards /\ e.claim = c.claim /\ e.fresh = c.fresh /\ e.last = i
BY DEF Cards

\* A move changes the column only.
LEMMA Moves ==
    ASSUME NEW c \in Cards, NEW to \in Columns, NEW tok, NEW from, NEW e,
           e = MoveOwned(c, to, tok) \/ e = MoveOwnedFrom(c, from, to, tok)
    PROVE  /\ e \in Cards /\ e.claim = c.claim /\ e.fresh = c.fresh
           /\ e.last = c.last
<1>1. e = c \/ e = [c EXCEPT !.col = to]
  BY DEF MoveOwned, MoveOwnedFrom
<1> QED BY <1>1, CardCol

\* A release empties the claim only.
LEMMA FreedCard ==
    ASSUME NEW c \in Cards
    PROVE  /\ Freed(c) \in Cards /\ Freed(c).claim = NoClaim
           /\ Freed(c).fresh = FALSE /\ Freed(c).last = c.last
<1> DEFINE e == Freed(c)
<1>1. e = [c EXCEPT !.claim = NoClaim, !.fresh = FALSE]
  BY DEF Freed
<1> HIDE DEF e
<1>2. e \in Cards /\ e.claim = NoClaim /\ e.fresh = FALSE /\ e.last = c.last
  BY <1>1, Constants DEF Cards
<1> QED BY <1>2 DEF e

\* A dispatch that gets on keeps its token and its column.
LEMMA PickAt ==
    ASSUME NEW p \in Picks, NEW s \in {"checked", "listed"}, NEW e,
           e = [p EXCEPT !.at = s]
    PROVE  e \in Picks /\ e.at = s /\ e.tok = p.tok /\ e.col = p.col
BY DEF Picks

\* A listed candidate is well typed.
LEMMA PickListed ==
    ASSUME NEW c \in Columns, NEW e,
           e = [NoPick EXCEPT !.at = "listed", !.col = c]
    PROVE  e \in Picks /\ e.at = "listed"
BY Constants DEF Picks

\* A retry that fires is well typed.
LEMMA RetryAt ==
    ASSUME NEW r \in Retries, NEW e, e = [r EXCEPT !.at = "fired"]
    PROVE  e \in Retries
BY DEF Retries

\* A retry that is pointed elsewhere is well typed.
LEMMA RetryPrev ==
    ASSUME NEW r \in Retries, NEW i \in RunPointers, NEW e,
           e = [r EXCEPT !.prev = i]
    PROVE  e \in Retries
BY DEF Retries

\* A worker that is stopped stays where it is.
LEMMA WorkStop ==
    ASSUME NEW w \in Workers, NEW s \in {"interrupt", "operator"}, NEW e,
           e = [w EXCEPT !.stop = s]
    PROVE  /\ e \in Workers /\ e.pc = w.pc /\ e.run = w.run /\ e.stop = s
           /\ e.tok = w.tok
BY DEF Workers

\* A worker that is interrupted is stopped, and stays where it is.
LEMMA Interrupts ==
    ASSUME NEW w \in Workers, NEW e, e = Interrupted(w)
    PROVE  e \in Workers /\ e.pc = w.pc /\ e.run = w.run /\ e.stop # "no"
BY DEF Workers, Interrupted

\* A worker whose engine starts keeps its run.
LEMMA WorkPc ==
    ASSUME NEW w \in Workers, NEW s \in {"exec", "doomed"}, NEW e,
           e = [w EXCEPT !.pc = s]
    PROVE  e \in Workers /\ e.pc = s /\ e.run = w.run /\ e.stop = w.stop
BY DEF Workers

\* A worker that returns keeps its run.
LEMMA WorkReturned ==
    ASSUME NEW w \in Workers, NEW o \in Outcomes, NEW e, e = Returned(w, o)
    PROVE  e \in Workers /\ e.pc = "returned" /\ e.run = w.run /\ e.stop = w.stop
BY DEF Workers, Returned

\* A finish worker that has moved the card keeps its token.
LEMMA PlanStep ==
    ASSUME NEW f \in Plans, NEW e, e = [f EXCEPT !.step = "release"]
    PROVE  e \in Plans /\ e.tok = f.tok
BY DEF Plans

\* A pass that has filed the card keeps its claim.
LEMMA PassAt ==
    ASSUME NEW r \in Passes, NEW e, e = [r EXCEPT !.at = "release"]
    PROVE  e \in Passes /\ e.at = "release" /\ e.prev = r.prev
BY DEF Passes

-----------------------------------------------------------------------------
(* What each step changes, field by field.                                 *)

\* A step of d leaves what the other daemons hold alone.
Only(d) ==
    \A e \in Daemons : e # d =>
        /\ up'[e] = up[e] /\ pick'[e] = pick[e] /\ entry'[e] = entry[e]
        /\ tomb'[e] = tomb[e] /\ work'[e] = work[e] /\ fins'[e] = fins[e]
        /\ reap'[e] = reap[e]

\* The claim on the card is the same, and as fresh.
KeepsClaim == card'.claim = card.claim /\ card'.fresh = card.fresh

\* A daemon starts; its boot sweep may release the claim of a dead one.
LEMMA Eff_Start ==
    ASSUME TypeOK, Finite, NEW d \in Daemons, Start(d)
    PROVE  /\ TypeOK' /\ Finite' /\ Only(d)
           /\ up[d] = "off" /\ up'[d] = "up"
           /\ Overlap \/ \A e \in Daemons : up[e] # "up"
           /\ UNCHANGED <<run, lock, pick, entry, tomb, work, fins, reap>>
           /\ card'.last = card.last
           /\ \/ KeepsClaim
              \/ /\ card.claim # NoClaim /\ up[card.claim.by] = "dead"
                 /\ card'.claim = NoClaim
<1>1. /\ up[d] = "off" /\ up' = [up EXCEPT ![d] = "up"]
      /\ Overlap \/ \A e \in Daemons : up[e] # "up"
      /\ UNCHANGED <<run, lock, pick, entry, retry, tomb, work, fins, reap,
                     minted, ops>>
      /\ \/ card' = card
         \/ /\ card.claim # NoClaim /\ up[card.claim.by] = "dead"
            /\ card' = Freed(card)
  BY DEF Start, local, hist
<1>2. card \in Cards BY DEF TypeOK
<1>3. /\ card' \in Cards /\ card'.last = card.last
      /\ \/ KeepsClaim
         \/ /\ card.claim # NoClaim /\ up[card.claim.by] = "dead"
            /\ card'.claim = NoClaim
  BY <1>1, <1>2, FreedCard, Zenon DEF KeepsClaim
<1>4. TypeOK' BY <1>1, <1>3 DEF TypeOK
<1> QED BY <1>1, <1>3, <1>4 DEF Finite, Only, TypeOK

\* A daemon dies with all it holds in memory; its locks are dropped.
LEMMA Eff_Crash ==
    ASSUME TypeOK, Finite, NEW d \in Daemons, Crash(d)
    PROVE  /\ TypeOK' /\ Finite' /\ Only(d)
           /\ Alive(d) /\ up'[d] = "dead"
           /\ lock' = [i \in Runs |-> IF lock[i] = d THEN None ELSE lock[i]]
           /\ pick'[d].at = "none" /\ ~entry'[d].on /\ work'[d].pc = "none"
           /\ ~tomb'[d] /\ fins'[d] = {} /\ reap'[d].at = "none"
           /\ UNCHANGED <<card, run>>
<1>1. /\ Alive(d) /\ up' = [up EXCEPT ![d] = "dead"]
      /\ lock' = [i \in Runs |-> IF lock[i] = d THEN None ELSE lock[i]]
      /\ pick' = [pick EXCEPT ![d] = NoPick]
      /\ entry' = [entry EXCEPT ![d] = NoEntry]
      /\ retry' = [retry EXCEPT ![d] = NoRetry]
      /\ tomb' = [tomb EXCEPT ![d] = FALSE]
      /\ work' = [work EXCEPT ![d] = NoWork] /\ fins' = [fins EXCEPT ![d] = {}]
      /\ reap' = [reap EXCEPT ![d] = NoReap]
      /\ UNCHANGED <<card, run, minted, ops>>
  BY DEF Crash, hist
<1>2. lock' \in [Runs -> Daemons \cup {Console, None}]
  BY <1>1 DEF TypeOK
<1>3. TypeOK' BY <1>1, <1>2, Constants DEF TypeOK
<1>4. Finite' BY <1>1, FS_EmptySet DEF Finite, TypeOK
<1> QED BY <1>1, <1>3, <1>4, Constants DEF Only, TypeOK

\* A daemon stops; its dispatch becomes a plan, its worker unwinds.
LEMMA Eff_Shutdown ==
    ASSUME TypeOK, Finite, NEW d \in Daemons, Shutdown(d)
    PROVE  /\ TypeOK' /\ Finite' /\ Only(d)
           /\ up[d] = "up" /\ up'[d] = "stopped"
           /\ pick'[d].at = "none" /\ ~entry'[d].on
           /\ work'[d].pc = work[d].pc /\ work'[d].run = work[d].run
           /\ work'[d].stop # "no"
           /\ \A f \in fins'[d] : \/ f \in fins[d]
                                  \/ entry[d].on /\ f.tok = entry[d].tok
           /\ UNCHANGED <<card, run, lock, tomb, reap>>
<1> DEFINE w == Interrupted(work[d])
           f == [kind |-> "revert", from |-> entry[d].from,
                 tok |-> entry[d].tok, step |-> "move"]
           s == IF ~entry[d].on THEN fins[d] ELSE fins[d] \cup {f}
<1>1. /\ up[d] = "up" /\ up' = [up EXCEPT ![d] = "stopped"]
      /\ work' = [work EXCEPT ![d] = w]
      /\ fins' = [fins EXCEPT ![d] = s]
      /\ entry' = [entry EXCEPT ![d] = NoEntry]
      /\ retry' = [retry EXCEPT ![d] = NoRetry]
      /\ pick' = [pick EXCEPT ![d] = NoPick]
      /\ UNCHANGED <<card, run, lock, tomb, reap, minted, ops>>
  BY DEF Shutdown, hist
<1>2. /\ w \in Workers /\ w.pc = work[d].pc /\ w.run = work[d].run
      /\ w.stop # "no"
  BY Interrupts DEF TypeOK
<1>3. f \in Plans /\ f.tok = entry[d].tok
  BY DEF TypeOK, Plans, Entries
<1>4. /\ s \in SUBSET Plans /\ IsFiniteSet(s)
      /\ \A g \in s : g \in fins[d] \/ (entry[d].on /\ g.tok = entry[d].tok)
  <2> HIDE DEF f
  <2>1. fins[d] \in SUBSET Plans /\ IsFiniteSet(fins[d])
    BY DEF TypeOK, Finite
  <2>2. IsFiniteSet(fins[d] \cup {f})
    BY <2>1, FS_AddElement
  <2>3. CASE entry[d].on
    <3>1. s = fins[d] \cup {f} BY <2>3
    <3> HIDE DEF s
    <3> QED BY <1>3, <2>1, <2>2, <2>3, <3>1
  <2>4. CASE ~entry[d].on
    <3>1. s = fins[d] BY <2>4
    <3> HIDE DEF s
    <3> QED BY <2>1, <3>1
  <2> QED BY <2>3, <2>4
<1> HIDE DEF w, f, s
<1>5. TypeOK' BY <1>1, <1>2, <1>4, Constants DEF TypeOK
<1>6. Finite' BY <1>1, <1>4 DEF Finite, TypeOK
<1> QED BY <1>1, <1>2, <1>4, <1>5, <1>6, Constants DEF Only, TypeOK

\* A renewal makes the claim fresh.
LEMMA Eff_Renew ==
    ASSUME TypeOK, Finite, NEW d \in Daemons, Renew(d)
    PROVE  /\ TypeOK' /\ Finite'
           /\ UNCHANGED <<run, lock, up, pick, entry, tomb, work, fins, reap>>
           /\ card'.last = card.last /\ card'.claim = card.claim
           /\ card'.fresh = TRUE
<1>1. /\ card' = [card EXCEPT !.fresh = TRUE]
      /\ UNCHANGED <<run, lock, up, pick, entry, retry, tomb, work, fins, reap,
                     minted, ops>>
  BY DEF Renew, local, hist
<1>2. /\ card' \in Cards /\ card'.claim = card.claim /\ card'.fresh = TRUE
      /\ card'.last = card.last
  BY <1>1, CardFresh DEF TypeOK
<1> QED BY <1>1, <1>2 DEF TypeOK, Finite

\* A lease runs out; that of a live dispatch does only if it may.
LEMMA Eff_LeaseExpires ==
    ASSUME TypeOK, Finite, LeaseExpires
    PROVE  /\ TypeOK' /\ Finite'
           /\ UNCHANGED <<run, lock, up, pick, entry, tomb, work, fins, reap>>
           /\ card'.last = card.last /\ card'.claim = card.claim
           /\ \A d \in Daemons : Dispatches(d, card.claim) => Lapses
<1>1. /\ card' = [card EXCEPT !.fresh = FALSE]
      /\ UNCHANGED <<run, lock, up, pick, entry, retry, tomb, work, fins, reap,
                     minted>>
      /\ \A d \in Daemons : Dispatches(d, card.claim) => Lapses
  BY DEF LeaseExpires, local
<1>2. /\ card' \in Cards /\ card'.claim = card.claim
      /\ card'.last = card.last
  BY <1>1, CardFresh DEF TypeOK
<1>3. ops' \in 0..MaxOps
  BY DispatcherAssumption DEF LeaseExpires, Fault, TypeOK
<1> QED BY <1>1, <1>2, <1>3 DEF TypeOK, Finite

\* A listing finds the card free.
LEMMA Eff_ListCandidates ==
    ASSUME TypeOK, Finite, NEW d \in Daemons, ListCandidates(d)
    PROVE  /\ TypeOK' /\ Finite' /\ Only(d)
           /\ up[d] = "up" /\ card.claim = NoClaim
           /\ pick[d].at = "none" /\ pick'[d].at = "listed"
           /\ UNCHANGED <<card, run, lock, up, entry, tomb, work, fins, reap>>
<1> DEFINE p == [NoPick EXCEPT !.at = "listed", !.col = card.col]
<1>1. /\ up[d] = "up" /\ card.claim = NoClaim /\ pick[d].at = "none"
      /\ pick' = [pick EXCEPT ![d] = p]
      /\ UNCHANGED <<card, run, lock, up, entry, retry, tomb, work, fins, reap,
                     minted, ops>>
  BY DEF ListCandidates, hist
<1>2. card.col \in Columns BY DEF TypeOK, Cards
<1>3. p \in Picks /\ p.at = "listed" BY <1>2, PickListed
<1> HIDE DEF p
<1>4. TypeOK' BY <1>1, <1>3 DEF TypeOK
<1> QED BY <1>1, <1>3, <1>4 DEF TypeOK, Finite, Only

\* What the orphan probe may do to the runs.
LEMMA Promotion ==
    ASSUME TypeOK, NEW i \in RunPointers, NEW r \in promoteIfOrphaned(i)
    PROVE  /\ r \in [Runs -> RunStatuses]
           /\ \A j \in Runs : lock[j] # None => r[j] = run[j]
BY DEF TypeOK, promoteIfOrphaned, StatusOf, RunStatuses, RunPointers

\* A dispatch passes the holds if the last run is not running.
LEMMA Eff_lastRunHoldBeforeClaim ==
    ASSUME TypeOK, Finite, NEW d \in Daemons, lastRunHoldBeforeClaim(d)
    PROVE  /\ TypeOK' /\ Finite' /\ Only(d)
           /\ up[d] = "up" /\ pick[d].at = "listed"
           /\ \A j \in Runs : lock[j] # None => run'[j] = run[j]
           /\ \/ pick'[d].at = "none"
              \/ /\ pick'[d].at = "checked" /\ ~entry[d].on /\ ~tomb[d]
                 /\ card.last # None => run'[card.last] # "running"
           /\ UNCHANGED <<card, lock, up, entry, tomb, work, fins, reap>>
<1> DEFINE q == [pick[d] EXCEPT !.at = "checked"]
<1>0. card.last \in RunPointers /\ pick[d] \in Picks /\ retry[d] \in Retries
  BY DEF TypeOK, Cards
<1>1. /\ up[d] = "up" /\ pick[d].at = "listed"
      /\ run' \in {run} \/ run' \in promoteIfOrphaned(card.last)
      /\ UNCHANGED <<card, lock, up, entry, tomb, work, fins, reap, minted, ops>>
  BY DEF lastRunHoldBeforeClaim, hist
<1>2. /\ run' \in [Runs -> RunStatuses]
      /\ \A j \in Runs : lock[j] # None => run'[j] = run[j]
  BY <1>0, <1>1, Promotion DEF TypeOK
<1>3. \E p : /\ pick' = [pick EXCEPT ![d] = p]
             /\ \/ p = NoPick
                \/ /\ p = q /\ ~isClaimed(d)
                   /\ card.last # None => run'[card.last] # "running"
  <2> DEFINE status == IF card.last = None THEN "absent" ELSE run'[card.last]
             held == isClaimed(d) \/ status \in {"running", "cancelled"}
  <2>1. pick' = [pick EXCEPT ![d] = IF held THEN NoPick ELSE q]
    BY DEF lastRunHoldBeforeClaim
  <2>2. ~held => ~isClaimed(d) /\ (card.last # None => run'[card.last] # "running")
    OBVIOUS
  <2> HIDE DEF held, q
  <2> QED BY <2>1, <2>2
<1>4. retry' \in [Daemons -> Retries]
  <2>1. \E r : retry' = [retry EXCEPT ![d] = r] /\ r \in {NoRetry, retry[d]}
    BY DEF lastRunHoldBeforeClaim
  <2> QED BY <1>0, <2>1, Constants DEF TypeOK
<1>5. q \in Picks /\ q.at = "checked" BY <1>0, PickAt
<1> HIDE DEF q
<1>6. PICK p : /\ pick' = [pick EXCEPT ![d] = p]
               /\ \/ p = NoPick
                  \/ /\ p = q /\ ~isClaimed(d)
                     /\ card.last # None => run'[card.last] # "running"
  BY <1>3
<1>7. p \in Picks BY <1>5, <1>6, Constants
<1>8. TypeOK' BY <1>1, <1>2, <1>4, <1>6, <1>7 DEF TypeOK
<1>9. pick'[d] = p /\ Only(d) /\ Finite'
  BY <1>1, <1>6 DEF TypeOK, Only, Finite
<1> QED BY <1>1, <1>2, <1>5, <1>6, <1>8, <1>9, Constants DEF isClaimed

\* A claim keeps its own marker, or takes a token that nobody remembers.
LEMMA Claims ==
    ASSUME TypeOK, Finite, NEW d \in Daemons, CanClaim(d)
    PROVE  /\ ClaimToken(d) \in Tokens
           /\ ClaimToken(d).by = d /\ ~ClaimToken(d).rec
           /\ \/ card.claim = NoClaim /\ ClaimToken(d).ep \notin Remembered
              \/ ClaimToken(d) = card.claim
<1>1. CASE card.claim = NoClaim
  <2>1. ClaimToken(d) = NewToken(d, FALSE) BY <1>1 DEF ClaimToken
  <2>2. /\ NewToken(d, FALSE).by = d /\ NewToken(d, FALSE).rec = FALSE
        /\ NewToken(d, FALSE).ep \notin Remembered
        /\ NewToken(d, FALSE) \in Tokens
    BY NewTokenTyped
  <2> QED BY <1>1, <2>1, <2>2
<1>2. CASE card.claim # NoClaim
  <2>1. ClaimToken(d) = card.claim /\ card.claim.by = d /\ ~card.claim.rec
    BY <1>2 DEF ClaimToken, CanClaim
  <2> QED BY <2>1 DEF TypeOK, Cards
<1> QED BY <1>1, <1>2

\* A fresh epoch tells its token from those in use.
LEMMA Unremembered ==
    ASSUME NEW t, t.ep \notin Remembered
    PROVE  /\ t # card.claim
           /\ \A e \in Daemons :
                 /\ t # pick[e].tok /\ t # entry[e].tok /\ t # reap[e].prev
                 /\ \A f \in fins[e] : t # f.tok
<1>1. card.claim.ep \in Remembered BY DEF Remembered
<1>2. ASSUME NEW e \in Daemons
      PROVE  /\ pick[e].tok.ep \in Remembered /\ entry[e].tok.ep \in Remembered
             /\ reap[e].prev.ep \in Remembered
             /\ \A f \in fins[e] : f.tok.ep \in Remembered
  BY DEF Remembered
<1> QED BY <1>1, <1>2, Zenon

\* A claim takes a free card under a new token, or keeps its own.
LEMMA Eff_ClaimCard ==
    ASSUME TypeOK, Finite, NEW d \in Daemons, ClaimCard(d)
    PROVE  /\ TypeOK' /\ Finite' /\ Only(d)
           /\ pick[d].at = "checked" /\ card'.last = card.last
           /\ \/ /\ pick'[d].at = "claimed" /\ pick'[d].tok = card'.claim
                 /\ card'.claim.by = d /\ ~card'.claim.rec /\ card'.fresh = TRUE
                 /\ \/ card.claim = NoClaim /\ card'.claim.ep \notin Remembered
                    \/ card'.claim = card.claim
              \/ pick'[d].at = "none" /\ KeepsClaim
           /\ UNCHANGED <<run, lock, up, entry, tomb, work, fins, reap>>
<1> DEFINE t == ClaimToken(d)
           p == [pick[d] EXCEPT !.at = "claimed", !.tok = t]
<1>1. /\ pick[d].at = "checked"
      /\ UNCHANGED <<run, lock, up, entry, retry, tomb, work, fins, reap,
                     minted, ops>>
      /\ \/ /\ CanClaim(d) /\ card' = [card EXCEPT !.claim = t, !.fresh = TRUE]
            /\ pick' = [pick EXCEPT ![d] = p]
         \/ UNCHANGED card /\ pick' = [pick EXCEPT ![d] = NoPick]
  BY DEF ClaimCard, hist
<1>2. CASE /\ CanClaim(d) /\ card' = [card EXCEPT !.claim = t, !.fresh = TRUE]
           /\ pick' = [pick EXCEPT ![d] = p]
  <2>1. /\ t \in Tokens /\ t.by = d /\ ~t.rec
        /\ \/ card.claim = NoClaim /\ t.ep \notin Remembered
           \/ t = card.claim
    BY <1>2, Claims
  <2> HIDE DEF t
  <2>2. /\ card' \in Cards /\ card'.claim = t /\ card'.fresh = TRUE
        /\ card'.last = card.last
    <3>1. card \in Cards BY DEF TypeOK
    <3> QED BY <1>2, <2>1, <3>1 DEF Cards
  <2>3. p \in Picks /\ p.at = "claimed" /\ p.tok = t
    <3>1. pick[d] \in Picks BY DEF TypeOK
    <3> QED BY <2>1, <3>1 DEF Picks
  <2> HIDE DEF p
  <2>4. TypeOK' BY <1>1, <1>2, <2>2, <2>3 DEF TypeOK
  <2>5. pick'[d] = p /\ Only(d) /\ Finite'
    BY <1>1, <1>2 DEF TypeOK, Only, Finite
  <2> QED BY <1>1, <2>1, <2>2, <2>3, <2>4, <2>5
<1>3. CASE UNCHANGED card /\ pick' = [pick EXCEPT ![d] = NoPick]
  <2>1. TypeOK' BY <1>1, <1>3, Constants DEF TypeOK
  <2> QED BY <1>1, <1>3, <2>1, Constants DEF TypeOK, Only, Finite, KeepsClaim
<1> QED BY <1>1, <1>2, <1>3

\* A launch fills the entry and the worker, and points the card to the run.
LEMMA Launches ==
    ASSUME TypeOK, NEW d \in Daemons, NEW i \in Runs, Launch(d, i)
    PROVE  /\ card' \in Cards /\ KeepsClaim /\ card'.last = i
           /\ entry' \in [Daemons -> Entries] /\ work' \in [Daemons -> Workers]
           /\ retry' \in [Daemons -> Retries]
           /\ entry'[d].on /\ entry'[d].run = i /\ entry'[d].tok = pick[d].tok
           /\ work'[d].pc = "setup" /\ work'[d].run = i /\ work'[d].stop = "no"
           /\ \A e \in Daemons : e # d => entry'[e] = entry[e] /\ work'[e] = work[e]
<1> DEFINE x == [on |-> TRUE, run |-> i, tok |-> pick[d].tok, src |-> pick[d].col,
                 from |-> None, pending |-> TRUE, try |-> retry[d].try]
           w == [NoWork EXCEPT !.pc = "setup", !.run = i, !.tok = pick[d].tok,
                               !.src = pick[d].col]
<1>1. /\ entry' = [entry EXCEPT ![d] = x] /\ work' = [work EXCEPT ![d] = w]
      /\ card' = [card EXCEPT !.last = i]
      /\ retry' = [retry EXCEPT ![d] = NoRetry]
  BY DEF Launch
<1>2. /\ pick[d].tok \in Tokens /\ pick[d].col \in Columns
      /\ retry[d].try \in Nat /\ card \in Cards /\ i \in RunPointers
  BY DEF TypeOK, Picks, Retries, RunPointers
<1>3. x \in Entries /\ x.on /\ x.run = i /\ x.tok = pick[d].tok
  BY <1>2 DEF Entries, Origins
<1>4. w \in Workers /\ w.pc = "setup" /\ w.run = i /\ w.stop = "no"
  <2>1. NoWork \in Workers /\ NoWork.stop = "no" BY Constants DEF NoWork
  <2> QED BY <1>2, <2>1 DEF Workers
<1>5. card' \in Cards /\ KeepsClaim /\ card'.last = i
  BY <1>1, <1>2, CardLast DEF KeepsClaim
<1> HIDE DEF x, w
<1>6. entry' = [entry EXCEPT ![d] = x] /\ work' = [work EXCEPT ![d] = w]
      /\ retry' = [retry EXCEPT ![d] = NoRetry]
  BY <1>1
<1> QED BY <1>3, <1>4, <1>5, <1>6, Constants DEF TypeOK

\* A release by marker empties a claim of that marker or does nothing.
LEMMA Releases ==
    ASSUME TypeOK, NEW d \in Daemons, NEW c \in Cards, c.claim = card.claim,
           c.fresh = card.fresh, c.last = card.last, card' = Release(c, d)
    PROVE  /\ card' \in Cards /\ card'.last = card.last
           /\ \/ KeepsClaim
              \/ /\ card.claim.by = d /\ ~card.claim.rec
                 /\ card'.claim = NoClaim
<1>1. CASE c.claim.by = d /\ ~c.claim.rec
  <2>1. card' = Freed(c) BY <1>1 DEF Release
  <2> QED BY <1>1, <2>1, FreedCard
<1>2. CASE ~(c.claim.by = d /\ ~c.claim.rec)
  <2>1. card' = c BY <1>2 DEF Release
  <2> QED BY <2>1 DEF KeepsClaim
<1> QED BY <1>1, <1>2

\* A dispatch ends in a launch, a release by marker or a parked card.
LEMMA Eff_resolveRunID ==
    ASSUME TypeOK, Finite, NEW d \in Daemons, resolveRunID(d)
    PROVE  /\ TypeOK' /\ Finite' /\ Only(d)
           /\ pick[d].at = "claimed" /\ pick'[d].at = "none"
           /\ \A j \in Runs : lock[j] # None => run'[j] = run[j]
           /\ UNCHANGED <<lock, up, tomb, fins, reap>>
           /\ \/ KeepsClaim /\ card'.last = card.last /\ UNCHANGED <<entry, work>>
              \/ /\ KeepsClaim
                 /\ entry'[d].on /\ entry'[d].tok = pick[d].tok
                 /\ card'.last = entry'[d].run
                 /\ work'[d].pc = "setup" /\ work'[d].run = entry'[d].run
                 /\ work'[d].stop = "no"
              \/ /\ card.claim.by = d /\ ~card.claim.rec /\ card'.claim = NoClaim
                 /\ card'.last = card.last /\ UNCHANGED <<entry, work>>
<1>1. /\ pick[d].at = "claimed" /\ pick' = [pick EXCEPT ![d] = NoPick]
      /\ UNCHANGED <<lock, up, tomb, fins, reap, ops>>
      /\ run' \in {run} \/ run' \in promoteIfOrphaned(card.last)
  BY DEF resolveRunID
<1>2. /\ run' \in [Runs -> RunStatuses]
      /\ \A j \in Runs : lock[j] # None => run'[j] = run[j]
  <2>1. card.last \in RunPointers BY DEF TypeOK, Cards
  <2> QED BY <1>1, <2>1, Promotion DEF TypeOK
<1>3. pick' \in [Daemons -> Picks] /\ pick'[d].at = "none"
      /\ \A e \in Daemons : e # d => pick'[e] = pick[e]
  BY <1>1, Constants DEF TypeOK
<1> DEFINE Rest ==
             /\ card' \in Cards /\ entry' \in [Daemons -> Entries]
             /\ work' \in [Daemons -> Workers] /\ retry' \in [Daemons -> Retries]
             /\ minted' \in 0..NRuns
             /\ \A e \in Daemons : e # d => entry'[e] = entry[e] /\ work'[e] = work[e]
             /\ \/ KeepsClaim /\ card'.last = card.last /\ UNCHANGED <<entry, work>>
                \/ /\ KeepsClaim
                   /\ entry'[d].on /\ entry'[d].tok = pick[d].tok
                   /\ card'.last = entry'[d].run
                   /\ work'[d].pc = "setup" /\ work'[d].run = entry'[d].run
                   /\ work'[d].stop = "no"
                \/ /\ card.claim.by = d /\ ~card.claim.rec /\ card'.claim = NoClaim
                   /\ card'.last = card.last /\ UNCHANGED <<entry, work>>
<1>4. /\ card \in Cards /\ card.last \in {None} \cup Runs
      /\ retry[d] \in Retries /\ retry[d].prev \in {None} \cup Runs
      /\ minted \in 0..NRuns /\ NRuns \in Nat
  BY DispatcherAssumption DEF TypeOK, Cards, Retries, RunPointers
<1>5. \/ /\ card' = card \/ card' = [card EXCEPT !.col = "awaiting_input"]
         /\ retry' = [retry EXCEPT ![d] = NoRetry]
         /\ UNCHANGED <<entry, work, minted>>
      \/ \E i \in Runs : Launch(d, i) /\ minted' \in 0..NRuns
      \/ /\ card' = Release(card, d)
         /\ \E i \in {retry[d].prev, card.last} :
               retry' = [retry EXCEPT ![d].prev = i]
         /\ UNCHANGED <<entry, work, minted>>
  <2> DEFINE status == IF card.last = None THEN "absent" ELSE run'[card.last]
             retried == retry[d].at # "none"
             resumed == IF retried THEN retry[d].prev
                        ELSE IF status = "failed_resumable" THEN card.last ELSE None
  <2>1. \/ /\ card' = IF MayEnter("awaiting_input")
                      THEN [card EXCEPT !.col = "awaiting_input"] ELSE card
           /\ retry' = [retry EXCEPT ![d] = NoRetry]
           /\ UNCHANGED <<entry, work, minted>>
        \/ resumed # None /\ Launch(d, resumed) /\ UNCHANGED minted
        \/ /\ card' = Release(card, d)
           /\ retry' = [retry EXCEPT ![d].prev =
                 IF retried /\ status = "failed_resumable" THEN card.last ELSE @]
           /\ UNCHANGED <<entry, work, minted>>
        \/ minted < NRuns /\ Launch(d, minted + 1) /\ minted' = minted + 1
    BY Zenon DEF resolveRunID
  <2>2. resumed \in {None} \cup Runs BY <1>4
  <2> HIDE DEF resumed
  <2>3. CASE resumed # None /\ Launch(d, resumed) /\ UNCHANGED minted
    BY <1>4, <2>2, <2>3
  <2>4. CASE minted < NRuns /\ Launch(d, minted + 1) /\ minted' = minted + 1
    <3>1. minted + 1 \in Runs /\ minted' \in 0..NRuns BY <1>4, <2>4 DEF Runs
    <3> QED BY <2>4, <3>1
  <2>5. CASE /\ card' = Release(card, d)
             /\ retry' = [retry EXCEPT ![d].prev =
                   IF retried /\ status = "failed_resumable" THEN card.last ELSE @]
             /\ UNCHANGED <<entry, work, minted>>
    <3> DEFINE b == retried /\ status = "failed_resumable"
    <3>1. retry' = [retry EXCEPT ![d].prev = IF b THEN card.last ELSE retry[d].prev]
      BY <2>5, Zenon
    <3> HIDE DEF b
    <3>2. PICK i : i = IF b THEN card.last ELSE retry[d].prev OBVIOUS
    <3>3. i \in {retry[d].prev, card.last} BY <3>2
    <3>4. retry' = [retry EXCEPT ![d].prev = i] BY <3>1, <3>2, Zenon
    <3> QED BY <2>5, <3>3, <3>4, Zenon
  <2>6. CASE /\ card' = IF MayEnter("awaiting_input")
                        THEN [card EXCEPT !.col = "awaiting_input"] ELSE card
             /\ retry' = [retry EXCEPT ![d] = NoRetry]
             /\ UNCHANGED <<entry, work, minted>>
    BY <2>6, Zenon
  <2> QED BY <2>1, <2>3, <2>4, <2>5, <2>6, Zenon
<1>6. ASSUME card' = card \/ card' = [card EXCEPT !.col = "awaiting_input"],
             retry' = [retry EXCEPT ![d] = NoRetry],
             UNCHANGED <<entry, work, minted>>
      PROVE  Rest
  <2>1. card' \in Cards /\ KeepsClaim /\ card'.last = card.last
    <3>1. "awaiting_input" \in Columns BY DEF Columns
    <3> QED BY <1>4, <1>6, <3>1, CardCol, Zenon DEF KeepsClaim
  <2>2. retry' \in [Daemons -> Retries] BY <1>6, Constants DEF TypeOK
  <2> QED BY <1>6, <2>1, <2>2 DEF TypeOK
<1>7. ASSUME NEW i \in Runs, Launch(d, i), minted' \in 0..NRuns
      PROVE  Rest
  BY <1>7, Launches
<1>8. ASSUME card' = Release(card, d),
             \E i \in {retry[d].prev, card.last} :
                 retry' = [retry EXCEPT ![d].prev = i],
             UNCHANGED <<entry, work, minted>>
      PROVE  Rest
  <2>1. /\ card' \in Cards /\ card'.last = card.last
        /\ \/ KeepsClaim
           \/ /\ card.claim.by = d /\ ~card.claim.rec /\ card'.claim = NoClaim
    BY <1>4, <1>8, Releases
  <2>2. PICK i \in RunPointers : retry' = [retry EXCEPT ![d].prev = i]
    BY <1>4, <1>8, Zenon DEF RunPointers
  <2>3. PICK r : r = [retry[d] EXCEPT !.prev = i] OBVIOUS
  <2>4. r \in Retries BY <1>4, <2>3, RetryPrev
  <2>5. retry' = [retry EXCEPT ![d] = r] BY <2>2, <2>3, Zenon
  <2>6. retry' \in [Daemons -> Retries] BY <2>4, <2>5 DEF TypeOK
  <2> QED BY <1>8, <2>1, <2>6 DEF TypeOK
<1> HIDE DEF Rest
<1>9. Rest BY <1>5, <1>6, <1>7, <1>8, Zenon
<1> USE DEF Rest
<1>10. TypeOK' BY <1>1, <1>2, <1>3, <1>9 DEF TypeOK
<1> QED BY <1>1, <1>2, <1>3, <1>9, <1>10 DEF Only, Finite

\* A step that only changes d's worker.
LEMMA WorkerTyped ==
    ASSUME TypeOK, NEW d \in Daemons, NEW w \in Workers,
           work' = [work EXCEPT ![d] = w]
    PROVE  /\ work' \in [Daemons -> Workers] /\ work'[d] = w
           /\ \A e \in Daemons : e # d => work'[e] = work[e]
BY DEF TypeOK

\* The bound on faults.
LEMMA Faults ==
    ASSUME TypeOK, NEW b, Fault(b)
    PROVE  ops' \in 0..MaxOps
BY DispatcherAssumption DEF Fault, TypeOK

\* The set-up moves the card, and the worker gets on or fails.
LEMMA Eff_runDispatchSetup ==
    ASSUME TypeOK, Finite, NEW d \in Daemons, runDispatchSetup(d)
    PROVE  /\ TypeOK' /\ Finite' /\ Only(d)
           /\ KeepsClaim /\ card'.last = card.last
           /\ work[d].pc = "setup" /\ work'[d].pc \in {"hooks", "setup_failed"}
           /\ work'[d].run = work[d].run /\ work'[d].stop = work[d].stop
           /\ UNCHANGED <<run, lock, up, pick, entry, tomb, fins, reap>>
<1> DEFINE moves == work[d].src # "in_progress" /\ work[d].stop = "no"
           lost == moves /\ ~Owned(work[d].tok)
           moved == moves /\ ~lost /\ MayEnter("in_progress")
<1>1. /\ work[d].pc = "setup"
      /\ card' = IF moved THEN [card EXCEPT !.col = "in_progress"] ELSE card
      /\ \E created \in BOOLEAN :
            /\ Fault(~created /\ ~lost)
            /\ work' = [work EXCEPT ![d] =
                  [@ EXCEPT !.pc = IF created /\ ~lost THEN "hooks"
                                   ELSE "setup_failed",
                            !.from = IF moved THEN work[d].src ELSE None,
                            !.src = "ready", !.tok = NoClaim]]
      /\ UNCHANGED <<run, lock, up, pick, entry, retry, tomb, fins, reap, minted>>
  BY Zenon DEF runDispatchSetup
<1> HIDE DEF moved, lost, moves
<1>2. work[d] \in Workers /\ work[d].src \in Columns /\ card \in Cards
  BY DEF TypeOK, Workers
<1>3. card' \in Cards /\ KeepsClaim /\ card'.last = card.last
  <2>1. card' = card \/ card' = [card EXCEPT !.col = "in_progress"]
    BY <1>1, Zenon
  <2>2. "in_progress" \in Columns BY DEF Columns
  <2> QED BY <1>2, <2>1, <2>2, CardCol, Zenon DEF KeepsClaim
<1>4. PICK created \in BOOLEAN :
            /\ Fault(~created /\ ~lost)
            /\ work' = [work EXCEPT ![d] =
                  [@ EXCEPT !.pc = IF created /\ ~lost THEN "hooks"
                                   ELSE "setup_failed",
                            !.from = IF moved THEN work[d].src ELSE None,
                            !.src = "ready", !.tok = NoClaim]]
  BY <1>1, Zenon
<1>5. PICK s : s = IF created /\ ~lost THEN "hooks" ELSE "setup_failed"
  OBVIOUS
<1>6. PICK o : o = IF moved THEN work[d].src ELSE None
  OBVIOUS
<1>7. PICK w : w = [work[d] EXCEPT !.pc = s, !.from = o, !.src = "ready",
                                   !.tok = NoClaim]
  OBVIOUS
<1>8. work' = [work EXCEPT ![d] = w]
  BY <1>4, <1>5, <1>6, <1>7, Zenon
<1>9. s \in {"hooks", "setup_failed"} /\ o \in Origins
  BY <1>2, <1>5, <1>6 DEF Origins
<1>10. /\ w \in Workers /\ w.pc = s /\ w.run = work[d].run
       /\ w.stop = work[d].stop
  BY <1>2, <1>7, <1>9, Constants DEF Workers, Columns
<1>11. ops' \in 0..MaxOps BY <1>4, Faults
<1>12. work' \in [Daemons -> Workers] /\ work'[d] = w
       /\ \A e \in Daemons : e # d => work'[e] = work[e]
  BY <1>8, <1>10, WorkerTyped
<1>13. /\ work[d].pc = "setup"
       /\ UNCHANGED <<run, lock, up, pick, entry, retry, tomb, fins, reap, minted>>
  BY <1>1
<1>14. TypeOK' BY <1>3, <1>11, <1>12, <1>13 DEF TypeOK
<1> QED BY <1>3, <1>9, <1>10, <1>12, <1>13, <1>14 DEF Only, Finite

\* A dispatch whose engine does not start returns.
LEMMA Eff_NotStarted ==
    ASSUME TypeOK, Finite, NEW d \in Daemons, NotStarted(d)
    PROVE  /\ TypeOK' /\ Finite' /\ Only(d)
           /\ work[d].pc = "hooks" /\ work'[d].pc = "returned"
           /\ work'[d].run = work[d].run /\ work'[d].stop = work[d].stop
           /\ UNCHANGED <<card, run, lock, up, pick, entry, tomb, fins, reap>>
<1>1. /\ work[d].pc = "hooks"
      /\ \E out \in {"failed", "paused"} :
            work' = [work EXCEPT ![d] = Returned(work[d], out)]
      /\ UNCHANGED <<card, run, lock, up, pick, entry, retry, tomb, fins, reap,
                     minted>>
  BY DEF NotStarted
<1>2. ops' \in 0..MaxOps BY Faults DEF NotStarted
<1>3. PICK out \in {"failed", "paused"} :
            work' = [work EXCEPT ![d] = Returned(work[d], out)]
  BY <1>1
<1>4. PICK w : w = Returned(work[d], out) OBVIOUS
<1>5. w \in Workers /\ w.pc = "returned" /\ w.run = work[d].run /\ w.stop = work[d].stop
  BY <1>4, WorkReturned DEF TypeOK, Outcomes
<1>6. work' \in [Daemons -> Workers] /\ work'[d] = w
      /\ \A e \in Daemons : e # d => work'[e] = work[e]
  BY <1>3, <1>4, <1>5, WorkerTyped
<1>7. TypeOK' BY <1>1, <1>2, <1>6 DEF TypeOK
<1> QED BY <1>1, <1>5, <1>6, <1>7 DEF Only, Finite

\* An engine takes the lock of its run.
LEMMA Eff_EngineStarts ==
    ASSUME TypeOK, Finite, NEW d \in Daemons, EngineStarts(d)
    PROVE  /\ TypeOK' /\ Finite' /\ Only(d)
           /\ work[d].pc = "hooks" /\ work[d].run \in Runs
           /\ lock[work[d].run] = None
           /\ work'[d].run = work[d].run /\ work'[d].stop = work[d].stop
           /\ work'[d].pc \in {"exec", "doomed"}
           /\ work'[d].pc = "exec" => work[d].stop = "no"
           /\ lock' = [lock EXCEPT ![work[d].run] = d]
           /\ run' = [run EXCEPT ![work[d].run] = "running"]
           /\ UNCHANGED <<card, up, pick, entry, tomb, fins, reap>>
<1>1. /\ work[d].pc = "hooks" /\ lock[work[d].run] = None
      /\ lock' = [lock EXCEPT ![work[d].run] = d]
      /\ run' = [run EXCEPT ![work[d].run] = "running"]
      /\ work' = [work EXCEPT ![d].pc =
                     IF work[d].stop = "no" THEN "exec" ELSE "doomed"]
      /\ UNCHANGED <<card, up, pick, entry, retry, tomb, fins, reap, minted, ops>>
  BY DEF EngineStarts, hist
<1>2. PICK s : s = IF work[d].stop = "no" THEN "exec" ELSE "doomed" OBVIOUS
<1>3. PICK w : w = [work[d] EXCEPT !.pc = s] OBVIOUS
<1>4. work' = [work EXCEPT ![d] = w] BY <1>1, <1>2, <1>3, Zenon
<1>5. work[d] \in Workers /\ work[d].run \in Runs BY DEF TypeOK, Workers
<1>6. s \in {"exec", "doomed"} /\ (s = "exec" => work[d].stop = "no")
  BY <1>2
<1>7. w \in Workers /\ w.pc = s /\ w.run = work[d].run /\ w.stop = work[d].stop
  BY <1>3, <1>5, <1>6, WorkPc
<1>8. work' \in [Daemons -> Workers] /\ work'[d] = w
      /\ \A e \in Daemons : e # d => work'[e] = work[e]
  BY <1>4, <1>7, WorkerTyped
<1>9. /\ work[d].pc = "hooks" /\ lock[work[d].run] = None
      /\ lock' = [lock EXCEPT ![work[d].run] = d]
      /\ run' = [run EXCEPT ![work[d].run] = "running"]
      /\ UNCHANGED <<card, up, pick, entry, retry, tomb, fins, reap, minted, ops>>
  BY <1>1
<1>10. TypeOK' BY <1>5, <1>8, <1>9 DEF TypeOK, RunStatuses
<1> QED BY <1>5, <1>6, <1>7, <1>8, <1>9, <1>10 DEF Only, Finite

\* An engine drops the lock of its run.
LEMMA Eff_EngineReturns ==
    ASSUME TypeOK, Finite, NEW d \in Daemons, EngineReturns(d)
    PROVE  /\ TypeOK' /\ Finite' /\ Only(d)
           /\ work[d].pc \in {"exec", "doomed"} /\ work[d].run \in Runs
           /\ work'[d].pc = "returned"
           /\ work'[d].run = work[d].run /\ work'[d].stop = work[d].stop
           /\ lock' = [lock EXCEPT ![work[d].run] = None]
           /\ \A j \in Runs : j # work[d].run => run'[j] = run[j]
           /\ UNCHANGED <<card, up, pick, entry, tomb, fins, reap>>
<1>1. /\ work[d].pc \in {"exec", "doomed"}
      /\ \E e \in EngineEndings(work[d]) :
            /\ run' = [run EXCEPT ![work[d].run] = e[1]]
            /\ work' = [work EXCEPT ![d] = Returned(work[d], e[2])]
      /\ lock' = [lock EXCEPT ![work[d].run] = None]
      /\ UNCHANGED <<card, up, pick, entry, retry, tomb, fins, reap, minted, ops>>
  BY DEF EngineReturns, hist
<1>2. ASSUME NEW e \in EngineEndings(work[d])
      PROVE  e[1] \in RunStatuses /\ e[2] \in Outcomes
  <2>1. \/ e = <<"finished", "ok">> \/ e = <<"failed_resumable", "failed">>
        \/ e = <<"cancelled", "cancelled">> \/ e = <<"paused", "paused">>
        \/ e \in {"failed", "failed_resumable"} \X {"failed", "deterministic"}
    BY Zenon DEF EngineEndings
  <2> QED BY <2>1 DEF RunStatuses, Outcomes
<1>3. PICK e \in EngineEndings(work[d]) :
            /\ run' = [run EXCEPT ![work[d].run] = e[1]]
            /\ work' = [work EXCEPT ![d] = Returned(work[d], e[2])]
  BY <1>1
<1>4. PICK w : w = Returned(work[d], e[2]) OBVIOUS
<1>5. work[d] \in Workers /\ work[d].run \in Runs BY DEF TypeOK, Workers
<1>6. w \in Workers /\ w.pc = "returned" /\ w.run = work[d].run /\ w.stop = work[d].stop
  BY <1>2, <1>4, <1>5, WorkReturned
<1>7. work' \in [Daemons -> Workers] /\ work'[d] = w
      /\ \A x \in Daemons : x # d => work'[x] = work[x]
  BY <1>3, <1>4, <1>6, WorkerTyped
<1>8. TypeOK' BY <1>1, <1>2, <1>3, <1>5, <1>7 DEF TypeOK
<1> QED BY <1>1, <1>3, <1>5, <1>6, <1>7, <1>8 DEF Only, Finite, TypeOK

\* The worker of a stopped daemon ends.
LEMMA Eff_WorkerEnds ==
    ASSUME TypeOK, Finite, NEW d \in Daemons, WorkerEnds(d)
    PROVE  /\ TypeOK' /\ Finite' /\ Only(d)
           /\ up[d] = "stopped" /\ work[d].pc \in {"setup_failed", "returned"}
           /\ work'[d].pc = "none"
           /\ UNCHANGED <<card, run, lock, up, pick, entry, tomb, fins, reap>>
<1>1. /\ up[d] = "stopped" /\ work[d].pc \in {"setup_failed", "returned"}
      /\ work' = [work EXCEPT ![d] = NoWork]
      /\ UNCHANGED <<card, run, lock, up, pick, entry, retry, tomb, fins, reap,
                     minted, ops>>
  BY DEF WorkerEnds, hist
<1>2. work' \in [Daemons -> Workers] /\ work'[d] = NoWork
      /\ \A e \in Daemons : e # d => work'[e] = work[e]
  BY <1>1, Constants, WorkerTyped
<1>3. TypeOK' BY <1>1, <1>2 DEF TypeOK
<1> QED BY <1>1, <1>2, <1>3, Constants DEF Only, Finite

\* A retry fires.
LEMMA Eff_RetryDue ==
    ASSUME TypeOK, Finite, NEW d \in Daemons, RetryDue(d)
    PROVE  /\ TypeOK' /\ Finite'
           /\ UNCHANGED <<card, run, lock, up, pick, entry, tomb, work, fins, reap>>
<1>1. /\ retry' = [retry EXCEPT ![d].at = "fired"]
      /\ UNCHANGED <<card, run, lock, up, pick, entry, tomb, work, fins, reap,
                     minted, ops>>
  BY DEF RetryDue, hist
<1>2. PICK r : r = [retry[d] EXCEPT !.at = "fired"] OBVIOUS
<1>3. r \in Retries BY <1>2, RetryAt DEF TypeOK
<1>4. retry' = [retry EXCEPT ![d] = r] BY <1>1, <1>2, Zenon
<1>5. retry' \in [Daemons -> Retries] BY <1>3, <1>4 DEF TypeOK
<1> QED BY <1>1, <1>5 DEF TypeOK, Finite

\* A worker is interrupted, for whichever reason.
LEMMA Eff_InterruptWorker ==
    ASSUME TypeOK, Finite, NEW d \in Daemons, InterruptWorker(d),
           ops' \in 0..MaxOps
    PROVE  /\ TypeOK' /\ Finite' /\ Only(d)
           /\ work'[d].pc = work[d].pc /\ work'[d].run = work[d].run
           /\ work'[d].stop # "no"
           /\ UNCHANGED <<card, run, lock, up, pick, entry, tomb, fins, reap>>
<1>1. /\ work' = [work EXCEPT ![d] = Interrupted(work[d])]
      /\ UNCHANGED <<card, run, lock, up, pick, entry, retry, tomb, fins, reap,
                     minted>>
  BY DEF InterruptWorker
<1>2. PICK w : w = Interrupted(work[d]) OBVIOUS
<1>3. w \in Workers /\ w.pc = work[d].pc /\ w.run = work[d].run /\ w.stop # "no"
  BY <1>2, Interrupts DEF TypeOK
<1>4. work' \in [Daemons -> Workers] /\ work'[d] = w
      /\ \A e \in Daemons : e # d => work'[e] = work[e]
  BY <1>1, <1>2, <1>3, WorkerTyped
<1>5. TypeOK' BY <1>1, <1>4 DEF TypeOK
<1> QED BY <1>1, <1>3, <1>4, <1>5 DEF Only, Finite

\* An operator cancels the run of a dispatch.
LEMMA Eff_CancelRun ==
    ASSUME TypeOK, Finite, NEW d \in Daemons, CancelRun(d)
    PROVE  /\ TypeOK' /\ Finite' /\ Only(d)
           /\ work'[d].pc = work[d].pc /\ work'[d].run = work[d].run
           /\ work'[d].stop # "no" /\ entry[d].on
           /\ UNCHANGED <<card, run, lock, up, pick, entry, tomb, fins, reap>>
<1>1. /\ work' = [work EXCEPT ![d].stop = "operator"] /\ entry[d].on
      /\ UNCHANGED <<card, run, lock, up, pick, entry, retry, tomb, fins, reap,
                     minted>>
  BY DEF CancelRun
<1>2. PICK w : w = [work[d] EXCEPT !.stop = "operator"] OBVIOUS
<1>3. w \in Workers /\ w.pc = work[d].pc /\ w.run = work[d].run /\ w.stop = "operator"
  BY <1>2, WorkStop DEF TypeOK
<1>4. work' = [work EXCEPT ![d] = w] BY <1>1, <1>2, Zenon
<1>5. work' \in [Daemons -> Workers] /\ work'[d] = w
      /\ \A e \in Daemons : e # d => work'[e] = work[e]
  BY <1>3, <1>4, WorkerTyped
<1>6. ops' \in 0..MaxOps BY Faults DEF CancelRun
<1>7. /\ entry[d].on
      /\ UNCHANGED <<card, run, lock, up, pick, entry, retry, tomb, fins, reap,
                     minted>>
  BY <1>1
<1>8. TypeOK' BY <1>5, <1>6, <1>7 DEF TypeOK
<1> QED BY <1>3, <1>5, <1>7, <1>8 DEF Only, Finite

\* Ending a dispatch leaves the claim and stamps, at most, its own run.
LEMMA Finishes ==
    ASSUME TypeOK, Finite, NEW d \in Daemons, NEW x \in Entries,
           NEW out \in Outcomes \cup {"reaped"}, finishRun(d, x, out)
    PROVE  /\ card' \in Cards /\ KeepsClaim /\ card'.last \in {card.last, x.run}
           /\ entry' = [entry EXCEPT ![d] = NoEntry]
           /\ retry' \in [Daemons -> Retries]
           /\ fins' \in [Daemons -> SUBSET Plans] /\ Finite'
           /\ \A e \in Daemons : e # d => fins'[e] = fins[e]
           /\ \A f \in fins'[d] : f \in fins[d] \/ f.tok = x.tok
<1> DEFINE stamped == StampOwned(card, x.run, x.tok)
           r == CASE out = "ok" -> NoRetry
                  [] out \in {"failed", "deterministic"} -> scheduleRetry(d, x)
                  [] OTHER -> retry[d]
           more == IF out \in {"paused", "cancelled"} THEN {} ELSE {Plan(x, out)}
<1>1. /\ entry' = [entry EXCEPT ![d] = NoEntry]
      /\ card' = IF out = "paused"
                 THEN MoveOwned(stamped, "awaiting_input", x.tok) ELSE stamped
      /\ retry' = [retry EXCEPT ![d] = r]
      /\ fins' = [fins EXCEPT ![d] = fins[d] \cup more]
  BY Zenon DEF finishRun
<1>2. /\ card \in Cards /\ x.run \in Runs /\ x.run \in RunPointers
      /\ x.tok \in Tokens /\ x.from \in Origins /\ x.try \in Nat
      /\ retry[d] \in Retries /\ retry[d].try \in Nat
      /\ fins[d] \in SUBSET Plans /\ IsFiniteSet(fins[d])
  BY DEF TypeOK, Entries, RunPointers, Retries, Finite
<1>3. /\ stamped \in Cards /\ stamped.claim = card.claim
      /\ stamped.fresh = card.fresh /\ stamped.last \in {card.last, x.run}
  <2>1. stamped = card \/ stamped = [card EXCEPT !.last = x.run]
    BY Zenon DEF StampOwned
  <2> HIDE DEF stamped
  <2>2. CASE stamped = card BY <1>2, <2>2
  <2>3. CASE stamped = [card EXCEPT !.last = x.run]
    <3>1. /\ stamped \in Cards /\ stamped.claim = card.claim
          /\ stamped.fresh = card.fresh /\ stamped.last = x.run
      BY <1>2, <2>3, CardLast
    <3> QED BY <3>1
  <2> QED BY <2>1, <2>2, <2>3
<1>4. card' \in Cards /\ KeepsClaim /\ card'.last \in {card.last, x.run}
  <2> HIDE DEF stamped
  <2>1. "awaiting_input" \in Columns BY DEF Columns
  <2>2. card' = stamped \/ card' = MoveOwned(stamped, "awaiting_input", x.tok)
    BY <1>1, Zenon
  <2>3. CASE card' = stamped BY <1>3, <2>3 DEF KeepsClaim
  <2>4. CASE card' = MoveOwned(stamped, "awaiting_input", x.tok)
    BY <1>3, <2>1, <2>4, Moves DEF KeepsClaim
  <2> QED BY <2>2, <2>3, <2>4
<1>5. r \in Retries
  <2>1. scheduleRetry(d, x) \in Retries
    BY <1>2 DEF scheduleRetry, Larger, Retries, RunPointers
  <2>2. r \in {NoRetry, scheduleRetry(d, x), retry[d]}
    BY Zenon
  <2> HIDE DEF r
  <2> QED BY <1>2, <2>1, <2>2, Constants
<1>6. /\ more \subseteq Plans /\ IsFiniteSet(more)
      /\ \A f \in more : f.tok = x.tok
  <2>1. Plan(x, out) \in Plans /\ Plan(x, out).tok = x.tok
    BY <1>2 DEF Plan, Plans
  <2>2. IsFiniteSet({}) /\ IsFiniteSet({Plan(x, out)})
    BY FS_EmptySet, FS_Singleton
  <2> QED BY <2>1, <2>2
<1>7. retry' \in [Daemons -> Retries]
  <2> HIDE DEF r
  <2> QED BY <1>1, <1>5 DEF TypeOK
<1> HIDE DEF stamped, r, more
<1>8. IsFiniteSet(fins[d] \cup more) BY <1>2, <1>6, FS_Union
<1>9. fins' = [fins EXCEPT ![d] = fins[d] \cup more] BY <1>1
<1>10. /\ fins' \in [Daemons -> SUBSET Plans]
       /\ fins'[d] = fins[d] \cup more
       /\ \A e \in Daemons : e # d => fins'[e] = fins[e]
  BY <1>2, <1>6, <1>9 DEF TypeOK
<1>11. Finite' BY <1>8, <1>10 DEF Finite
<1> QED BY <1>1, <1>4, <1>6, <1>7, <1>10, <1>11

\* The actor hears of the set-up: the dispatch goes on, or is finished.
LEMMA Eff_SetupDone ==
    ASSUME TypeOK, Finite, NEW d \in Daemons, SetupDone(d)
    PROVE  /\ TypeOK' /\ Finite' /\ Only(d)
           /\ Actor(d) /\ KeepsClaim
           /\ UNCHANGED <<run, lock, up, pick, tomb, reap>>
           /\ \/ /\ work[d].pc = "setup_failed" /\ work'[d].pc = "none"
                 /\ ~entry'[d].on /\ card'.last \in {card.last, entry[d].run}
                 /\ \A f \in fins'[d] : f \in fins[d] \/ f.tok = entry[d].tok
              \/ /\ entry'[d].on = entry[d].on /\ entry'[d].tok = entry[d].tok
                 /\ entry'[d].run = entry[d].run
                 /\ UNCHANGED <<card, work, fins>>
<1>1. /\ Actor(d)
      /\ UNCHANGED <<run, lock, up, pick, tomb, reap, minted, ops>>
  BY DEF SetupDone, hist
<1>2. PICK x : x = [entry[d] EXCEPT !.from = work[d].from, !.pending = FALSE]
  OBVIOUS
<1>3. \/ /\ work[d].pc = "setup_failed" /\ finishRun(d, x, "failed")
         /\ work' = [work EXCEPT ![d] = NoWork]
      \/ /\ entry' = [entry EXCEPT ![d] = x]
         /\ UNCHANGED <<card, retry, work, fins>>
  BY <1>2, Zenon DEF SetupDone
<1>4. /\ x \in Entries /\ x.on = entry[d].on /\ x.tok = entry[d].tok
      /\ x.run = entry[d].run
  <2>1. entry[d] \in Entries /\ work[d].from \in Origins
    BY DEF TypeOK, Workers
  <2> QED BY <1>2, <2>1 DEF Entries
<1>5. CASE /\ work[d].pc = "setup_failed" /\ finishRun(d, x, "failed")
           /\ work' = [work EXCEPT ![d] = NoWork]
  <2>1. /\ card' \in Cards /\ KeepsClaim /\ card'.last \in {card.last, x.run}
        /\ entry' = [entry EXCEPT ![d] = NoEntry]
        /\ retry' \in [Daemons -> Retries]
        /\ fins' \in [Daemons -> SUBSET Plans] /\ Finite'
        /\ \A e \in Daemons : e # d => fins'[e] = fins[e]
        /\ \A f \in fins'[d] : f \in fins[d] \/ f.tok = x.tok
    <3>1. "failed" \in Outcomes \cup {"reaped"} BY DEF Outcomes
    <3> QED BY <1>4, <1>5, <3>1, Finishes
  <2>2. work' \in [Daemons -> Workers] /\ work'[d] = NoWork
        /\ \A e \in Daemons : e # d => work'[e] = work[e]
    BY <1>5, Constants, WorkerTyped
  <2>3. entry' \in [Daemons -> Entries] /\ entry'[d] = NoEntry
        /\ \A e \in Daemons : e # d => entry'[e] = entry[e]
    BY <2>1, Constants DEF TypeOK
  <2>4. TypeOK' BY <1>1, <2>1, <2>2, <2>3 DEF TypeOK
  <2> QED BY <1>1, <1>4, <1>5, <2>1, <2>2, <2>3, <2>4, Constants DEF Only
<1>6. CASE entry' = [entry EXCEPT ![d] = x] /\ UNCHANGED <<card, retry, work, fins>>
  <2>1. entry' \in [Daemons -> Entries] /\ entry'[d] = x
        /\ \A e \in Daemons : e # d => entry'[e] = entry[e]
    BY <1>4, <1>6 DEF TypeOK
  <2>2. TypeOK' BY <1>1, <1>6, <2>1 DEF TypeOK
  <2> QED BY <1>1, <1>4, <1>6, <2>1, <2>2 DEF Only, Finite, KeepsClaim
<1> QED BY <1>3, <1>5, <1>6

\* The actor hears of the return: the dispatch is finished.
LEMMA Eff_RunFinished ==
    ASSUME TypeOK, Finite, NEW d \in Daemons, RunFinished(d)
    PROVE  /\ TypeOK' /\ Finite' /\ Only(d)
           /\ Actor(d) /\ KeepsClaim
           /\ work[d].pc = "returned" /\ work'[d].pc = "none" /\ ~tomb'[d]
           /\ UNCHANGED <<run, lock, up, pick, reap>>
           /\ ~entry'[d].on
           /\ \/ /\ entry[d].on /\ card'.last \in {card.last, entry[d].run}
                 /\ \A f \in fins'[d] : f \in fins[d] \/ f.tok = entry[d].tok
              \/ ~entry[d].on /\ UNCHANGED <<card, fins>>
<1>1. /\ Actor(d) /\ work[d].pc = "returned"
      /\ \/ entry[d].on /\ finishRun(d, entry[d], work[d].out)
         \/ ~entry[d].on /\ UNCHANGED <<card, entry, retry, fins>>
      /\ tomb' = [tomb EXCEPT ![d] = FALSE]
      /\ work' = [work EXCEPT ![d] = NoWork]
      /\ UNCHANGED <<run, lock, up, pick, reap, minted, ops>>
  BY DEF RunFinished, hist
<1>2. work' \in [Daemons -> Workers] /\ work'[d] = NoWork
      /\ \A e \in Daemons : e # d => work'[e] = work[e]
  BY <1>1, Constants, WorkerTyped
<1>3. tomb' \in [Daemons -> BOOLEAN] /\ ~tomb'[d]
      /\ \A e \in Daemons : e # d => tomb'[e] = tomb[e]
  BY <1>1 DEF TypeOK
<1>4. CASE entry[d].on /\ finishRun(d, entry[d], work[d].out)
  <2>1. /\ card' \in Cards /\ KeepsClaim
        /\ card'.last \in {card.last, entry[d].run}
        /\ entry' = [entry EXCEPT ![d] = NoEntry]
        /\ retry' \in [Daemons -> Retries]
        /\ fins' \in [Daemons -> SUBSET Plans] /\ Finite'
        /\ \A e \in Daemons : e # d => fins'[e] = fins[e]
        /\ \A f \in fins'[d] : f \in fins[d] \/ f.tok = entry[d].tok
    <3>1. work[d].out \in Outcomes \cup {"reaped"} /\ entry[d] \in Entries
      BY DEF TypeOK, Workers
    <3> QED BY <1>4, <3>1, Finishes
  <2>2. entry' \in [Daemons -> Entries] /\ entry'[d] = NoEntry
        /\ \A e \in Daemons : e # d => entry'[e] = entry[e]
    BY <2>1, Constants DEF TypeOK
  <2>3. TypeOK' BY <1>1, <1>2, <1>3, <2>1, <2>2 DEF TypeOK
  <2> QED BY <1>1, <1>2, <1>3, <1>4, <2>1, <2>2, <2>3, Constants DEF Only
<1>5. CASE ~entry[d].on /\ UNCHANGED <<card, entry, retry, fins>>
  <2>1. TypeOK' BY <1>1, <1>2, <1>3, <1>5 DEF TypeOK
  <2> QED BY <1>1, <1>2, <1>3, <1>5, <2>1, Constants
          DEF Only, Finite, KeepsClaim
<1> QED BY <1>1, <1>4, <1>5

\* A dispatch is finished under a worker that does not return.
LEMMA Eff_ForceReap ==
    ASSUME TypeOK, Finite, NEW d \in Daemons, ForceReap(d)
    PROVE  /\ TypeOK' /\ Finite' /\ Only(d)
           /\ Actor(d) /\ KeepsClaim /\ work[d].stop # "no"
           /\ tomb'[d] /\ entry[d].on /\ ~entry'[d].on
           /\ UNCHANGED <<run, lock, up, pick, work, reap>>
           /\ card'.last \in {card.last, entry[d].run}
           /\ \A f \in fins'[d] : f \in fins[d] \/ f.tok = entry[d].tok
<1>1. /\ Actor(d) /\ entry[d].on /\ work[d].stop # "no"
      /\ tomb' = [tomb EXCEPT ![d] = TRUE] /\ finishRun(d, entry[d], "reaped")
      /\ UNCHANGED <<run, lock, up, pick, work, reap, minted, ops>>
  BY DEF ForceReap, Tracked, hist
<1>2. tomb' \in [Daemons -> BOOLEAN] /\ tomb'[d]
      /\ \A e \in Daemons : e # d => tomb'[e] = tomb[e]
  BY <1>1 DEF TypeOK
<1>3. /\ card' \in Cards /\ KeepsClaim
      /\ card'.last \in {card.last, entry[d].run}
      /\ entry' = [entry EXCEPT ![d] = NoEntry]
      /\ retry' \in [Daemons -> Retries]
      /\ fins' \in [Daemons -> SUBSET Plans] /\ Finite'
      /\ \A e \in Daemons : e # d => fins'[e] = fins[e]
      /\ \A f \in fins'[d] : f \in fins[d] \/ f.tok = entry[d].tok
  <2>1. "reaped" \in Outcomes \cup {"reaped"} /\ entry[d] \in Entries
    BY DEF TypeOK
  <2> QED BY <1>1, <2>1, Finishes
<1>4. entry' \in [Daemons -> Entries] /\ entry'[d] = NoEntry
      /\ \A e \in Daemons : e # d => entry'[e] = entry[e]
  BY <1>3, Constants DEF TypeOK
<1>5. TypeOK' BY <1>1, <1>2, <1>3, <1>4 DEF TypeOK
<1> QED BY <1>1, <1>2, <1>3, <1>4, <1>5, Constants DEF Only

\* A finish worker moves the card.
LEMMA Eff_FinishMove ==
    ASSUME TypeOK, Finite, NEW d \in Daemons, NEW f \in fins[d], FinishMove(d, f)
    PROVE  /\ TypeOK' /\ Finite' /\ Only(d)
           /\ Alive(d) /\ KeepsClaim /\ card'.last = card.last
           /\ \A g \in fins'[d] : \E h \in fins[d] : g.tok = h.tok
           /\ UNCHANGED <<run, lock, up, pick, entry, tomb, work, reap>>
<1>1. /\ Alive(d)
      /\ fins' = [fins EXCEPT ![d] =
                    (fins[d] \ {f}) \cup {[f EXCEPT !.step = "release"]}]
      /\ UNCHANGED <<run, lock, up, pick, entry, tomb, work, reap, minted, ops>>
  BY DEF FinishMove, hist
<1>2. /\ f \in Plans /\ card \in Cards /\ fins[d] \in SUBSET Plans
      /\ IsFiniteSet(fins[d]) /\ f.from \in {None} \cup Columns
  BY DEF TypeOK, Finite, Plans, Origins
<1>3. card' \in Cards /\ KeepsClaim /\ card'.last = card.last
  <2>1. {"review", "blocked"} \subseteq Columns BY DEF Columns
  <2>2. \/ card' = card
        \/ \E to \in Columns : \/ card' = MoveOwned(card, to, f.tok)
                               \/ card' = MoveOwnedFrom(card, "in_progress", to, f.tok)
    <3> DEFINE moved == MoveOwnedFrom(card, "in_progress", "review", f.tok)
               blocked == MoveOwned(card, "blocked", f.tok)
    <3>1. card' \in {moved, blocked, revertTransition(f)}
      BY Zenon DEF FinishMove
    <3>2. \/ revertTransition(f) = card
          \/ /\ f.from \in Columns
             /\ revertTransition(f) =
                  MoveOwnedFrom(card, "in_progress", f.from, f.tok)
      BY <1>2, Zenon DEF revertTransition
    <3> QED BY <2>1, <3>1, <3>2, Zenon
  <2>3. CASE card' = card BY <1>2, <2>3 DEF KeepsClaim
  <2>4. ASSUME NEW to \in Columns,
               \/ card' = MoveOwned(card, to, f.tok)
               \/ card' = MoveOwnedFrom(card, "in_progress", to, f.tok)
        PROVE  card' \in Cards /\ KeepsClaim /\ card'.last = card.last
    BY <1>2, <2>4, Moves DEF KeepsClaim
  <2> QED BY <2>2, <2>3, <2>4
<1>4. retry' \in [Daemons -> Retries]
  <2>1. \E r : retry' = [retry EXCEPT ![d] = r] /\ r \in {NoRetry, retry[d]}
    BY DEF FinishMove
  <2> QED BY <2>1, Constants DEF TypeOK
<1>5. PICK g : g = [f EXCEPT !.step = "release"] OBVIOUS
<1>6. g \in Plans /\ g.tok = f.tok BY <1>2, <1>5, PlanStep
<1>7. PICK s : s = (fins[d] \ {f}) \cup {g} OBVIOUS
<1>8. s \in SUBSET Plans /\ IsFiniteSet(s)
      /\ \A x \in s : \E h \in fins[d] : x.tok = h.tok
  <2>1. IsFiniteSet(fins[d] \ {f}) BY <1>2, FS_RemoveElement
  <2>2. IsFiniteSet(s) BY <1>7, <2>1, FS_AddElement
  <2> QED BY <1>2, <1>6, <1>7, <2>2
<1>9. fins' = [fins EXCEPT ![d] = s] BY <1>1, <1>5, <1>7, Zenon
<1>10. fins' \in [Daemons -> SUBSET Plans] /\ fins'[d] = s
       /\ \A e \in Daemons : e # d => fins'[e] = fins[e]
  BY <1>8, <1>9 DEF TypeOK
<1>11. /\ Alive(d)
       /\ UNCHANGED <<run, lock, up, pick, entry, tomb, work, reap, minted, ops>>
  BY <1>1
<1>12. TypeOK' BY <1>3, <1>4, <1>10, <1>11 DEF TypeOK
<1>13. Finite' BY <1>8, <1>10 DEF Finite
<1> QED BY <1>3, <1>8, <1>10, <1>11, <1>12, <1>13 DEF Only

\* A fenced release empties the claim of that token or does nothing.
LEMMA Owner ==
    ASSUME TypeOK, NEW tok, card' = ReleaseOwned(card, tok)
    PROVE  /\ card' \in Cards /\ card'.last = card.last
           /\ \/ KeepsClaim
              \/ card.claim = tok /\ card'.claim = NoClaim
<1>1. card \in Cards BY DEF TypeOK
<1>2. CASE card.claim = tok
  <2>1. card' = Freed(card) BY <1>2 DEF ReleaseOwned
  <2> QED BY <1>1, <1>2, <2>1, FreedCard
<1>3. CASE card.claim # tok
  <2>1. card' = card BY <1>3 DEF ReleaseOwned
  <2> QED BY <1>1, <2>1 DEF KeepsClaim
<1> QED BY <1>2, <1>3

\* A finish worker gives its claim back and is gone.
LEMMA Eff_FinishRelease ==
    ASSUME TypeOK, Finite, NEW d \in Daemons, NEW f \in fins[d],
           FinishRelease(d, f)
    PROVE  /\ TypeOK' /\ Finite' /\ Only(d)
           /\ Alive(d) /\ card'.last = card.last
           /\ \/ KeepsClaim
              \/ card.claim = f.tok /\ card'.claim = NoClaim
           /\ fins'[d] \subseteq fins[d]
           /\ UNCHANGED <<run, lock, up, pick, entry, tomb, work, reap>>
<1>1. /\ Alive(d) /\ card' = ReleaseOwned(card, f.tok)
      /\ fins' = [fins EXCEPT ![d] = fins[d] \ {f}]
      /\ UNCHANGED <<run, lock, up, pick, entry, retry, tomb, work, reap, minted,
                     ops>>
  BY DEF FinishRelease, hist
<1>2. /\ card' \in Cards /\ card'.last = card.last
      /\ \/ KeepsClaim
         \/ card.claim = f.tok /\ card'.claim = NoClaim
  BY <1>1, Owner
<1>3. fins' \in [Daemons -> SUBSET Plans] /\ fins'[d] = fins[d] \ {f}
      /\ \A e \in Daemons : e # d => fins'[e] = fins[e]
  BY <1>1 DEF TypeOK
<1>4. Finite' BY <1>3, FS_RemoveElement DEF Finite
<1>5. TypeOK' BY <1>1, <1>2, <1>3 DEF TypeOK
<1> QED BY <1>1, <1>2, <1>3, <1>4, <1>5 DEF Only

\* The watchdog reads the run of an expired claim.
LEMMA Eff_ReapLoad ==
    ASSUME TypeOK, Finite, NEW d \in Daemons, ReapLoad(d)
    PROVE  /\ TypeOK' /\ Finite' /\ Only(d)
           /\ \A j \in Runs : lock[j] # None => run'[j] = run[j]
           /\ reap'[d].at = "take" \/ reap'[d] = reap[d]
           /\ UNCHANGED <<card, lock, up, pick, entry, tomb, work, fins>>
<1>1. /\ run' \in promoteIfOrphaned(card.last)
      /\ UNCHANGED <<card, lock, up, pick, entry, retry, tomb, work, fins,
                     minted, ops>>
  BY DEF ReapLoad, hist
<1>2. /\ card.last \in {None} \cup Runs /\ card.last \in RunPointers
      /\ card.claim \in Tokens
  BY DEF TypeOK, Cards, RunPointers
<1>3. /\ run' \in [Runs -> RunStatuses]
      /\ \A j \in Runs : lock[j] # None => run'[j] = run[j]
  BY <1>1, <1>2, Promotion
<1>4. PICK s : s = IF card.last = None THEN "absent" ELSE run'[card.last]
  OBVIOUS
<1>5. s \in RunStatuses BY <1>2, <1>3, <1>4 DEF RunStatuses
<1>6. PICK r : r = [at |-> "take", prev |-> card.claim, seen |-> s,
                    last |-> card.last, to |-> None]
  OBVIOUS
<1>7. r \in Passes /\ r.at = "take" BY <1>2, <1>5, <1>6 DEF Passes
<1>8. reap' = [reap EXCEPT ![d] = r] \/ reap' = reap
  BY <1>4, <1>6, Zenon DEF ReapLoad
<1>9. /\ reap' \in [Daemons -> Passes]
      /\ reap'[d].at = "take" \/ reap'[d] = reap[d]
      /\ \A e \in Daemons : e # d => reap'[e] = reap[e]
  BY <1>7, <1>8 DEF TypeOK
<1>10. TypeOK' BY <1>1, <1>3, <1>9 DEF TypeOK
<1> QED BY <1>1, <1>3, <1>9, <1>10 DEF Only, Finite

\* The watchdog takes an expired claim over under a recovery marker.
LEMMA Eff_ReapTake ==
    ASSUME TypeOK, Finite, NEW d \in Daemons, ReapTake(d)
    PROVE  /\ TypeOK' /\ Finite' /\ Only(d)
           /\ card'.last = card.last
           /\ \/ /\ ~card.fresh /\ card'.fresh = TRUE /\ card'.claim.rec
                 /\ card'.claim.ep \notin Remembered
                 /\ reap'[d].at \in {"file", "release"} =>
                       reap'[d].prev = card'.claim
                 /\ reap'[d].at = "file" => reap'[d].to \in Columns
              \/ KeepsClaim /\ reap'[d].at = "none"
           /\ UNCHANGED <<run, lock, up, pick, entry, tomb, work, fins>>
<1> DEFINE tok == NewToken(d, TRUE)
           to == DecideStuckCard(reap[d].seen, reap[d].last, card.col)
           next == CASE to = "keep" -> IF reap[d].prev.rec THEN "release"
                                       ELSE "none"
                     [] to \in {"review", "blocked"} /\ ShouldFileStuckCard(to) ->
                           "file"
                     [] OTHER -> "release"
           r == [NoReap EXCEPT !.at = next, !.prev = tok, !.to = to]
<1>1. /\ UNCHANGED <<run, lock, up, pick, entry, retry, tomb, work, fins,
                     minted, ops>>
      /\ \/ /\ card.claim = reap[d].prev /\ ~card.fresh
            /\ card' = [card EXCEPT !.claim = tok, !.fresh = TRUE]
            /\ reap' = [reap EXCEPT ![d] = IF next = "none" THEN NoReap ELSE r]
         \/ reap' = [reap EXCEPT ![d] = NoReap] /\ UNCHANGED card
  BY Zenon DEF ReapTake, ReclaimExpired, hist
<1>2. CASE reap' = [reap EXCEPT ![d] = NoReap] /\ UNCHANGED card
  <2>1. /\ reap' \in [Daemons -> Passes] /\ reap'[d] = NoReap
        /\ \A e \in Daemons : e # d => reap'[e] = reap[e]
    BY <1>2, Constants DEF TypeOK
  <2>2. TypeOK' BY <1>1, <1>2, <2>1 DEF TypeOK
  <2> QED BY <1>1, <1>2, <2>1, <2>2, Constants DEF Only, Finite, KeepsClaim
<1>3. CASE /\ card.claim = reap[d].prev /\ ~card.fresh
           /\ card' = [card EXCEPT !.claim = tok, !.fresh = TRUE]
           /\ reap' = [reap EXCEPT ![d] = IF next = "none" THEN NoReap ELSE r]
  <2>1. tok \in Tokens /\ tok.rec = TRUE /\ tok.ep \notin Remembered
    BY NewTokenTyped
  <2>2. card \in Cards BY DEF TypeOK
  <2> HIDE DEF tok
  <2>3. /\ card' \in Cards /\ card'.claim = tok /\ card'.fresh = TRUE
        /\ card'.last = card.last
    BY <1>3, <2>1, <2>2 DEF Cards
  <2>4. to \in {"release", "keep"} \cup Columns
    BY Zenon DEF DecideStuckCard, Columns
  <2> HIDE DEF to
  <2>5. next \in {"none", "release"} \/ (next = "file" /\ to \in {"review", "blocked"})
    BY Zenon
  <2>6. PICK n : n = next OBVIOUS
  <2> HIDE DEF next
  <2>7. PICK x : x = [NoReap EXCEPT !.at = n, !.prev = tok, !.to = to] OBVIOUS
  <2>8. n # "none" => x \in Passes /\ x.at = n /\ x.prev = tok /\ x.to = to
    <3>1. NoReap \in Passes BY Constants
    <3>2. ASSUME n # "none"
          PROVE  n \in {"none", "take", "file", "release"}
      BY <2>5, <2>6
    <3>3. to \in {None, "release", "keep"} \cup Columns BY <2>4
    <3> QED BY <2>1, <2>7, <3>1, <3>2, <3>3 DEF Passes
  <2>9. PICK y : y = IF n = "none" THEN NoReap ELSE x OBVIOUS
  <2>10. reap' = [reap EXCEPT ![d] = y] BY <1>3, <2>6, <2>7, <2>9, Zenon
  <2>11. /\ y \in Passes /\ (y.at = "none" \/ y.prev = tok)
         /\ y.at = "file" => y.to \in Columns
    <3>1. n = "file" => to \in Columns BY <2>5, <2>6 DEF Columns
    <3> QED BY <2>8, <2>9, <3>1, Constants
  <2>12. /\ reap' \in [Daemons -> Passes] /\ reap'[d] = y
         /\ \A e \in Daemons : e # d => reap'[e] = reap[e]
    BY <2>10, <2>11 DEF TypeOK
  <2>13. UNCHANGED <<run, lock, up, pick, entry, retry, tomb, work, fins,
                     minted, ops>> /\ ~card.fresh
    BY <1>1, <1>3
  <2>14. TypeOK' BY <2>3, <2>12, <2>13 DEF TypeOK
  <2> QED BY <2>1, <2>3, <2>11, <2>12, <2>13, <2>14 DEF Only, Finite
<1> QED BY <1>1, <1>2, <1>3

\* The watchdog files the card.
LEMMA Eff_ReapFile ==
    ASSUME TypeOK, Finite, NEW d \in Daemons, ReapFile(d), reap[d].to \in Columns
    PROVE  /\ TypeOK' /\ Finite' /\ Only(d)
           /\ reap[d].at = "file" /\ KeepsClaim /\ card'.last = card.last
           /\ \/ reap'[d].at = "none"
              \/ reap'[d].at = "release" /\ reap'[d].prev = reap[d].prev
           /\ UNCHANGED <<run, lock, up, pick, entry, tomb, work, fins>>
<1> DEFINE r == [reap[d] EXCEPT !.at = "release"]
<1>1. /\ reap[d].at = "file" /\ card' = MoveOwned(card, reap[d].to, reap[d].prev)
      /\ reap' = [reap EXCEPT ![d] = r] \/ reap' = [reap EXCEPT ![d] = NoReap]
      /\ UNCHANGED <<run, lock, up, pick, entry, retry, tomb, work, fins,
                     minted, ops>>
  BY Zenon DEF ReapFile, hist
<1>2. card' \in Cards /\ KeepsClaim /\ card'.last = card.last
  <2>1. card \in Cards BY DEF TypeOK
  <2>2. card' = MoveOwned(card, reap[d].to, reap[d].prev) BY <1>1
  <2> QED BY <2>1, <2>2, Moves DEF KeepsClaim
<1>3. r \in Passes /\ r.at = "release" /\ r.prev = reap[d].prev
  BY PassAt DEF TypeOK
<1> HIDE DEF r
<1>4. /\ reap' \in [Daemons -> Passes]
      /\ \/ reap'[d].at = "none"
         \/ reap'[d].at = "release" /\ reap'[d].prev = reap[d].prev
      /\ \A e \in Daemons : e # d => reap'[e] = reap[e]
  BY <1>1, <1>3, Constants DEF TypeOK
<1>5. TypeOK' BY <1>1, <1>2, <1>4 DEF TypeOK
<1> QED BY <1>1, <1>2, <1>4, <1>5 DEF Only, Finite

\* The watchdog gives its own claim back.
LEMMA Eff_ReapRelease ==
    ASSUME TypeOK, Finite, NEW d \in Daemons, ReapRelease(d)
    PROVE  /\ TypeOK' /\ Finite' /\ Only(d)
           /\ reap[d].at = "release" /\ reap'[d].at = "none"
           /\ card'.last = card.last
           /\ \/ KeepsClaim
              \/ card.claim = reap[d].prev /\ card'.claim = NoClaim
           /\ UNCHANGED <<run, lock, up, pick, entry, tomb, work, fins>>
<1>1. /\ reap[d].at = "release" /\ card' = ReleaseOwned(card, reap[d].prev)
      /\ reap' = [reap EXCEPT ![d] = NoReap]
      /\ UNCHANGED <<run, lock, up, pick, entry, retry, tomb, work, fins,
                     minted, ops>>
  BY DEF ReapRelease, hist
<1>2. /\ card' \in Cards /\ card'.last = card.last
      /\ \/ KeepsClaim
         \/ card.claim = reap[d].prev /\ card'.claim = NoClaim
  BY <1>1, Owner
<1>3. /\ reap' \in [Daemons -> Passes] /\ reap'[d] = NoReap
      /\ \A e \in Daemons : e # d => reap'[e] = reap[e]
  BY <1>1, Constants DEF TypeOK
<1>4. TypeOK' BY <1>1, <1>2, <1>3 DEF TypeOK
<1> QED BY <1>1, <1>2, <1>3, <1>4, Constants DEF Only, Finite

\* A card whose run ended at a console is filed, and released by marker.
LEMMA Eff_reconcileParked ==
    ASSUME TypeOK, Finite, NEW d \in Daemons, reconcileParked(d)
    PROVE  /\ TypeOK' /\ Finite'
           /\ Actor(d) /\ ~entry[d].on /\ card'.last = card.last
           /\ \/ KeepsClaim
              \/ card.claim.by = d /\ ~card.claim.rec /\ card'.claim = NoClaim
           /\ UNCHANGED <<run, lock, up, pick, entry, tomb, work, fins, reap>>
<1>1. /\ Actor(d) /\ ~entry[d].on
      /\ UNCHANGED <<run, lock, up, pick, entry, retry, tomb, work, fins, reap,
                     minted, ops>>
  BY DEF reconcileParked, local, hist
<1>2. PICK to \in Columns : card' = Release([card EXCEPT !.col = to], d)
  <2>1. {"review", "blocked"} \subseteq Columns BY DEF Columns
  <2> QED BY <2>1, Zenon DEF reconcileParked
<1>3. PICK c : c = [card EXCEPT !.col = to] OBVIOUS
<1>4. c \in Cards /\ c.claim = card.claim /\ c.fresh = card.fresh /\ c.last = card.last
  BY <1>3, CardCol DEF TypeOK
<1>5. /\ card' \in Cards /\ card'.last = card.last
      /\ \/ KeepsClaim
         \/ card.claim.by = d /\ ~card.claim.rec /\ card'.claim = NoClaim
  <2>1. card' = Release(c, d) BY <1>2, <1>3
  <2> QED BY <1>4, <2>1, Releases
<1> QED BY <1>1, <1>5 DEF TypeOK, Finite

\* A free card whose run waits is parked under a new claim.
LEMMA Eff_reconcileStrandedPaused ==
    ASSUME TypeOK, Finite, NEW d \in Daemons, reconcileStrandedPaused(d)
    PROVE  /\ TypeOK' /\ Finite'
           /\ card'.last = card.last /\ card.claim = NoClaim
           /\ card'.fresh = TRUE /\ card'.claim.ep \notin Remembered
           /\ card'.claim # NoClaim
           /\ UNCHANGED <<run, lock, up, pick, entry, tomb, work, fins, reap>>
<1> DEFINE t == ClaimToken(d)
<1>1. /\ card.claim = NoClaim
      /\ card' = [card EXCEPT !.claim = t, !.fresh = TRUE, !.col = "awaiting_input"]
      /\ retry' = [retry EXCEPT ![d] = NoRetry]
      /\ UNCHANGED <<run, lock, up, pick, entry, tomb, work, fins, reap, minted,
                     ops>>
  BY DEF reconcileStrandedPaused, hist
<1>2. t \in Tokens /\ t.ep \notin Remembered /\ t.by = d
  <2>1. CanClaim(d) BY <1>1 DEF CanClaim
  <2>2. NewToken(d, FALSE).ep \notin Remembered BY NewTokenTyped
  <2>3. t = NewToken(d, FALSE) BY <1>1 DEF ClaimToken
  <2> QED BY <2>1, <2>2, <2>3, Claims
<1> HIDE DEF t
<1>3. card \in Cards /\ "awaiting_input" \in Columns BY DEF TypeOK, Columns
<1>4. /\ card' \in Cards /\ card'.claim = t /\ card'.fresh = TRUE
      /\ card'.last = card.last
  BY <1>1, <1>2, <1>3 DEF Cards
<1>5. retry' \in [Daemons -> Retries] BY <1>1, Constants DEF TypeOK
<1>6. /\ card.claim = NoClaim
      /\ UNCHANGED <<run, lock, up, pick, entry, tomb, work, fins, reap, minted,
                     ops>>
  BY <1>1
<1>7. t # NoClaim BY <1>2, Constants
<1> QED BY <1>2, <1>4, <1>5, <1>6, <1>7 DEF TypeOK, Finite

\* A drag changes the column only.
LEMMA Eff_Drag ==
    ASSUME TypeOK, Finite, NEW to \in Columns, Drag(to)
    PROVE  /\ TypeOK' /\ Finite' /\ KeepsClaim /\ card'.last = card.last
           /\ UNCHANGED <<run, lock, up, pick, entry, tomb, work, fins, reap>>
<1>1. /\ card' = [card EXCEPT !.col = to]
      /\ UNCHANGED <<run, lock, up, pick, entry, retry, tomb, work, fins, reap,
                     minted>>
  BY DEF Drag, local
<1>2. card' \in Cards /\ KeepsClaim /\ card'.last = card.last
  BY <1>1, CardCol DEF TypeOK, KeepsClaim
<1>3. ops' \in 0..MaxOps BY Faults DEF Drag
<1> QED BY <1>1, <1>2, <1>3 DEF TypeOK, Finite

\* A console takes the lock of a free run.
LEMMA Eff_ConsoleResumes ==
    ASSUME TypeOK, Finite, NEW i \in Runs, ConsoleResumes(i)
    PROVE  /\ TypeOK' /\ Finite'
           /\ lock[i] = None /\ lock' = [lock EXCEPT ![i] = Console]
           /\ run' = [run EXCEPT ![i] = "running"]
           /\ UNCHANGED <<card, up, pick, entry, tomb, work, fins, reap>>
<1>1. /\ lock[i] = None /\ lock' = [lock EXCEPT ![i] = Console]
      /\ run' = [run EXCEPT ![i] = "running"]
      /\ UNCHANGED <<card, up, pick, entry, retry, tomb, work, fins, reap, minted>>
  BY DEF ConsoleResumes, local
<1>2. ops' \in 0..MaxOps BY Faults DEF ConsoleResumes
<1>3. TypeOK' BY <1>1, <1>2 DEF TypeOK, RunStatuses
<1> QED BY <1>1, <1>3 DEF Finite

\* A console drops the lock of its run.
LEMMA Eff_ConsoleReturns ==
    ASSUME TypeOK, Finite, NEW i \in Runs, ConsoleReturns(i)
    PROVE  /\ TypeOK' /\ Finite'
           /\ lock[i] = Console /\ lock' = [lock EXCEPT ![i] = None]
           /\ \A j \in Runs : j # i => run'[j] = run[j]
           /\ UNCHANGED <<card, up, pick, entry, tomb, work, fins, reap>>
<1>1. /\ lock[i] = Console /\ lock' = [lock EXCEPT ![i] = None]
      /\ \E s \in RunStatuses : run' = [run EXCEPT ![i] = s]
      /\ UNCHANGED <<card, up, pick, entry, retry, tomb, work, fins, reap, minted,
                     ops>>
  BY DEF ConsoleReturns, local, hist, RunStatuses
<1>2. TypeOK' BY <1>1 DEF TypeOK
<1> QED BY <1>1, <1>2 DEF Finite, TypeOK

-----------------------------------------------------------------------------
\* The steps one by one.
LEMMA NextCases ==
    ASSUME TypeOK, Next
    PROVE  \/ \E d \in Daemons :
                 \/ Start(d) \/ Crash(d) \/ Shutdown(d) \/ Renew(d)
                 \/ ListCandidates(d) \/ lastRunHoldBeforeClaim(d)
                 \/ ClaimCard(d) \/ resolveRunID(d)
                 \/ runDispatchSetup(d) \/ NotStarted(d) \/ EngineStarts(d)
                 \/ EngineReturns(d) \/ WorkerEnds(d)
                 \/ SetupDone(d) \/ RunFinished(d) \/ RetryDue(d)
                 \/ reconcileParked(d) \/ reconcileStrandedPaused(d)
                 \/ InterruptWorker(d) /\ ops' \in 0..MaxOps
                 \/ ForceReap(d)
                 \/ \E f \in fins[d] : FinishMove(d, f) \/ FinishRelease(d, f)
                 \/ ReapLoad(d) \/ ReapTake(d) \/ ReapFile(d) \/ ReapRelease(d)
                 \/ CancelRun(d)
           \/ LeaseExpires
           \/ \E to \in Columns : Drag(to)
           \/ \E i \in Runs : ConsoleResumes(i) \/ ConsoleReturns(i)
<1>1. ASSUME NEW d \in Daemons, Stopping(d)
      PROVE  (InterruptWorker(d) /\ ops' \in 0..MaxOps) \/ ForceReap(d)
  <2>1. ops \in 0..MaxOps BY DEF TypeOK
  <2>2. CASE RefreshStates(d) BY <2>1, <2>2, Zenon DEF RefreshStates
  <2>3. CASE ClaimLost(d) BY <2>1, <2>3, Zenon DEF ClaimLost
  <2>4. CASE Stalled(d)
    <3>1. InterruptWorker(d) /\ Fault(TRUE) BY <2>4, Zenon DEF Stalled
    <3> QED BY <3>1, Faults
  <2> QED BY <1>1, <2>2, <2>3, <2>4, Zenon DEF Stopping
<1>2. ASSUME NEW to \in {"ready", "review", "blocked"}
      PROVE  to \in Columns
  BY DEF Columns
<1> QED BY <1>1, <1>2, Zenon
        DEF Next, Dispatching, Working, Attending, Finishing, Reaping

\* Every step is well typed.
LEMMA TypesStep ==
    ASSUME TypeOK, Finite, Filing, Next
    PROVE  TypeOK' /\ Finite'
<1>1. ASSUME NEW d \in Daemons, Start(d) PROVE TypeOK' /\ Finite'
  BY <1>1, Eff_Start
<1>2. ASSUME NEW d \in Daemons, Crash(d) PROVE TypeOK' /\ Finite'
  BY <1>2, Eff_Crash
<1>3. ASSUME NEW d \in Daemons, Shutdown(d) PROVE TypeOK' /\ Finite'
  BY <1>3, Eff_Shutdown
<1>4. ASSUME NEW d \in Daemons, Renew(d) PROVE TypeOK' /\ Finite'
  BY <1>4, Eff_Renew
<1>5. ASSUME NEW d \in Daemons, ListCandidates(d) PROVE TypeOK' /\ Finite'
  BY <1>5, Eff_ListCandidates
<1>6. ASSUME NEW d \in Daemons, lastRunHoldBeforeClaim(d)
      PROVE  TypeOK' /\ Finite'
  BY <1>6, Eff_lastRunHoldBeforeClaim
<1>7. ASSUME NEW d \in Daemons, ClaimCard(d) PROVE TypeOK' /\ Finite'
  BY <1>7, Eff_ClaimCard
<1>8. ASSUME NEW d \in Daemons, resolveRunID(d) PROVE TypeOK' /\ Finite'
  BY <1>8, Eff_resolveRunID
<1>9. ASSUME NEW d \in Daemons, runDispatchSetup(d) PROVE TypeOK' /\ Finite'
  BY <1>9, Eff_runDispatchSetup
<1>10. ASSUME NEW d \in Daemons, NotStarted(d) PROVE TypeOK' /\ Finite'
  BY <1>10, Eff_NotStarted
<1>11. ASSUME NEW d \in Daemons, EngineStarts(d) PROVE TypeOK' /\ Finite'
  BY <1>11, Eff_EngineStarts
<1>12. ASSUME NEW d \in Daemons, EngineReturns(d) PROVE TypeOK' /\ Finite'
  BY <1>12, Eff_EngineReturns
<1>13. ASSUME NEW d \in Daemons, WorkerEnds(d) PROVE TypeOK' /\ Finite'
  BY <1>13, Eff_WorkerEnds
<1>14. ASSUME NEW d \in Daemons, SetupDone(d) PROVE TypeOK' /\ Finite'
  BY <1>14, Eff_SetupDone
<1>15. ASSUME NEW d \in Daemons, RunFinished(d) PROVE TypeOK' /\ Finite'
  BY <1>15, Eff_RunFinished
<1>16. ASSUME NEW d \in Daemons, RetryDue(d) PROVE TypeOK' /\ Finite'
  BY <1>16, Eff_RetryDue
<1>17. ASSUME NEW d \in Daemons, reconcileParked(d) PROVE TypeOK' /\ Finite'
  BY <1>17, Eff_reconcileParked
<1>18. ASSUME NEW d \in Daemons, reconcileStrandedPaused(d)
       PROVE  TypeOK' /\ Finite'
  BY <1>18, Eff_reconcileStrandedPaused
<1>19. ASSUME NEW d \in Daemons, InterruptWorker(d), ops' \in 0..MaxOps
       PROVE  TypeOK' /\ Finite'
  BY <1>19, Eff_InterruptWorker
<1>20. ASSUME NEW d \in Daemons, ForceReap(d) PROVE TypeOK' /\ Finite'
  BY <1>20, Eff_ForceReap
<1>21. ASSUME NEW d \in Daemons, NEW f \in fins[d], FinishMove(d, f)
       PROVE  TypeOK' /\ Finite'
  BY <1>21, Eff_FinishMove
<1>22. ASSUME NEW d \in Daemons, NEW f \in fins[d], FinishRelease(d, f)
       PROVE  TypeOK' /\ Finite'
  BY <1>22, Eff_FinishRelease
<1>23. ASSUME NEW d \in Daemons, ReapLoad(d) PROVE TypeOK' /\ Finite'
  BY <1>23, Eff_ReapLoad
<1>24. ASSUME NEW d \in Daemons, ReapTake(d) PROVE TypeOK' /\ Finite'
  BY <1>24, Eff_ReapTake
<1>25. ASSUME NEW d \in Daemons, ReapFile(d) PROVE TypeOK' /\ Finite'
  <2>1. reap[d].to \in Columns BY <1>25 DEF ReapFile, Filing
  <2> QED BY <1>25, <2>1, Eff_ReapFile
<1>26. ASSUME NEW d \in Daemons, ReapRelease(d) PROVE TypeOK' /\ Finite'
  BY <1>26, Eff_ReapRelease
<1>27. ASSUME NEW d \in Daemons, CancelRun(d) PROVE TypeOK' /\ Finite'
  BY <1>27, Eff_CancelRun
<1>28. ASSUME LeaseExpires PROVE TypeOK' /\ Finite'
  BY <1>28, Eff_LeaseExpires
<1>29. ASSUME NEW to \in Columns, Drag(to) PROVE TypeOK' /\ Finite'
  BY <1>29, Eff_Drag
<1>30. ASSUME NEW i \in Runs, ConsoleResumes(i) PROVE TypeOK' /\ Finite'
  BY <1>30, Eff_ConsoleResumes
<1>31. ASSUME NEW i \in Runs, ConsoleReturns(i) PROVE TypeOK' /\ Finite'
  BY <1>31, Eff_ConsoleReturns
<1> QED
  BY <1>1, <1>2, <1>3, <1>4, <1>5, <1>6, <1>7, <1>8, <1>9, <1>10, <1>11,
     <1>12, <1>13, <1>14, <1>15, <1>16, <1>17, <1>18, <1>19, <1>20, <1>21,
     <1>22, <1>23, <1>24, <1>25, <1>26, <1>27, <1>28, <1>29, <1>30, <1>31,
     NextCases, Zenon

\* A set-up to report has its entry, after every step.
LEMMA PendingStep ==
    ASSUME TypeOK, Finite, Pending, Next
    PROVE  Pending'
<1>1. ASSUME NEW d \in Daemons, Start(d) PROVE Pending'
  BY <1>1, Eff_Start DEF Pending
<1>2. ASSUME NEW d \in Daemons, Crash(d) PROVE Pending'
  BY <1>2, Constants DEF Crash, Pending, TypeOK
<1>3. ASSUME NEW d \in Daemons, Shutdown(d) PROVE Pending'
  BY <1>3, Constants DEF Shutdown, Pending, TypeOK
<1>4. ASSUME NEW d \in Daemons, Renew(d) PROVE Pending'
  BY <1>4, Eff_Renew DEF Pending
<1>5. ASSUME NEW d \in Daemons, ListCandidates(d) PROVE Pending'
  BY <1>5, Eff_ListCandidates DEF Pending
<1>6. ASSUME NEW d \in Daemons, lastRunHoldBeforeClaim(d) PROVE Pending'
  BY <1>6, Eff_lastRunHoldBeforeClaim DEF Pending
<1>7. ASSUME NEW d \in Daemons, ClaimCard(d) PROVE Pending'
  BY <1>7, Eff_ClaimCard DEF Pending
<1>8. ASSUME NEW d \in Daemons, resolveRunID(d) PROVE Pending'
  <2>1. Only(d) /\ (entry' = entry \/ entry'[d].on)
    BY <1>8, Eff_resolveRunID
  <2> QED BY <2>1 DEF Pending, Only
<1>9. ASSUME NEW d \in Daemons, runDispatchSetup(d) PROVE Pending'
  BY <1>9, Eff_runDispatchSetup DEF Pending
<1>10. ASSUME NEW d \in Daemons, NotStarted(d) PROVE Pending'
  BY <1>10, Eff_NotStarted DEF Pending
<1>11. ASSUME NEW d \in Daemons, EngineStarts(d) PROVE Pending'
  BY <1>11, Eff_EngineStarts DEF Pending
<1>12. ASSUME NEW d \in Daemons, EngineReturns(d) PROVE Pending'
  BY <1>12, Eff_EngineReturns DEF Pending
<1>13. ASSUME NEW d \in Daemons, WorkerEnds(d) PROVE Pending'
  BY <1>13, Eff_WorkerEnds DEF Pending
<1>14. ASSUME NEW d \in Daemons, SetupDone(d) PROVE Pending'
  <2>1. Only(d) /\ Finite BY <1>14, Eff_SetupDone
  <2>2. entry' = [entry EXCEPT ![d] = NoEntry]
        \/ entry' = [entry EXCEPT ![d] =
              [entry[d] EXCEPT !.from = work[d].from, !.pending = FALSE]]
    BY <1>14 DEF SetupDone, finishRun
  <2>3. PICK x : x = [entry[d] EXCEPT !.from = work[d].from, !.pending = FALSE]
    OBVIOUS
  <2>4. ~x.pending
    BY <2>3, Zenon DEF TypeOK, Entries
  <2>5. entry' = [entry EXCEPT ![d] = NoEntry] \/ entry' = [entry EXCEPT ![d] = x]
    BY <2>2, <2>3
  <2> QED BY <2>4, <2>5, Constants DEF Pending, TypeOK
<1>15. ASSUME NEW d \in Daemons, RunFinished(d) PROVE Pending'
  BY <1>15, Constants DEF RunFinished, finishRun, Pending, TypeOK
<1>16. ASSUME NEW d \in Daemons, RetryDue(d) PROVE Pending'
  BY <1>16, Eff_RetryDue DEF Pending
<1>17. ASSUME NEW d \in Daemons, reconcileParked(d) PROVE Pending'
  BY <1>17, Eff_reconcileParked DEF Pending
<1>18. ASSUME NEW d \in Daemons, reconcileStrandedPaused(d) PROVE Pending'
  BY <1>18, Eff_reconcileStrandedPaused DEF Pending
<1>19. ASSUME NEW d \in Daemons, InterruptWorker(d), ops' \in 0..MaxOps
       PROVE  Pending'
  BY <1>19, Eff_InterruptWorker DEF Pending
<1>20. ASSUME NEW d \in Daemons, ForceReap(d) PROVE Pending'
  BY <1>20, Constants DEF ForceReap, finishRun, Pending, TypeOK
<1>21. ASSUME NEW d \in Daemons, NEW f \in fins[d], FinishMove(d, f)
       PROVE  Pending'
  BY <1>21, Eff_FinishMove DEF Pending
<1>22. ASSUME NEW d \in Daemons, NEW f \in fins[d], FinishRelease(d, f)
       PROVE  Pending'
  BY <1>22, Eff_FinishRelease DEF Pending
<1>23. ASSUME NEW d \in Daemons, ReapLoad(d) PROVE Pending'
  BY <1>23, Eff_ReapLoad DEF Pending
<1>24. ASSUME NEW d \in Daemons, ReapTake(d) PROVE Pending'
  BY <1>24, Eff_ReapTake DEF Pending
<1>25. ASSUME NEW d \in Daemons, ReapFile(d) PROVE Pending'
  BY <1>25 DEF ReapFile, Pending
<1>26. ASSUME NEW d \in Daemons, ReapRelease(d) PROVE Pending'
  BY <1>26, Eff_ReapRelease DEF Pending
<1>27. ASSUME NEW d \in Daemons, CancelRun(d) PROVE Pending'
  BY <1>27, Eff_CancelRun DEF Pending
<1>28. ASSUME LeaseExpires PROVE Pending'
  BY <1>28, Eff_LeaseExpires DEF Pending
<1>29. ASSUME NEW to \in Columns, Drag(to) PROVE Pending'
  BY <1>29, Eff_Drag DEF Pending
<1>30. ASSUME NEW i \in Runs, ConsoleResumes(i) PROVE Pending'
  BY <1>30, Eff_ConsoleResumes DEF Pending
<1>31. ASSUME NEW i \in Runs, ConsoleReturns(i) PROVE Pending'
  BY <1>31, Eff_ConsoleReturns DEF Pending
<1> QED
  BY <1>1, <1>2, <1>3, <1>4, <1>5, <1>6, <1>7, <1>8, <1>9, <1>10, <1>11,
     <1>12, <1>13, <1>14, <1>15, <1>16, <1>17, <1>18, <1>19, <1>20, <1>21,
     <1>22, <1>23, <1>24, <1>25, <1>26, <1>27, <1>28, <1>29, <1>30, <1>31,
     NextCases, Zenon

\* What a daemon holds fits its state, after every step.
LEMMA LifeStep ==
    ASSUME TypeOK, Finite, Filing, Resting, OneCommand, Accounted, Next
    PROVE  Filing' /\ Resting' /\ OneCommand' /\ Accounted'
<1>1. ASSUME NEW d \in Daemons, Start(d)
      PROVE  Filing' /\ Resting' /\ OneCommand' /\ Accounted'
  BY <1>1, Eff_Start
     DEF Filing, Resting, OneCommand, Accounted, Only, Alive, Actor
<1>2. ASSUME NEW d \in Daemons, Crash(d)
      PROVE  Filing' /\ Resting' /\ OneCommand' /\ Accounted'
  BY <1>2, Eff_Crash
     DEF Filing, Resting, OneCommand, Accounted, Only, Alive, Actor
<1>3. ASSUME NEW d \in Daemons, Shutdown(d)
      PROVE  Filing' /\ Resting' /\ OneCommand' /\ Accounted'
  BY <1>3, Eff_Shutdown
     DEF Filing, Resting, OneCommand, Accounted, Only, Alive, Actor
<1>4. ASSUME NEW d \in Daemons, Renew(d)
      PROVE  Filing' /\ Resting' /\ OneCommand' /\ Accounted'
  BY <1>4, Eff_Renew
     DEF Filing, Resting, OneCommand, Accounted, Only, Alive, Actor
<1>5. ASSUME NEW d \in Daemons, ListCandidates(d)
      PROVE  Filing' /\ Resting' /\ OneCommand' /\ Accounted'
  BY <1>5, Eff_ListCandidates
     DEF Filing, Resting, OneCommand, Accounted, Only, Alive, Actor
<1>6. ASSUME NEW d \in Daemons, lastRunHoldBeforeClaim(d)
      PROVE  Filing' /\ Resting' /\ OneCommand' /\ Accounted'
  BY <1>6, Eff_lastRunHoldBeforeClaim
     DEF Filing, Resting, OneCommand, Accounted, Only, Alive, Actor
<1>7. ASSUME NEW d \in Daemons, ClaimCard(d)
      PROVE  Filing' /\ Resting' /\ OneCommand' /\ Accounted'
  <2>1. /\ Only(d) /\ pick[d].at = "checked" /\ pick'[d].at \in {"claimed", "none"}
        /\ UNCHANGED <<up, entry, tomb, work, fins, reap>>
    BY <1>7, Eff_ClaimCard
  <2>2. Filing' /\ Accounted' BY <2>1 DEF Filing, Accounted
  <2>3. Resting' BY <2>1 DEF Resting, Only, Alive
  <2>4. OneCommand' BY <2>1 DEF OneCommand, Only
  <2> QED BY <2>2, <2>3, <2>4
<1>8. ASSUME NEW d \in Daemons, resolveRunID(d)
      PROVE  Filing' /\ Resting' /\ OneCommand' /\ Accounted'
  BY <1>8, Eff_resolveRunID
     DEF Filing, Resting, OneCommand, Accounted, Only, Alive, Actor
<1>9. ASSUME NEW d \in Daemons, runDispatchSetup(d)
      PROVE  Filing' /\ Resting' /\ OneCommand' /\ Accounted'
  BY <1>9, Eff_runDispatchSetup
     DEF Filing, Resting, OneCommand, Accounted, Only, Alive, Actor
<1>10. ASSUME NEW d \in Daemons, NotStarted(d)
       PROVE  Filing' /\ Resting' /\ OneCommand' /\ Accounted'
  BY <1>10, Eff_NotStarted
     DEF Filing, Resting, OneCommand, Accounted, Only, Alive, Actor
<1>11. ASSUME NEW d \in Daemons, EngineStarts(d)
       PROVE  Filing' /\ Resting' /\ OneCommand' /\ Accounted'
  BY <1>11, Eff_EngineStarts
     DEF Filing, Resting, OneCommand, Accounted, Only, Alive, Actor
<1>12. ASSUME NEW d \in Daemons, EngineReturns(d)
       PROVE  Filing' /\ Resting' /\ OneCommand' /\ Accounted'
  BY <1>12, Eff_EngineReturns
     DEF Filing, Resting, OneCommand, Accounted, Only, Alive, Actor
<1>13. ASSUME NEW d \in Daemons, WorkerEnds(d)
       PROVE  Filing' /\ Resting' /\ OneCommand' /\ Accounted'
  BY <1>13, Eff_WorkerEnds
     DEF Filing, Resting, OneCommand, Accounted, Only, Alive, Actor
<1>14. ASSUME NEW d \in Daemons, SetupDone(d)
       PROVE  Filing' /\ Resting' /\ OneCommand' /\ Accounted'
  BY <1>14, Eff_SetupDone
     DEF Filing, Resting, OneCommand, Accounted, Only, Alive, Actor
<1>15. ASSUME NEW d \in Daemons, RunFinished(d)
       PROVE  Filing' /\ Resting' /\ OneCommand' /\ Accounted'
  BY <1>15, Eff_RunFinished
     DEF Filing, Resting, OneCommand, Accounted, Only, Alive, Actor
<1>16. ASSUME NEW d \in Daemons, RetryDue(d)
       PROVE  Filing' /\ Resting' /\ OneCommand' /\ Accounted'
  BY <1>16, Eff_RetryDue
     DEF Filing, Resting, OneCommand, Accounted, Only, Alive, Actor
<1>17. ASSUME NEW d \in Daemons, reconcileParked(d)
       PROVE  Filing' /\ Resting' /\ OneCommand' /\ Accounted'
  BY <1>17, Eff_reconcileParked
     DEF Filing, Resting, OneCommand, Accounted, Only, Alive, Actor
<1>18. ASSUME NEW d \in Daemons, reconcileStrandedPaused(d)
       PROVE  Filing' /\ Resting' /\ OneCommand' /\ Accounted'
  BY <1>18, Eff_reconcileStrandedPaused
     DEF Filing, Resting, OneCommand, Accounted, Only, Alive, Actor
<1>19. ASSUME NEW d \in Daemons, InterruptWorker(d), ops' \in 0..MaxOps
       PROVE  Filing' /\ Resting' /\ OneCommand' /\ Accounted'
  BY <1>19, Eff_InterruptWorker
     DEF Filing, Resting, OneCommand, Accounted, Only, Alive, Actor
<1>20. ASSUME NEW d \in Daemons, ForceReap(d)
       PROVE  Filing' /\ Resting' /\ OneCommand' /\ Accounted'
  BY <1>20, Eff_ForceReap
     DEF Filing, Resting, OneCommand, Accounted, Only, Alive, Actor
<1>21. ASSUME NEW d \in Daemons, NEW f \in fins[d], FinishMove(d, f)
       PROVE  Filing' /\ Resting' /\ OneCommand' /\ Accounted'
  BY <1>21, Eff_FinishMove
     DEF Filing, Resting, OneCommand, Accounted, Only, Alive, Actor
<1>22. ASSUME NEW d \in Daemons, NEW f \in fins[d], FinishRelease(d, f)
       PROVE  Filing' /\ Resting' /\ OneCommand' /\ Accounted'
  BY <1>22, Eff_FinishRelease
     DEF Filing, Resting, OneCommand, Accounted, Only, Alive, Actor
<1>23. ASSUME NEW d \in Daemons, ReapLoad(d)
       PROVE  Filing' /\ Resting' /\ OneCommand' /\ Accounted'
  BY <1>23, Eff_ReapLoad
     DEF Filing, Resting, OneCommand, Accounted, Only, Alive, Actor
<1>24. ASSUME NEW d \in Daemons, ReapTake(d)
       PROVE  Filing' /\ Resting' /\ OneCommand' /\ Accounted'
  <2>1. /\ Only(d) /\ UNCHANGED <<up, pick, entry, tomb, work, fins>>
        /\ reap'[d].at = "file" => reap'[d].to \in Columns
    BY <1>24, Eff_ReapTake
  <2>2. Filing' BY <2>1 DEF Filing, Only
  <2>3. Resting' /\ OneCommand' /\ Accounted'
    BY <2>1 DEF Resting, OneCommand, Accounted, Alive
  <2> QED BY <2>2, <2>3
<1>25. ASSUME NEW d \in Daemons, ReapFile(d)
       PROVE  Filing' /\ Resting' /\ OneCommand' /\ Accounted'
  <2>1. reap[d].to \in Columns BY <1>25 DEF ReapFile, Filing
  <2>2. /\ Only(d) /\ UNCHANGED <<up, pick, entry, tomb, work, fins>>
        /\ reap'[d].at # "file"
    BY <1>25, <2>1, Eff_ReapFile
  <2>3. Filing' BY <2>2 DEF Filing, Only
  <2>4. Resting' /\ OneCommand' /\ Accounted'
    BY <2>2 DEF Resting, OneCommand, Accounted, Alive
  <2> QED BY <2>3, <2>4
<1>26. ASSUME NEW d \in Daemons, ReapRelease(d)
       PROVE  Filing' /\ Resting' /\ OneCommand' /\ Accounted'
  BY <1>26, Eff_ReapRelease
     DEF Filing, Resting, OneCommand, Accounted, Only, Alive, Actor
<1>27. ASSUME NEW d \in Daemons, CancelRun(d)
       PROVE  Filing' /\ Resting' /\ OneCommand' /\ Accounted'
  BY <1>27, Eff_CancelRun
     DEF Filing, Resting, OneCommand, Accounted, Only, Alive, Actor
<1>28. ASSUME LeaseExpires
       PROVE  Filing' /\ Resting' /\ OneCommand' /\ Accounted'
  BY <1>28, Eff_LeaseExpires
     DEF Filing, Resting, OneCommand, Accounted, Only, Alive, Actor
<1>29. ASSUME NEW to \in Columns, Drag(to)
       PROVE  Filing' /\ Resting' /\ OneCommand' /\ Accounted'
  BY <1>29, Eff_Drag
     DEF Filing, Resting, OneCommand, Accounted, Only, Alive, Actor
<1>30. ASSUME NEW i \in Runs, ConsoleResumes(i)
       PROVE  Filing' /\ Resting' /\ OneCommand' /\ Accounted'
  BY <1>30, Eff_ConsoleResumes
     DEF Filing, Resting, OneCommand, Accounted, Only, Alive, Actor
<1>31. ASSUME NEW i \in Runs, ConsoleReturns(i)
       PROVE  Filing' /\ Resting' /\ OneCommand' /\ Accounted'
  BY <1>31, Eff_ConsoleReturns
     DEF Filing, Resting, OneCommand, Accounted, Only, Alive, Actor
<1> QED
  BY <1>1, <1>2, <1>3, <1>4, <1>5, <1>6, <1>7, <1>8, <1>9, <1>10, <1>11,
     <1>12, <1>13, <1>14, <1>15, <1>16, <1>17, <1>18, <1>19, <1>20, <1>21,
     <1>22, <1>23, <1>24, <1>25, <1>26, <1>27, <1>28, <1>29, <1>30, <1>31,
     NextCases, Zenon

-----------------------------------------------------------------------------
(* The locks.                                                              *)

\* The runs of the workers and of the entries are runs; no lock is None's.
LEMMA Typed ==
    ASSUME TypeOK
    PROVE  /\ \A d \in Daemons : work[d].run \in Runs /\ entry[d].run \in Runs
           /\ DOMAIN lock = Runs /\ DOMAIN run = Runs
           /\ card.last \in RunPointers
           /\ None \notin Daemons /\ Console \notin Daemons
  BY DispatcherAssumption DEF TypeOK, Workers, Entries, Cards

\* A step that leaves the locks, the runs under one and the engines alone.
KeepsLocks ==
    /\ lock' = lock
    /\ \A j \in Runs : lock[j] # None => run'[j] = run[j]
    /\ \A e \in Daemons :
          /\ work'[e].pc \in {"exec", "doomed"} <=> Engaged(e)
          /\ Engaged(e) => work'[e].run = work[e].run

\* Such a step keeps what the locks say.
LEMMA LocksKept ==
    ASSUME TypeOK, LocksHeld, KeepsLocks
    PROVE  LocksHeld'
<1>1. \A d \in Daemons : Engaged(d) =>
        lock'[work'[d].run] = d /\ run'[work'[d].run] = "running"
  BY Typed DEF LocksHeld, KeepsLocks
<1>2. \A i \in Runs, d \in Daemons :
        lock'[i] = d => Engaged(d) /\ work'[d].run = i
  BY DEF LocksHeld, KeepsLocks
<1> QED BY <1>1, <1>2 DEF LocksHeld, KeepsLocks, Engaged

\* The locks are those of the engines, after every step.
LEMMA LocksStep ==
    ASSUME TypeOK, Finite, Filing, Resting, OneCommand, Accounted, LocksHeld, Next
    PROVE  LocksHeld'
<1>1. ASSUME NEW d \in Daemons, Start(d) PROVE LocksHeld'
  <2>1. KeepsLocks BY <1>1, Eff_Start DEF KeepsLocks, Only, Engaged
  <2> QED BY <2>1, LocksKept
<1>2. ASSUME NEW d \in Daemons, Crash(d) PROVE LocksHeld'
  <2>1. /\ Only(d) /\ run' = run /\ work'[d].pc = "none"
        /\ lock' = [i \in Runs |-> IF lock[i] = d THEN None ELSE lock[i]]
    BY <1>2, Eff_Crash
  <2>2. \A e \in Daemons : work'[e].pc \in {"exec", "doomed"} =>
           e # d /\ Engaged(e) /\ work'[e].run = work[e].run
    BY <2>1 DEF Only, Engaged
  <2>3. \A e \in Daemons : work'[e].pc \in {"exec", "doomed"} =>
           lock'[work'[e].run] = e /\ run'[work'[e].run] = "running"
    BY <2>1, <2>2, Typed DEF LocksHeld
  <2>4. ASSUME NEW i \in Runs, NEW e \in Daemons, lock'[i] = e
        PROVE  work'[e].pc \in {"exec", "doomed"} /\ work'[e].run = i
    <3>1. e # d /\ lock[i] = e BY <2>1, <2>4, Typed
    <3> QED BY <2>1, <3>1 DEF LocksHeld, Engaged, Only
  <2> QED BY <2>3, <2>4 DEF LocksHeld, Engaged
<1>3. ASSUME NEW d \in Daemons, Shutdown(d) PROVE LocksHeld'
  <2>1. KeepsLocks BY <1>3, Eff_Shutdown DEF KeepsLocks, Only, Engaged
  <2> QED BY <2>1, LocksKept
<1>4. ASSUME NEW d \in Daemons, Renew(d) PROVE LocksHeld'
  <2>1. KeepsLocks BY <1>4, Eff_Renew DEF KeepsLocks, Only, Engaged
  <2> QED BY <2>1, LocksKept
<1>5. ASSUME NEW d \in Daemons, ListCandidates(d) PROVE LocksHeld'
  <2>1. KeepsLocks BY <1>5, Eff_ListCandidates DEF KeepsLocks, Only, Engaged
  <2> QED BY <2>1, LocksKept
<1>6. ASSUME NEW d \in Daemons, lastRunHoldBeforeClaim(d) PROVE LocksHeld'
  <2>1. KeepsLocks
    BY <1>6, Eff_lastRunHoldBeforeClaim DEF KeepsLocks, Only, Engaged
  <2> QED BY <2>1, LocksKept
<1>7. ASSUME NEW d \in Daemons, ClaimCard(d) PROVE LocksHeld'
  <2>1. KeepsLocks BY <1>7, Eff_ClaimCard DEF KeepsLocks, Only, Engaged
  <2> QED BY <2>1, LocksKept
<1>8. ASSUME NEW d \in Daemons, resolveRunID(d) PROVE LocksHeld'
  <2>0. work[d].pc = "none"
    BY <1>8, Eff_resolveRunID, Typed DEF OneCommand, Accounted, Resting
  <2>1. KeepsLocks
    BY <1>8, <2>0, Eff_resolveRunID DEF KeepsLocks, Only, Engaged
  <2> QED BY <2>1, LocksKept
<1>9. ASSUME NEW d \in Daemons, runDispatchSetup(d) PROVE LocksHeld'
  <2>1. KeepsLocks BY <1>9, Eff_runDispatchSetup DEF KeepsLocks, Only, Engaged
  <2> QED BY <2>1, LocksKept
<1>10. ASSUME NEW d \in Daemons, NotStarted(d) PROVE LocksHeld'
  <2>1. KeepsLocks BY <1>10, Eff_NotStarted DEF KeepsLocks, Only, Engaged
  <2> QED BY <2>1, LocksKept
<1>11. ASSUME NEW d \in Daemons, EngineStarts(d) PROVE LocksHeld'
  <2> DEFINE j == work[d].run
  <2>1. /\ Only(d) /\ j \in Runs /\ lock[j] = None /\ ~Engaged(d)
        /\ work'[d].pc \in {"exec", "doomed"} /\ work'[d].run = j
        /\ lock' = [lock EXCEPT ![j] = d] /\ run' = [run EXCEPT ![j] = "running"]
    BY <1>11, Eff_EngineStarts DEF Engaged
  <2>2. \A i \in Runs :
           /\ lock'[i] = IF i = j THEN d ELSE lock[i]
           /\ run'[i] = IF i = j THEN "running" ELSE run[i]
    BY <2>1, Typed
  <2> HIDE DEF j
  <2>3. ASSUME NEW e \in Daemons, work'[e].pc \in {"exec", "doomed"}
        PROVE  lock'[work'[e].run] = e /\ run'[work'[e].run] = "running"
    <3>1. CASE e = d BY <2>1, <2>2, <3>1
    <3>2. CASE e # d
      <4>1. Engaged(e) /\ work'[e].run = work[e].run /\ work[e].run \in Runs
        BY <2>1, <2>3, <3>2, Typed DEF Only, Engaged
      <4>2. lock[work[e].run] = e /\ run[work[e].run] = "running"
        BY <4>1 DEF LocksHeld
      <4>3. work[e].run # j BY <2>1, <4>2, Typed
      <4> QED BY <2>2, <4>1, <4>2, <4>3
    <3> QED BY <3>1, <3>2
  <2>4. ASSUME NEW i \in Runs, NEW e \in Daemons, lock'[i] = e
        PROVE  work'[e].pc \in {"exec", "doomed"} /\ work'[e].run = i
    <3>1. CASE i = j BY <2>1, <2>2, <2>4, <3>1
    <3>2. CASE i # j
      <4>1. lock[i] = e BY <2>2, <2>4, <3>2
      <4>2. Engaged(e) /\ work[e].run = i BY <4>1 DEF LocksHeld
      <4> QED BY <2>1, <4>2 DEF Only, Engaged
    <3> QED BY <3>1, <3>2
  <2> QED BY <2>3, <2>4 DEF LocksHeld, Engaged
<1>12. ASSUME NEW d \in Daemons, EngineReturns(d) PROVE LocksHeld'
  <2> DEFINE j == work[d].run
  <2>1. /\ Only(d) /\ j \in Runs /\ Engaged(d) /\ work'[d].pc = "returned"
        /\ lock' = [lock EXCEPT ![j] = None]
        /\ \A i \in Runs : i # j => run'[i] = run[i]
    BY <1>12, Eff_EngineReturns DEF Engaged
  <2>2. \A i \in Runs : lock'[i] = IF i = j THEN None ELSE lock[i]
    BY <2>1, Typed
  <2>3. lock[j] = d BY <2>1 DEF LocksHeld
  <2> HIDE DEF j
  <2>4. ASSUME NEW e \in Daemons, work'[e].pc \in {"exec", "doomed"}
        PROVE  lock'[work'[e].run] = e /\ run'[work'[e].run] = "running"
    <3>1. e # d BY <2>1, <2>4
    <3>2. Engaged(e) /\ work'[e].run = work[e].run /\ work[e].run \in Runs
      BY <2>1, <2>4, <3>1, Typed DEF Only, Engaged
    <3>3. lock[work[e].run] = e /\ run[work[e].run] = "running"
      BY <3>2 DEF LocksHeld
    <3>4. work[e].run # j BY <2>3, <3>1, <3>3
    <3> QED BY <2>1, <2>2, <3>2, <3>3, <3>4
  <2>5. ASSUME NEW i \in Runs, NEW e \in Daemons, lock'[i] = e
        PROVE  work'[e].pc \in {"exec", "doomed"} /\ work'[e].run = i
    <3>1. i # j /\ lock[i] = e BY <2>2, <2>5, Typed
    <3>2. Engaged(e) /\ work[e].run = i BY <3>1 DEF LocksHeld
    <3>3. e # d BY <3>1, <3>2, <2>3 DEF j
    <3> QED BY <2>1, <3>2, <3>3 DEF Only, Engaged
  <2> QED BY <2>4, <2>5 DEF LocksHeld, Engaged
<1>13. ASSUME NEW d \in Daemons, WorkerEnds(d) PROVE LocksHeld'
  <2>1. KeepsLocks BY <1>13, Eff_WorkerEnds DEF KeepsLocks, Only, Engaged
  <2> QED BY <2>1, LocksKept
<1>14. ASSUME NEW d \in Daemons, SetupDone(d) PROVE LocksHeld'
  <2>1. KeepsLocks BY <1>14, Eff_SetupDone DEF KeepsLocks, Only, Engaged
  <2> QED BY <2>1, LocksKept
<1>15. ASSUME NEW d \in Daemons, RunFinished(d) PROVE LocksHeld'
  <2>1. KeepsLocks BY <1>15, Eff_RunFinished DEF KeepsLocks, Only, Engaged
  <2> QED BY <2>1, LocksKept
<1>16. ASSUME NEW d \in Daemons, RetryDue(d) PROVE LocksHeld'
  <2>1. KeepsLocks BY <1>16, Eff_RetryDue DEF KeepsLocks, Only, Engaged
  <2> QED BY <2>1, LocksKept
<1>17. ASSUME NEW d \in Daemons, reconcileParked(d) PROVE LocksHeld'
  <2>1. KeepsLocks BY <1>17, Eff_reconcileParked DEF KeepsLocks, Only, Engaged
  <2> QED BY <2>1, LocksKept
<1>18. ASSUME NEW d \in Daemons, reconcileStrandedPaused(d) PROVE LocksHeld'
  <2>1. KeepsLocks
    BY <1>18, Eff_reconcileStrandedPaused DEF KeepsLocks, Only, Engaged
  <2> QED BY <2>1, LocksKept
<1>19. ASSUME NEW d \in Daemons, InterruptWorker(d), ops' \in 0..MaxOps
       PROVE  LocksHeld'
  <2>1. KeepsLocks BY <1>19, Eff_InterruptWorker DEF KeepsLocks, Only, Engaged
  <2> QED BY <2>1, LocksKept
<1>20. ASSUME NEW d \in Daemons, ForceReap(d) PROVE LocksHeld'
  <2>1. KeepsLocks BY <1>20, Eff_ForceReap DEF KeepsLocks, Only, Engaged
  <2> QED BY <2>1, LocksKept
<1>21. ASSUME NEW d \in Daemons, NEW f \in fins[d], FinishMove(d, f)
       PROVE  LocksHeld'
  <2>1. KeepsLocks BY <1>21, Eff_FinishMove DEF KeepsLocks, Only, Engaged
  <2> QED BY <2>1, LocksKept
<1>22. ASSUME NEW d \in Daemons, NEW f \in fins[d], FinishRelease(d, f)
       PROVE  LocksHeld'
  <2>1. KeepsLocks BY <1>22, Eff_FinishRelease DEF KeepsLocks, Only, Engaged
  <2> QED BY <2>1, LocksKept
<1>23. ASSUME NEW d \in Daemons, ReapLoad(d) PROVE LocksHeld'
  <2>1. KeepsLocks BY <1>23, Eff_ReapLoad DEF KeepsLocks, Only, Engaged
  <2> QED BY <2>1, LocksKept
<1>24. ASSUME NEW d \in Daemons, ReapTake(d) PROVE LocksHeld'
  <2>1. KeepsLocks BY <1>24, Eff_ReapTake DEF KeepsLocks, Only, Engaged
  <2> QED BY <2>1, LocksKept
<1>25. ASSUME NEW d \in Daemons, ReapFile(d) PROVE LocksHeld'
  <2>0. reap[d].to \in Columns BY <1>25 DEF ReapFile, Filing
  <2>1. KeepsLocks BY <1>25, <2>0, Eff_ReapFile DEF KeepsLocks, Only, Engaged
  <2> QED BY <2>1, LocksKept
<1>26. ASSUME NEW d \in Daemons, ReapRelease(d) PROVE LocksHeld'
  <2>1. KeepsLocks BY <1>26, Eff_ReapRelease DEF KeepsLocks, Only, Engaged
  <2> QED BY <2>1, LocksKept
<1>27. ASSUME NEW d \in Daemons, CancelRun(d) PROVE LocksHeld'
  <2>1. KeepsLocks BY <1>27, Eff_CancelRun DEF KeepsLocks, Only, Engaged
  <2> QED BY <2>1, LocksKept
<1>28. ASSUME LeaseExpires PROVE LocksHeld'
  <2>1. KeepsLocks BY <1>28, Eff_LeaseExpires DEF KeepsLocks, Only, Engaged
  <2> QED BY <2>1, LocksKept
<1>29. ASSUME NEW to \in Columns, Drag(to) PROVE LocksHeld'
  <2>1. KeepsLocks BY <1>29, Eff_Drag DEF KeepsLocks, Only, Engaged
  <2> QED BY <2>1, LocksKept
<1>30. ASSUME NEW i \in Runs, ConsoleResumes(i) PROVE LocksHeld'
  <2>1. /\ work' = work /\ lock[i] \notin Daemons
        /\ lock' = [lock EXCEPT ![i] = Console]
        /\ \A j \in Runs : j # i => run'[j] = run[j]
    BY <1>30, Eff_ConsoleResumes, Typed
  <2>2. \A j \in Runs : lock'[j] = IF j = i THEN Console ELSE lock[j]
    BY <2>1, Typed
  <2>3. ASSUME NEW e \in Daemons, Engaged(e)
        PROVE  lock'[work[e].run] = e /\ run'[work[e].run] = "running"
    <3>1. lock[work[e].run] = e /\ run[work[e].run] = "running"
      BY <2>3 DEF LocksHeld
    <3> QED BY <2>1, <2>2, <3>1, Typed
  <2>4. ASSUME NEW j \in Runs, NEW e \in Daemons, lock'[j] = e
        PROVE  Engaged(e) /\ work[e].run = j
    <3>1. lock[j] = e BY <2>2, <2>4, Typed
    <3> QED BY <3>1 DEF LocksHeld
  <2> QED BY <2>1, <2>3, <2>4 DEF LocksHeld, Engaged
<1>31. ASSUME NEW i \in Runs, ConsoleReturns(i) PROVE LocksHeld'
  <2>1. /\ work' = work /\ lock[i] \notin Daemons
        /\ lock' = [lock EXCEPT ![i] = None]
        /\ \A j \in Runs : j # i => run'[j] = run[j]
    BY <1>31, Eff_ConsoleReturns, Typed
  <2>2. \A j \in Runs : lock'[j] = IF j = i THEN None ELSE lock[j]
    BY <2>1, Typed
  <2>3. ASSUME NEW e \in Daemons, Engaged(e)
        PROVE  lock'[work[e].run] = e /\ run'[work[e].run] = "running"
    <3>1. lock[work[e].run] = e /\ run[work[e].run] = "running"
      BY <2>3 DEF LocksHeld
    <3> QED BY <2>1, <2>2, <3>1, Typed
  <2>4. ASSUME NEW j \in Runs, NEW e \in Daemons, lock'[j] = e
        PROVE  Engaged(e) /\ work[e].run = j
    <3>1. lock[j] = e BY <2>2, <2>4, Typed
    <3> QED BY <3>1 DEF LocksHeld
  <2> QED BY <2>1, <2>3, <2>4 DEF LocksHeld, Engaged
<1> QED
  BY <1>1, <1>2, <1>3, <1>4, <1>5, <1>6, <1>7, <1>8, <1>9, <1>10, <1>11,
     <1>12, <1>13, <1>14, <1>15, <1>16, <1>17, <1>18, <1>19, <1>20, <1>21,
     <1>22, <1>23, <1>24, <1>25, <1>26, <1>27, <1>28, <1>29, <1>30, <1>31,
     NextCases, Zenon

-----------------------------------------------------------------------------
(* Daemons that take turns.                                                *)

\* A step that starts no daemon, no engine and no dispatch.
KeepsTurn ==
    /\ card'.last = card.last
    /\ \A e \in Daemons :
          /\ up'[e] = "up" => up[e] = "up"
          /\ work'[e].pc = "exec" =>
                Executing(e) /\ work'[e].run = work[e].run
          /\ entry'[e].on => entry[e].on /\ entry'[e].run = entry[e].run
          /\ pick'[e].at \in {"checked", "claimed"} =>
                pick[e].at \in {"checked", "claimed"}

\* Such a step keeps the turns.
LEMMA TurnKept ==
    ASSUME InTurn, Pointer, KeepsTurn
    PROVE  InTurn' /\ Pointer'
<1>1. InTurn' BY DEF InTurn, KeepsTurn
<1>2. Pointer' BY DEF Pointer, Executing, KeepsTurn
<1> QED BY <1>1, <1>2

\* Daemons that take turns still do, after every step.
LEMMA TurnStep ==
    ASSUME ~Overlap, TypeOK, Finite, Filing, Pending, Resting, OneCommand,
           Accounted, LocksHeld, InTurn, Pointer, Next
    PROVE  InTurn' /\ Pointer'
<1>1. ASSUME NEW d \in Daemons, Start(d) PROVE InTurn' /\ Pointer'
  <2>1. /\ Only(d) /\ card'.last = card.last
        /\ \A e \in Daemons : up[e] # "up"
        /\ UNCHANGED <<pick, entry, work>>
    BY <1>1, Eff_Start
  <2>2. InTurn' BY <2>1 DEF InTurn, Only
  <2>3. Pointer' BY <2>1 DEF Pointer, Executing
  <2> QED BY <2>2, <2>3
<1>2. ASSUME NEW d \in Daemons, Crash(d) PROVE InTurn' /\ Pointer'
  <2>1. KeepsTurn BY <1>2, Eff_Crash DEF KeepsTurn, Only, Executing
  <2> QED BY <2>1, TurnKept
<1>3. ASSUME NEW d \in Daemons, Shutdown(d) PROVE InTurn' /\ Pointer'
  <2>1. KeepsTurn BY <1>3, Eff_Shutdown DEF KeepsTurn, Only, Executing
  <2> QED BY <2>1, TurnKept
<1>4. ASSUME NEW d \in Daemons, Renew(d) PROVE InTurn' /\ Pointer'
  <2>1. KeepsTurn BY <1>4, Eff_Renew DEF KeepsTurn, Only, Executing
  <2> QED BY <2>1, TurnKept
<1>5. ASSUME NEW d \in Daemons, ListCandidates(d) PROVE InTurn' /\ Pointer'
  <2>1. KeepsTurn BY <1>5, Eff_ListCandidates DEF KeepsTurn, Only, Executing
  <2> QED BY <2>1, TurnKept
<1>6. ASSUME NEW d \in Daemons, lastRunHoldBeforeClaim(d)
      PROVE  InTurn' /\ Pointer'
  <2>1. /\ Only(d) /\ UNCHANGED <<card, lock, up, entry, work>>
        /\ \A j \in Runs : lock[j] # None => run'[j] = run[j]
        /\ \/ pick'[d].at = "none"
           \/ pick'[d].at = "checked" /\ (card.last # None => run'[card.last] # "running")
    BY <1>6, Eff_lastRunHoldBeforeClaim
  <2>2. InTurn' BY <2>1 DEF InTurn
  <2>3. ASSUME NEW e \in Daemons, Executing(e), pick'[d].at = "checked"
        PROVE  FALSE
    <3>1. card.last = work[e].run BY <2>3 DEF Pointer
    <3>2. lock[work[e].run] = e /\ run[work[e].run] = "running"
      BY <2>3 DEF LocksHeld, Engaged, Executing
    <3>3. work[e].run \in Runs /\ e # None BY Typed
    <3>4. card.last # None BY <3>1, <3>3, DispatcherAssumption DEF Runs
    <3> QED BY <2>1, <2>3, <3>1, <3>2, <3>3, <3>4
  <2>4. \A c, e \in Daemons :
           pick'[c].at \in {"checked", "claimed"} => ~Executing(e)
    BY <2>1, <2>3 DEF Only, Pointer
  <2>5. Pointer' BY <2>1, <2>4 DEF Pointer, Executing
  <2> QED BY <2>2, <2>5
<1>7. ASSUME NEW d \in Daemons, ClaimCard(d) PROVE InTurn' /\ Pointer'
  <2>1. KeepsTurn BY <1>7, Eff_ClaimCard DEF KeepsTurn, Only, Executing
  <2> QED BY <2>1, TurnKept
<1>8. ASSUME NEW d \in Daemons, resolveRunID(d) PROVE InTurn' /\ Pointer'
  <2>1. /\ Only(d) /\ pick[d].at = "claimed" /\ pick'[d].at = "none" /\ up' = up
        /\ \/ card'.last = card.last /\ UNCHANGED <<entry, work>>
           \/ /\ entry'[d].on /\ card'.last = entry'[d].run
              /\ work'[d].pc = "setup"
    BY <1>8, Eff_resolveRunID
  <2>2. CASE card'.last = card.last /\ UNCHANGED <<entry, work>>
    <3>1. InTurn' BY <2>1 DEF InTurn
    <3>2. Pointer' BY <2>1, <2>2 DEF Pointer, Executing, Only
    <3> QED BY <3>1, <3>2
  <2>3. CASE /\ entry'[d].on /\ card'.last = entry'[d].run
             /\ work'[d].pc = "setup"
    <3>1. InTurn' BY <2>1 DEF InTurn
    <3>2. \A e \in Daemons : work'[e].pc # "exec"
      BY <2>1, <2>3 DEF Pointer, Executing, Only
    <3>3. \A e \in Daemons : entry'[e].on => e = d
      BY <2>1 DEF Only, Resting, InTurn
    <3>4. Pointer' BY <2>3, <3>2, <3>3 DEF Pointer, Executing
    <3> QED BY <3>1, <3>4
  <2> QED BY <2>1, <2>2, <2>3
<1>9. ASSUME NEW d \in Daemons, runDispatchSetup(d) PROVE InTurn' /\ Pointer'
  <2>1. KeepsTurn BY <1>9, Eff_runDispatchSetup DEF KeepsTurn, Only, Executing
  <2> QED BY <2>1, TurnKept
<1>10. ASSUME NEW d \in Daemons, NotStarted(d) PROVE InTurn' /\ Pointer'
  <2>1. KeepsTurn BY <1>10, Eff_NotStarted DEF KeepsTurn, Only, Executing
  <2> QED BY <2>1, TurnKept
<1>11. ASSUME NEW d \in Daemons, EngineStarts(d) PROVE InTurn' /\ Pointer'
  <2>1. /\ Only(d) /\ UNCHANGED <<card, up, pick, entry>>
        /\ work[d].pc = "hooks" /\ work'[d].run = work[d].run
        /\ work'[d].pc = "exec" => work[d].stop = "no"
    BY <1>11, Eff_EngineStarts
  <2>2. InTurn' BY <2>1 DEF InTurn
  <2>3. ASSUME work'[d].pc = "exec"
        PROVE  /\ entry[d].on /\ card.last = work[d].run
               /\ \A e \in Daemons : entry[e].on => e = d
               /\ \A e \in Daemons : pick[e].at \notin {"checked", "claimed"}
    <3>1. entry[d].on /\ entry[d].run = work[d].run
      BY <2>1, <2>3 DEF Accounted
    <3>2. card.last = work[d].run BY <3>1 DEF Pointer
    <3>3. up[d] = "up" BY <3>1 DEF Resting
    <3>4. \A e \in Daemons : entry[e].on => e = d
      BY <3>3 DEF Resting, InTurn
    <3>5. \A e \in Daemons : pick[e].at \notin {"checked", "claimed"}
      BY <3>1, <3>3 DEF Resting, InTurn, OneCommand
    <3> QED BY <3>1, <3>2, <3>4, <3>5
  <2>4. \A e \in Daemons : work'[e].pc = "exec" =>
           \/ e = d
           \/ e # d /\ Executing(e) /\ work'[e].run = work[e].run
    BY <2>1 DEF Only, Executing
  <2>5. \A e \in Daemons : work'[e].pc = "exec" => card'.last = work'[e].run
    BY <2>1, <2>3, <2>4 DEF Pointer
  <2>6. \A e \in Daemons : entry'[e].on => card'.last = entry'[e].run
    BY <2>1 DEF Pointer
  <2>7. \A c, e \in Daemons : entry'[c].on /\ work'[e].pc = "exec" => c = e
    BY <2>1, <2>3, <2>4 DEF Pointer
  <2>8. \A c, e \in Daemons :
           pick'[c].at \in {"checked", "claimed"} => work'[e].pc # "exec"
    BY <2>1, <2>3, <2>4 DEF Pointer
  <2>9. Pointer' BY <2>5, <2>6, <2>7, <2>8 DEF Pointer, Executing
  <2> QED BY <2>2, <2>9
<1>12. ASSUME NEW d \in Daemons, EngineReturns(d) PROVE InTurn' /\ Pointer'
  <2>1. KeepsTurn BY <1>12, Eff_EngineReturns DEF KeepsTurn, Only, Executing
  <2> QED BY <2>1, TurnKept
<1>13. ASSUME NEW d \in Daemons, WorkerEnds(d) PROVE InTurn' /\ Pointer'
  <2>1. KeepsTurn BY <1>13, Eff_WorkerEnds DEF KeepsTurn, Only, Executing
  <2> QED BY <2>1, TurnKept
<1>14. ASSUME NEW d \in Daemons, SetupDone(d) PROVE InTurn' /\ Pointer'
  <2>0. entry[d].on BY <1>14 DEF SetupDone, Pending
  <2>1. KeepsTurn
    BY <1>14, <2>0, Eff_SetupDone DEF KeepsTurn, Only, Executing, Pointer
  <2> QED BY <2>1, TurnKept
<1>15. ASSUME NEW d \in Daemons, RunFinished(d) PROVE InTurn' /\ Pointer'
  <2>1. KeepsTurn
    BY <1>15, Eff_RunFinished DEF KeepsTurn, Only, Executing, Pointer
  <2> QED BY <2>1, TurnKept
<1>16. ASSUME NEW d \in Daemons, RetryDue(d) PROVE InTurn' /\ Pointer'
  <2>1. KeepsTurn BY <1>16, Eff_RetryDue DEF KeepsTurn, Only, Executing
  <2> QED BY <2>1, TurnKept
<1>17. ASSUME NEW d \in Daemons, reconcileParked(d) PROVE InTurn' /\ Pointer'
  <2>1. KeepsTurn BY <1>17, Eff_reconcileParked DEF KeepsTurn, Only, Executing
  <2> QED BY <2>1, TurnKept
<1>18. ASSUME NEW d \in Daemons, reconcileStrandedPaused(d)
       PROVE  InTurn' /\ Pointer'
  <2>1. KeepsTurn
    BY <1>18, Eff_reconcileStrandedPaused DEF KeepsTurn, Only, Executing
  <2> QED BY <2>1, TurnKept
<1>19. ASSUME NEW d \in Daemons, InterruptWorker(d), ops' \in 0..MaxOps
       PROVE  InTurn' /\ Pointer'
  <2>1. KeepsTurn BY <1>19, Eff_InterruptWorker DEF KeepsTurn, Only, Executing
  <2> QED BY <2>1, TurnKept
<1>20. ASSUME NEW d \in Daemons, ForceReap(d) PROVE InTurn' /\ Pointer'
  <2>1. KeepsTurn
    BY <1>20, Eff_ForceReap DEF KeepsTurn, Only, Executing, Pointer
  <2> QED BY <2>1, TurnKept
<1>21. ASSUME NEW d \in Daemons, NEW f \in fins[d], FinishMove(d, f)
       PROVE  InTurn' /\ Pointer'
  <2>1. KeepsTurn BY <1>21, Eff_FinishMove DEF KeepsTurn, Only, Executing
  <2> QED BY <2>1, TurnKept
<1>22. ASSUME NEW d \in Daemons, NEW f \in fins[d], FinishRelease(d, f)
       PROVE  InTurn' /\ Pointer'
  <2>1. KeepsTurn BY <1>22, Eff_FinishRelease DEF KeepsTurn, Only, Executing
  <2> QED BY <2>1, TurnKept
<1>23. ASSUME NEW d \in Daemons, ReapLoad(d) PROVE InTurn' /\ Pointer'
  <2>1. KeepsTurn BY <1>23, Eff_ReapLoad DEF KeepsTurn, Only, Executing
  <2> QED BY <2>1, TurnKept
<1>24. ASSUME NEW d \in Daemons, ReapTake(d) PROVE InTurn' /\ Pointer'
  <2>1. KeepsTurn BY <1>24, Eff_ReapTake DEF KeepsTurn, Only, Executing
  <2> QED BY <2>1, TurnKept
<1>25. ASSUME NEW d \in Daemons, ReapFile(d) PROVE InTurn' /\ Pointer'
  <2>0. reap[d].to \in Columns BY <1>25 DEF ReapFile, Filing
  <2>1. KeepsTurn BY <1>25, <2>0, Eff_ReapFile DEF KeepsTurn, Only, Executing
  <2> QED BY <2>1, TurnKept
<1>26. ASSUME NEW d \in Daemons, ReapRelease(d) PROVE InTurn' /\ Pointer'
  <2>1. KeepsTurn BY <1>26, Eff_ReapRelease DEF KeepsTurn, Only, Executing
  <2> QED BY <2>1, TurnKept
<1>27. ASSUME NEW d \in Daemons, CancelRun(d) PROVE InTurn' /\ Pointer'
  <2>1. KeepsTurn BY <1>27, Eff_CancelRun DEF KeepsTurn, Only, Executing
  <2> QED BY <2>1, TurnKept
<1>28. ASSUME LeaseExpires PROVE InTurn' /\ Pointer'
  <2>1. KeepsTurn BY <1>28, Eff_LeaseExpires DEF KeepsTurn, Only, Executing
  <2> QED BY <2>1, TurnKept
<1>29. ASSUME NEW to \in Columns, Drag(to) PROVE InTurn' /\ Pointer'
  <2>1. KeepsTurn BY <1>29, Eff_Drag DEF KeepsTurn, Only, Executing
  <2> QED BY <2>1, TurnKept
<1>30. ASSUME NEW i \in Runs, ConsoleResumes(i) PROVE InTurn' /\ Pointer'
  <2>1. KeepsTurn BY <1>30, Eff_ConsoleResumes DEF KeepsTurn, Only, Executing
  <2> QED BY <2>1, TurnKept
<1>31. ASSUME NEW i \in Runs, ConsoleReturns(i) PROVE InTurn' /\ Pointer'
  <2>1. KeepsTurn BY <1>31, Eff_ConsoleReturns DEF KeepsTurn, Only, Executing
  <2> QED BY <2>1, TurnKept
<1> QED
  BY <1>1, <1>2, <1>3, <1>4, <1>5, <1>6, <1>7, <1>8, <1>9, <1>10, <1>11,
     <1>12, <1>13, <1>14, <1>15, <1>16, <1>17, <1>18, <1>19, <1>20, <1>21,
     <1>22, <1>23, <1>24, <1>25, <1>26, <1>27, <1>28, <1>29, <1>30, <1>31,
     NextCases, Zenon

-----------------------------------------------------------------------------
(* The tokens.                                                             *)

\* A step that leaves the dispatches where they are, or ends them.
KeepsApart ==
    /\ \/ card'.claim = card.claim \/ card'.claim = NoClaim
       \/ card'.claim.ep \notin Remembered
    /\ \A e \in Daemons :
          /\ pick'[e].at # "none" => pick[e].at # "none"
          /\ pick'[e].at = "claimed" =>
                pick[e].at = "claimed" /\ pick'[e].tok = pick[e].tok
          /\ entry'[e].on => entry[e].on /\ entry'[e].tok = entry[e].tok
          /\ \A f \in fins'[e] :
                \/ \E g \in fins[e] : f.tok = g.tok
                \/ entry[e].on /\ ~entry'[e].on /\ f.tok = entry[e].tok
          /\ reap'[e].at \in {"file", "release"} =>
                \/ /\ reap[e].at \in {"file", "release"}
                   /\ reap'[e].prev = reap[e].prev
                \/ reap'[e].prev.rec

\* Such a step keeps the tokens apart.
LEMMA ApartKept ==
    ASSUME TypeOK, OneCommand, Marked, Apart, KeepsApart
    PROVE  Marked' /\ Apart'
<1>1. Marked'
  BY DEF Marked, OwnToken, KeepsApart
<1>2. \A e \in Daemons : \A t : OwnToken(e, t) => t # NoClaim
  BY Constants DEF OwnToken
<1>3. \A e \in Daemons : pick'[e].at # "none" =>
         \A g \in fins[e] : g.tok # card'.claim
  BY <1>2, Unremembered DEF Marked, Apart, KeepsApart
<1>4. \A e \in Daemons : pick'[e].at # "none" /\ entry[e].on =>
         entry[e].tok # card'.claim
  BY <1>2, Unremembered DEF Marked, Apart, KeepsApart
<1>5. ASSUME NEW d \in Daemons
      PROVE  /\ pick'[d].at # "none" => \A f \in fins'[d] : f.tok # card'.claim
             /\ pick'[d].at # "none" /\ entry'[d].on => entry'[d].tok # card'.claim
             /\ entry'[d].on => \A f \in fins'[d] : f.tok # entry'[d].tok
             /\ pick'[d].at = "claimed" => \A f \in fins'[d] : f.tok # pick'[d].tok
  <2>1. pick'[d].at # "none" => \A f \in fins'[d] : f.tok # card'.claim
    BY <1>3, <1>4 DEF KeepsApart
  <2>2. pick'[d].at # "none" /\ entry'[d].on => entry'[d].tok # card'.claim
    BY <1>4 DEF KeepsApart
  <2>3. entry'[d].on => \A f \in fins'[d] : f.tok # entry'[d].tok
    BY DEF Apart, KeepsApart
  <2>4. pick'[d].at = "claimed" => \A f \in fins'[d] : f.tok # pick'[d].tok
    BY DEF Apart, OneCommand, KeepsApart
  <2> QED BY <2>1, <2>2, <2>3, <2>4
<1>6. Apart' BY <1>5 DEF Apart
<1> QED BY <1>1, <1>6

\* The tokens stay apart.
LEMMA ApartStep ==
    ASSUME TypeOK, Finite, Filing, Pending, Resting, OneCommand,
           Marked, Apart, Next
    PROVE  Marked' /\ Apart'
<1>1. ASSUME NEW d \in Daemons, Start(d) PROVE Marked' /\ Apart'
  <2>1. KeepsApart BY <1>1, Eff_Start DEF KeepsApart, Only, KeepsClaim
  <2> QED BY <2>1, ApartKept
<1>2. ASSUME NEW d \in Daemons, Crash(d) PROVE Marked' /\ Apart'
  <2>1. KeepsApart BY <1>2, Eff_Crash DEF KeepsApart, Only, KeepsClaim
  <2> QED BY <2>1, ApartKept
<1>3. ASSUME NEW d \in Daemons, Shutdown(d) PROVE Marked' /\ Apart'
  <2>1. KeepsApart BY <1>3, Eff_Shutdown DEF KeepsApart, Only, KeepsClaim
  <2> QED BY <2>1, ApartKept
<1>4. ASSUME NEW d \in Daemons, Renew(d) PROVE Marked' /\ Apart'
  <2>1. KeepsApart BY <1>4, Eff_Renew DEF KeepsApart, Only, KeepsClaim
  <2> QED BY <2>1, ApartKept
<1>5. ASSUME NEW d \in Daemons, ListCandidates(d) PROVE Marked' /\ Apart'
  <2>1. /\ Only(d) /\ pick'[d].at = "listed" /\ card.claim = NoClaim
        /\ UNCHANGED <<card, entry, fins, reap>>
    BY <1>5, Eff_ListCandidates
  <2>2. Marked' BY <2>1 DEF Marked, Only
  <2>3. OwnToken(d, entry[d].tok) => entry[d].tok # NoClaim
    BY Constants DEF OwnToken
  <2>4. \A f \in fins[d] : f.tok # NoClaim
    BY Constants DEF OwnToken, Marked
  <2>5. Apart' BY <2>1, <2>3, <2>4 DEF Apart, Only, Marked
  <2> QED BY <2>2, <2>5
<1>6. ASSUME NEW d \in Daemons, lastRunHoldBeforeClaim(d)
      PROVE  Marked' /\ Apart'
  <2>1. KeepsApart
    BY <1>6, Eff_lastRunHoldBeforeClaim DEF KeepsApart, Only, KeepsClaim
  <2> QED BY <2>1, ApartKept
<1>7. ASSUME NEW d \in Daemons, ClaimCard(d) PROVE Marked' /\ Apart'
  <2>1. /\ Only(d) /\ pick[d].at = "checked" /\ UNCHANGED <<entry, fins, reap>>
        /\ pick'[d].at # "none" => pick'[d].at = "claimed"
        /\ pick'[d].at = "claimed" =>
              pick'[d].tok = card'.claim /\ OwnToken(d, card'.claim)
        /\ card'.claim = card.claim \/ card'.claim.ep \notin Remembered
    BY <1>7, Eff_ClaimCard DEF KeepsClaim, OwnToken
  <2>2. Marked' BY <2>1 DEF Marked, Only
  <2>3. \A e \in Daemons : pick[e].at # "none" =>
           \A f \in fins[e] : f.tok # card'.claim
    BY <2>1, Unremembered DEF Apart
  <2>4. \A e \in Daemons : pick[e].at # "none" /\ entry[e].on =>
           entry[e].tok # card'.claim
    BY <2>1, Unremembered DEF Apart
  <2>5. \A e \in Daemons : pick'[e].at # "none" => pick[e].at # "none"
    BY <2>1 DEF Only
  <2>6. \A e \in Daemons : pick'[e].at = "claimed" =>
           \A f \in fins[e] : f.tok # pick'[e].tok
    BY <2>1, <2>3 DEF Only, Apart
  <2>7. Apart' BY <2>1, <2>3, <2>4, <2>5, <2>6 DEF Apart
  <2> QED BY <2>2, <2>7
<1>8. ASSUME NEW d \in Daemons, resolveRunID(d) PROVE Marked' /\ Apart'
  <2>1. /\ Only(d) /\ pick[d].at = "claimed" /\ pick'[d].at = "none"
        /\ card'.claim = card.claim \/ card'.claim = NoClaim
        /\ entry'[d] = entry[d] \/ entry'[d].tok = pick[d].tok
        /\ UNCHANGED <<fins, reap>>
    BY <1>8, Eff_resolveRunID DEF KeepsClaim
  <2>2. Marked' BY <2>1 DEF Marked, Only
  <2>3. \A e \in Daemons : e # d /\ pick'[e].at # "none" =>
           /\ \A f \in fins[e] : f.tok # card'.claim
           /\ entry[e].on => entry[e].tok # card'.claim
    BY <2>1, Constants DEF Only, Apart, Marked, OwnToken
  <2>4. entry'[d].on => \A f \in fins[d] : f.tok # entry'[d].tok
    BY <2>1 DEF Apart
  <2>5. Apart' BY <2>1, <2>3, <2>4 DEF Apart, Only
  <2> QED BY <2>2, <2>5
<1>9. ASSUME NEW d \in Daemons, runDispatchSetup(d) PROVE Marked' /\ Apart'
  <2>1. KeepsApart
    BY <1>9, Eff_runDispatchSetup DEF KeepsApart, Only, KeepsClaim
  <2> QED BY <2>1, ApartKept
<1>10. ASSUME NEW d \in Daemons, NotStarted(d) PROVE Marked' /\ Apart'
  <2>1. KeepsApart BY <1>10, Eff_NotStarted DEF KeepsApart, Only, KeepsClaim
  <2> QED BY <2>1, ApartKept
<1>11. ASSUME NEW d \in Daemons, EngineStarts(d) PROVE Marked' /\ Apart'
  <2>1. KeepsApart BY <1>11, Eff_EngineStarts DEF KeepsApart, Only, KeepsClaim
  <2> QED BY <2>1, ApartKept
<1>12. ASSUME NEW d \in Daemons, EngineReturns(d) PROVE Marked' /\ Apart'
  <2>1. KeepsApart
    BY <1>12, Eff_EngineReturns DEF KeepsApart, Only, KeepsClaim
  <2> QED BY <2>1, ApartKept
<1>13. ASSUME NEW d \in Daemons, WorkerEnds(d) PROVE Marked' /\ Apart'
  <2>1. KeepsApart BY <1>13, Eff_WorkerEnds DEF KeepsApart, Only, KeepsClaim
  <2> QED BY <2>1, ApartKept
<1>14. ASSUME NEW d \in Daemons, SetupDone(d) PROVE Marked' /\ Apart'
  <2>0. entry[d].on BY <1>14 DEF SetupDone, Pending
  <2>1. KeepsApart
    BY <1>14, <2>0, Eff_SetupDone DEF KeepsApart, Only, KeepsClaim
  <2> QED BY <2>1, ApartKept
<1>15. ASSUME NEW d \in Daemons, RunFinished(d) PROVE Marked' /\ Apart'
  <2>1. KeepsApart BY <1>15, Eff_RunFinished DEF KeepsApart, Only, KeepsClaim
  <2> QED BY <2>1, ApartKept
<1>16. ASSUME NEW d \in Daemons, RetryDue(d) PROVE Marked' /\ Apart'
  <2>1. KeepsApart BY <1>16, Eff_RetryDue DEF KeepsApart, Only, KeepsClaim
  <2> QED BY <2>1, ApartKept
<1>17. ASSUME NEW d \in Daemons, reconcileParked(d) PROVE Marked' /\ Apart'
  <2>1. KeepsApart
    BY <1>17, Eff_reconcileParked DEF KeepsApart, Only, KeepsClaim
  <2> QED BY <2>1, ApartKept
<1>18. ASSUME NEW d \in Daemons, reconcileStrandedPaused(d)
       PROVE  Marked' /\ Apart'
  <2>1. KeepsApart
    BY <1>18, Eff_reconcileStrandedPaused DEF KeepsApart, Only, KeepsClaim
  <2> QED BY <2>1, ApartKept
<1>19. ASSUME NEW d \in Daemons, InterruptWorker(d), ops' \in 0..MaxOps
       PROVE  Marked' /\ Apart'
  <2>1. KeepsApart
    BY <1>19, Eff_InterruptWorker DEF KeepsApart, Only, KeepsClaim
  <2> QED BY <2>1, ApartKept
<1>20. ASSUME NEW d \in Daemons, ForceReap(d) PROVE Marked' /\ Apart'
  <2>1. KeepsApart BY <1>20, Eff_ForceReap DEF KeepsApart, Only, KeepsClaim
  <2> QED BY <2>1, ApartKept
<1>21. ASSUME NEW d \in Daemons, NEW f \in fins[d], FinishMove(d, f)
       PROVE  Marked' /\ Apart'
  <2>1. KeepsApart BY <1>21, Eff_FinishMove DEF KeepsApart, Only, KeepsClaim
  <2> QED BY <2>1, ApartKept
<1>22. ASSUME NEW d \in Daemons, NEW f \in fins[d], FinishRelease(d, f)
       PROVE  Marked' /\ Apart'
  <2>1. KeepsApart
    BY <1>22, Eff_FinishRelease DEF KeepsApart, Only, KeepsClaim
  <2> QED BY <2>1, ApartKept
<1>23. ASSUME NEW d \in Daemons, ReapLoad(d) PROVE Marked' /\ Apart'
  <2>1. KeepsApart BY <1>23, Eff_ReapLoad DEF KeepsApart, Only, KeepsClaim
  <2> QED BY <2>1, ApartKept
<1>24. ASSUME NEW d \in Daemons, ReapTake(d) PROVE Marked' /\ Apart'
  <2>1. KeepsApart BY <1>24, Eff_ReapTake DEF KeepsApart, Only, KeepsClaim
  <2> QED BY <2>1, ApartKept
<1>25. ASSUME NEW d \in Daemons, ReapFile(d) PROVE Marked' /\ Apart'
  <2>0. reap[d].to \in Columns BY <1>25 DEF ReapFile, Filing
  <2>1. KeepsApart
    BY <1>25, <2>0, Eff_ReapFile DEF KeepsApart, Only, KeepsClaim
  <2> QED BY <2>1, ApartKept
<1>26. ASSUME NEW d \in Daemons, ReapRelease(d) PROVE Marked' /\ Apart'
  <2>1. KeepsApart BY <1>26, Eff_ReapRelease DEF KeepsApart, Only, KeepsClaim
  <2> QED BY <2>1, ApartKept
<1>27. ASSUME NEW d \in Daemons, CancelRun(d) PROVE Marked' /\ Apart'
  <2>1. KeepsApart BY <1>27, Eff_CancelRun DEF KeepsApart, Only, KeepsClaim
  <2> QED BY <2>1, ApartKept
<1>28. ASSUME LeaseExpires PROVE Marked' /\ Apart'
  <2>1. KeepsApart BY <1>28, Eff_LeaseExpires DEF KeepsApart, Only, KeepsClaim
  <2> QED BY <2>1, ApartKept
<1>29. ASSUME NEW to \in Columns, Drag(to) PROVE Marked' /\ Apart'
  <2>1. KeepsApart BY <1>29, Eff_Drag DEF KeepsApart, Only, KeepsClaim
  <2> QED BY <2>1, ApartKept
<1>30. ASSUME NEW i \in Runs, ConsoleResumes(i) PROVE Marked' /\ Apart'
  <2>1. KeepsApart
    BY <1>30, Eff_ConsoleResumes DEF KeepsApart, Only, KeepsClaim
  <2> QED BY <2>1, ApartKept
<1>31. ASSUME NEW i \in Runs, ConsoleReturns(i) PROVE Marked' /\ Apart'
  <2>1. KeepsApart
    BY <1>31, Eff_ConsoleReturns DEF KeepsApart, Only, KeepsClaim
  <2> QED BY <2>1, ApartKept
<1> QED
  BY <1>1, <1>2, <1>3, <1>4, <1>5, <1>6, <1>7, <1>8, <1>9, <1>10, <1>11,
     <1>12, <1>13, <1>14, <1>15, <1>16, <1>17, <1>18, <1>19, <1>20, <1>21,
     <1>22, <1>23, <1>24, <1>25, <1>26, <1>27, <1>28, <1>29, <1>30, <1>31,
     NextCases, Zenon

-----------------------------------------------------------------------------
(* The claim, without lapses.                                              *)

\* Who dispatches owns the card, under a marker of its own.
LEMMA Holders ==
    ASSUME Resting, Marked, Holding, NEW e \in Daemons,
           pick[e].at = "claimed" \/ entry[e].on
    PROVE  /\ card.claim.by = e /\ ~card.claim.rec /\ card.claim # NoClaim
           /\ up[e] = "up" /\ Dispatches(e, card.claim)
<1>1. OwnToken(e, card.claim) BY DEF Marked, Holding
<1>2. card.claim.by = e /\ ~card.claim.rec /\ card.claim # NoClaim
  BY <1>1, Constants DEF OwnToken
<1>3. up[e] = "up" BY DEF Resting
<1> QED BY <1>2, <1>3 DEF Holding, Dispatches, Alive

\* A step that begins no dispatch.
KeepsDispatches ==
    \A e \in Daemons :
        /\ up'[e] \in {"up", "stopped"} => Alive(e)
        /\ pick'[e].at = "claimed" =>
              pick[e].at = "claimed" /\ pick'[e].tok = pick[e].tok
        /\ entry'[e].on => entry[e].on /\ entry'[e].tok = entry[e].tok
        /\ \A f \in fins'[e] :
              \/ \E g \in fins[e] : f.tok = g.tok
              \/ entry[e].on /\ f.tok = entry[e].tok

\* Such a step keeps the lease, if it leaves the claim alone.
LEMMA LeaseKept ==
    ASSUME Fresh, Holding, card'.claim = card.claim,
           card'.fresh = card.fresh \/ card'.fresh = TRUE, KeepsDispatches
    PROVE  Fresh' /\ Holding'
<1>1. Holding' BY DEF Holding, KeepsDispatches
<1>2. ASSUME NEW e \in Daemons, Dispatches(e, card.claim)'
      PROVE  Dispatches(e, card.claim)
  BY <1>2 DEF Dispatches, Alive, KeepsDispatches
<1>3. Fresh' BY <1>2 DEF Fresh
<1> QED BY <1>1, <1>3

\* A step that changes a claim under which nobody dispatches any more.
LEMMA LeaseDropped ==
    ASSUME card'.claim = NoClaim \/ card'.fresh = TRUE,
           \A e \in Daemons : pick'[e].at # "claimed" /\ ~entry'[e].on
    PROVE  Fresh' /\ Holding'
  BY DEF Fresh, Holding, Dispatches

\* The claim stays with its dispatch, after every step.
LEMMA LeaseStep ==
    ASSUME ~Lapses, TypeOK, Finite, Filing, Pending, Resting, OneCommand,
           Marked, Apart, Fresh, Holding, Next
    PROVE  Fresh' /\ Holding'
<1>1. ASSUME NEW d \in Daemons, Start(d) PROVE Fresh' /\ Holding'
  <2>1. /\ Only(d) /\ up[d] = "off" /\ UNCHANGED <<pick, entry, fins>>
        /\ KeepsClaim \/ (up[card.claim.by] = "dead" /\ card'.claim = NoClaim)
    BY <1>1, Eff_Start
  <2>2. ~entry[d].on /\ pick[d].at = "none" /\ fins[d] = {}
    BY <2>1 DEF Resting, Alive
  <2>3. CASE KeepsClaim
    <3>1. \A e \in Daemons : Dispatches(e, card.claim)' => Dispatches(e, card.claim)
      BY <2>1, <2>2, <2>3 DEF KeepsClaim, Only, Dispatches, Alive
    <3> QED BY <2>1, <2>3, <3>1 DEF Fresh, Holding, KeepsClaim
  <2>4. CASE up[card.claim.by] = "dead" /\ card'.claim = NoClaim
    <3>1. \A e \in Daemons : pick'[e].at # "claimed" /\ ~entry'[e].on
      BY <2>1, <2>4, Holders
    <3> QED BY <2>4, <3>1, LeaseDropped
  <2> QED BY <2>1, <2>3, <2>4
<1>2. ASSUME NEW d \in Daemons, Crash(d) PROVE Fresh' /\ Holding'
  <2>1. KeepsDispatches BY <1>2, Eff_Crash DEF KeepsDispatches, Only, Alive
  <2>2. card'.claim = card.claim /\ (card'.fresh = card.fresh \/ card'.fresh = TRUE)
    BY <1>2, Eff_Crash DEF KeepsClaim
  <2> QED BY <2>1, <2>2, LeaseKept
<1>3. ASSUME NEW d \in Daemons, Shutdown(d) PROVE Fresh' /\ Holding'
  <2>1. KeepsDispatches BY <1>3, Eff_Shutdown DEF KeepsDispatches, Only, Alive
  <2>2. card'.claim = card.claim /\ (card'.fresh = card.fresh \/ card'.fresh = TRUE)
    BY <1>3, Eff_Shutdown DEF KeepsClaim
  <2> QED BY <2>1, <2>2, LeaseKept
<1>4. ASSUME NEW d \in Daemons, Renew(d) PROVE Fresh' /\ Holding'
  <2>1. KeepsDispatches BY <1>4, Eff_Renew DEF KeepsDispatches, Only, Alive
  <2>2. card'.claim = card.claim /\ (card'.fresh = card.fresh \/ card'.fresh = TRUE)
    BY <1>4, Eff_Renew DEF KeepsClaim
  <2> QED BY <2>1, <2>2, LeaseKept
<1>5. ASSUME NEW d \in Daemons, ListCandidates(d) PROVE Fresh' /\ Holding'
  <2>1. KeepsDispatches
    BY <1>5, Eff_ListCandidates DEF KeepsDispatches, Only, Alive
  <2>2. card'.claim = card.claim /\ (card'.fresh = card.fresh \/ card'.fresh = TRUE)
    BY <1>5, Eff_ListCandidates DEF KeepsClaim
  <2> QED BY <2>1, <2>2, LeaseKept
<1>6. ASSUME NEW d \in Daemons, lastRunHoldBeforeClaim(d)
      PROVE  Fresh' /\ Holding'
  <2>1. KeepsDispatches
    BY <1>6, Eff_lastRunHoldBeforeClaim DEF KeepsDispatches, Only, Alive
  <2>2. card'.claim = card.claim /\ (card'.fresh = card.fresh \/ card'.fresh = TRUE)
    BY <1>6, Eff_lastRunHoldBeforeClaim DEF KeepsClaim
  <2> QED BY <2>1, <2>2, LeaseKept
<1>7. ASSUME NEW d \in Daemons, ClaimCard(d) PROVE Fresh' /\ Holding'
  <2>1. /\ Only(d) /\ UNCHANGED <<up, entry, fins>> /\ pick[d].at = "checked"
        /\ \/ /\ pick'[d].tok = card'.claim /\ card'.fresh = TRUE
              /\ card.claim = NoClaim \/ card'.claim = card.claim
           \/ pick'[d].at = "none" /\ KeepsClaim
    BY <1>7, Eff_ClaimCard
  <2>2. CASE pick'[d].at = "none" /\ KeepsClaim
    BY <2>1, <2>2, LeaseKept DEF Only, KeepsClaim, Alive, KeepsDispatches
  <2>3. CASE /\ pick'[d].tok = card'.claim /\ card'.fresh = TRUE
             /\ card.claim = NoClaim \/ card'.claim = card.claim
    <3>1. Fresh' BY <2>3 DEF Fresh
    <3>2. ~entry[d].on BY <2>1 DEF OneCommand
    <3>3. ASSUME NEW e \in Daemons, e # d, pick[e].at = "claimed" \/ entry[e].on
          PROVE  card'.claim = card.claim
      BY <2>3, <3>3, Holders
    <3>4. Holding' BY <2>1, <2>3, <3>2, <3>3 DEF Holding, Only
    <3> QED BY <3>1, <3>4
  <2> QED BY <2>1, <2>2, <2>3
<1>8. ASSUME NEW d \in Daemons, resolveRunID(d) PROVE Fresh' /\ Holding'
  <2>1. /\ Only(d) /\ UNCHANGED <<up, fins>>
        /\ pick[d].at = "claimed" /\ pick'[d].at = "none"
        /\ \/ KeepsClaim /\ UNCHANGED entry
           \/ KeepsClaim /\ entry'[d].tok = pick[d].tok
           \/ card'.claim = NoClaim /\ UNCHANGED entry
    BY <1>8, Eff_resolveRunID
  <2>2. card.claim.by = d BY <2>1, Holders
  <2>3. \A e \in Daemons : e # d => pick'[e].at # "claimed" /\ ~entry'[e].on
    BY <2>1, <2>2, Holders DEF Only
  <2>4. ~entry[d].on BY <2>1 DEF OneCommand
  <2>5. CASE card'.claim = NoClaim /\ UNCHANGED entry
    BY <2>1, <2>3, <2>4, <2>5, LeaseDropped
  <2>6. CASE KeepsClaim /\ (UNCHANGED entry \/ entry'[d].tok = pick[d].tok)
    <3>1. card.fresh BY <2>1, Holders DEF Fresh
    <3>2. Fresh' BY <2>6, <3>1 DEF Fresh, KeepsClaim
    <3>3. entry'[d].on => entry'[d].tok = card'.claim
      BY <2>1, <2>4, <2>6 DEF Holding, KeepsClaim
    <3>4. Holding' BY <2>1, <2>3, <3>3 DEF Holding
    <3> QED BY <3>2, <3>4
  <2> QED BY <2>1, <2>5, <2>6
<1>9. ASSUME NEW d \in Daemons, runDispatchSetup(d) PROVE Fresh' /\ Holding'
  <2>1. KeepsDispatches
    BY <1>9, Eff_runDispatchSetup DEF KeepsDispatches, Only, Alive
  <2>2. card'.claim = card.claim /\ (card'.fresh = card.fresh \/ card'.fresh = TRUE)
    BY <1>9, Eff_runDispatchSetup DEF KeepsClaim
  <2> QED BY <2>1, <2>2, LeaseKept
<1>10. ASSUME NEW d \in Daemons, NotStarted(d) PROVE Fresh' /\ Holding'
  <2>1. KeepsDispatches
    BY <1>10, Eff_NotStarted DEF KeepsDispatches, Only, Alive
  <2>2. card'.claim = card.claim /\ (card'.fresh = card.fresh \/ card'.fresh = TRUE)
    BY <1>10, Eff_NotStarted DEF KeepsClaim
  <2> QED BY <2>1, <2>2, LeaseKept
<1>11. ASSUME NEW d \in Daemons, EngineStarts(d) PROVE Fresh' /\ Holding'
  <2>1. KeepsDispatches
    BY <1>11, Eff_EngineStarts DEF KeepsDispatches, Only, Alive
  <2>2. card'.claim = card.claim /\ (card'.fresh = card.fresh \/ card'.fresh = TRUE)
    BY <1>11, Eff_EngineStarts DEF KeepsClaim
  <2> QED BY <2>1, <2>2, LeaseKept
<1>12. ASSUME NEW d \in Daemons, EngineReturns(d) PROVE Fresh' /\ Holding'
  <2>1. KeepsDispatches
    BY <1>12, Eff_EngineReturns DEF KeepsDispatches, Only, Alive
  <2>2. card'.claim = card.claim /\ (card'.fresh = card.fresh \/ card'.fresh = TRUE)
    BY <1>12, Eff_EngineReturns DEF KeepsClaim
  <2> QED BY <2>1, <2>2, LeaseKept
<1>13. ASSUME NEW d \in Daemons, WorkerEnds(d) PROVE Fresh' /\ Holding'
  <2>1. KeepsDispatches
    BY <1>13, Eff_WorkerEnds DEF KeepsDispatches, Only, Alive
  <2>2. card'.claim = card.claim /\ (card'.fresh = card.fresh \/ card'.fresh = TRUE)
    BY <1>13, Eff_WorkerEnds DEF KeepsClaim
  <2> QED BY <2>1, <2>2, LeaseKept
<1>14. ASSUME NEW d \in Daemons, SetupDone(d) PROVE Fresh' /\ Holding'
  <2>0. entry[d].on BY <1>14 DEF SetupDone, Pending
  <2>1. KeepsDispatches
    BY <1>14, <2>0, Eff_SetupDone DEF KeepsDispatches, Only, Alive
  <2>2. card'.claim = card.claim /\ (card'.fresh = card.fresh \/ card'.fresh = TRUE)
    BY <1>14, <2>0, Eff_SetupDone DEF KeepsClaim
  <2> QED BY <2>1, <2>2, LeaseKept
<1>15. ASSUME NEW d \in Daemons, RunFinished(d) PROVE Fresh' /\ Holding'
  <2>1. KeepsDispatches
    BY <1>15, Eff_RunFinished DEF KeepsDispatches, Only, Alive
  <2>2. card'.claim = card.claim /\ (card'.fresh = card.fresh \/ card'.fresh = TRUE)
    BY <1>15, Eff_RunFinished DEF KeepsClaim
  <2> QED BY <2>1, <2>2, LeaseKept
<1>16. ASSUME NEW d \in Daemons, RetryDue(d) PROVE Fresh' /\ Holding'
  <2>1. KeepsDispatches
    BY <1>16, Eff_RetryDue DEF KeepsDispatches, Only, Alive
  <2>2. card'.claim = card.claim /\ (card'.fresh = card.fresh \/ card'.fresh = TRUE)
    BY <1>16, Eff_RetryDue DEF KeepsClaim
  <2> QED BY <2>1, <2>2, LeaseKept
<1>17. ASSUME NEW d \in Daemons, reconcileParked(d) PROVE Fresh' /\ Holding'
  <2>1. KeepsDispatches
    BY <1>17, Eff_reconcileParked DEF KeepsDispatches, Only, Alive
  <2>2. CASE KeepsClaim
    BY <2>1, <2>2, LeaseKept DEF KeepsClaim
  <2>3. CASE ~KeepsClaim
    <3>1. card'.claim = NoClaim BY <1>17, <2>3, Eff_reconcileParked
    <3>2. \A e \in Daemons : pick'[e].at # "claimed" /\ ~entry'[e].on
      BY <1>17, <2>3, Eff_reconcileParked, Holders DEF Actor
    <3> QED BY <3>1, <3>2, LeaseDropped
  <2> QED BY <2>2, <2>3
<1>18. ASSUME NEW d \in Daemons, reconcileStrandedPaused(d)
       PROVE  Fresh' /\ Holding'
  <2>1. /\ card.claim = NoClaim /\ card'.fresh = TRUE /\ UNCHANGED <<pick, entry>>
    BY <1>18, Eff_reconcileStrandedPaused
  <2>2. \A e \in Daemons : pick'[e].at # "claimed" /\ ~entry'[e].on
    BY <2>1, Holders
  <2> QED BY <2>1, <2>2, LeaseDropped
<1>19. ASSUME NEW d \in Daemons, InterruptWorker(d), ops' \in 0..MaxOps
       PROVE  Fresh' /\ Holding'
  <2>1. KeepsDispatches
    BY <1>19, Eff_InterruptWorker DEF KeepsDispatches, Only, Alive
  <2>2. card'.claim = card.claim /\ (card'.fresh = card.fresh \/ card'.fresh = TRUE)
    BY <1>19, Eff_InterruptWorker DEF KeepsClaim
  <2> QED BY <2>1, <2>2, LeaseKept
<1>20. ASSUME NEW d \in Daemons, ForceReap(d) PROVE Fresh' /\ Holding'
  <2>1. KeepsDispatches
    BY <1>20, Eff_ForceReap DEF KeepsDispatches, Only, Alive
  <2>2. card'.claim = card.claim /\ (card'.fresh = card.fresh \/ card'.fresh = TRUE)
    BY <1>20, Eff_ForceReap DEF KeepsClaim
  <2> QED BY <2>1, <2>2, LeaseKept
<1>21. ASSUME NEW d \in Daemons, NEW f \in fins[d], FinishMove(d, f)
       PROVE  Fresh' /\ Holding'
  <2>1. KeepsDispatches
    BY <1>21, Eff_FinishMove DEF KeepsDispatches, Only, Alive
  <2>2. card'.claim = card.claim /\ (card'.fresh = card.fresh \/ card'.fresh = TRUE)
    BY <1>21, Eff_FinishMove DEF KeepsClaim
  <2> QED BY <2>1, <2>2, LeaseKept
<1>22. ASSUME NEW d \in Daemons, NEW f \in fins[d], FinishRelease(d, f)
       PROVE  Fresh' /\ Holding'
  <2>1. /\ Only(d) /\ UNCHANGED <<up, pick, entry>> /\ fins'[d] \subseteq fins[d]
        /\ KeepsClaim \/ (card.claim = f.tok /\ card'.claim = NoClaim)
    BY <1>22, Eff_FinishRelease
  <2>2. CASE KeepsClaim
    BY <2>1, <2>2, LeaseKept DEF Only, KeepsClaim, Alive, KeepsDispatches
  <2>3. CASE card.claim = f.tok /\ card'.claim = NoClaim
    <3>1. card.claim.by = d BY <2>3 DEF Marked, OwnToken
    <3>2. pick[d].at # "claimed" /\ ~entry[d].on BY <2>3 DEF Apart, Holding
    <3>3. \A e \in Daemons : pick'[e].at # "claimed" /\ ~entry'[e].on
      BY <2>1, <3>1, <3>2, Holders
    <3> QED BY <2>3, <3>3, LeaseDropped
  <2> QED BY <2>1, <2>2, <2>3
<1>23. ASSUME NEW d \in Daemons, ReapLoad(d) PROVE Fresh' /\ Holding'
  <2>1. KeepsDispatches
    BY <1>23, Eff_ReapLoad DEF KeepsDispatches, Only, Alive
  <2>2. card'.claim = card.claim /\ (card'.fresh = card.fresh \/ card'.fresh = TRUE)
    BY <1>23, Eff_ReapLoad DEF KeepsClaim
  <2> QED BY <2>1, <2>2, LeaseKept
<1>24. ASSUME NEW d \in Daemons, ReapTake(d) PROVE Fresh' /\ Holding'
  <2>1. /\ UNCHANGED <<up, pick, entry, fins>>
        /\ (~card.fresh /\ card'.fresh = TRUE) \/ KeepsClaim
    BY <1>24, Eff_ReapTake
  <2>2. CASE KeepsClaim
    BY <2>1, <2>2, LeaseKept DEF KeepsClaim, Alive, KeepsDispatches
  <2>3. CASE ~card.fresh /\ card'.fresh = TRUE
    <3>1. \A e \in Daemons : pick'[e].at # "claimed" /\ ~entry'[e].on
      BY <2>1, <2>3, Holders DEF Fresh
    <3> QED BY <2>3, <3>1, LeaseDropped
  <2> QED BY <2>1, <2>2, <2>3
<1>25. ASSUME NEW d \in Daemons, ReapFile(d) PROVE Fresh' /\ Holding'
  <2>0. reap[d].to \in Columns BY <1>25 DEF ReapFile, Filing
  <2>1. KeepsDispatches
    BY <1>25, <2>0, Eff_ReapFile DEF KeepsDispatches, Only, Alive
  <2>2. card'.claim = card.claim /\ (card'.fresh = card.fresh \/ card'.fresh = TRUE)
    BY <1>25, <2>0, Eff_ReapFile DEF KeepsClaim
  <2> QED BY <2>1, <2>2, LeaseKept
<1>26. ASSUME NEW d \in Daemons, ReapRelease(d) PROVE Fresh' /\ Holding'
  <2>1. /\ UNCHANGED <<up, pick, entry, fins>> /\ reap[d].at = "release"
        /\ KeepsClaim \/ (card.claim = reap[d].prev /\ card'.claim = NoClaim)
    BY <1>26, Eff_ReapRelease
  <2>2. CASE KeepsClaim
    BY <2>1, <2>2, LeaseKept DEF KeepsClaim, Alive, KeepsDispatches
  <2>3. CASE card.claim = reap[d].prev /\ card'.claim = NoClaim
    <3>1. \A e \in Daemons : pick'[e].at # "claimed" /\ ~entry'[e].on
      BY <2>1, <2>3, Holders DEF Marked
    <3> QED BY <2>3, <3>1, LeaseDropped
  <2> QED BY <2>1, <2>2, <2>3
<1>27. ASSUME NEW d \in Daemons, CancelRun(d) PROVE Fresh' /\ Holding'
  <2>1. KeepsDispatches
    BY <1>27, Eff_CancelRun DEF KeepsDispatches, Only, Alive
  <2>2. card'.claim = card.claim /\ (card'.fresh = card.fresh \/ card'.fresh = TRUE)
    BY <1>27, Eff_CancelRun DEF KeepsClaim
  <2> QED BY <2>1, <2>2, LeaseKept
<1>28. ASSUME LeaseExpires PROVE Fresh' /\ Holding'
  <2>1. /\ UNCHANGED <<up, pick, entry, fins>> /\ card'.claim = card.claim
        /\ \A d \in Daemons : ~Dispatches(d, card.claim)
    BY <1>28, Eff_LeaseExpires
  <2> QED BY <2>1 DEF Fresh, Holding, Dispatches, Alive
<1>29. ASSUME NEW to \in Columns, Drag(to) PROVE Fresh' /\ Holding'
  <2>1. KeepsDispatches BY <1>29, Eff_Drag DEF KeepsDispatches, Only, Alive
  <2>2. card'.claim = card.claim /\ (card'.fresh = card.fresh \/ card'.fresh = TRUE)
    BY <1>29, Eff_Drag DEF KeepsClaim
  <2> QED BY <2>1, <2>2, LeaseKept
<1>30. ASSUME NEW i \in Runs, ConsoleResumes(i) PROVE Fresh' /\ Holding'
  <2>1. KeepsDispatches
    BY <1>30, Eff_ConsoleResumes DEF KeepsDispatches, Only, Alive
  <2>2. card'.claim = card.claim /\ (card'.fresh = card.fresh \/ card'.fresh = TRUE)
    BY <1>30, Eff_ConsoleResumes DEF KeepsClaim
  <2> QED BY <2>1, <2>2, LeaseKept
<1>31. ASSUME NEW i \in Runs, ConsoleReturns(i) PROVE Fresh' /\ Holding'
  <2>1. KeepsDispatches
    BY <1>31, Eff_ConsoleReturns DEF KeepsDispatches, Only, Alive
  <2>2. card'.claim = card.claim /\ (card'.fresh = card.fresh \/ card'.fresh = TRUE)
    BY <1>31, Eff_ConsoleReturns DEF KeepsClaim
  <2> QED BY <2>1, <2>2, LeaseKept
<1> QED
  BY <1>1, <1>2, <1>3, <1>4, <1>5, <1>6, <1>7, <1>8, <1>9, <1>10, <1>11,
     <1>12, <1>13, <1>14, <1>15, <1>16, <1>17, <1>18, <1>19, <1>20, <1>21,
     <1>22, <1>23, <1>24, <1>25, <1>26, <1>27, <1>28, <1>29, <1>30, <1>31,
     NextCases, Zenon

-----------------------------------------------------------------------------
(* How a claim ends.                                                       *)

\* The action of ClaimEndsWithItsDispatch.
ClaimEnds ==
    \A c \in Daemons :
        entry[c].on /\ Owned(entry[c].tok) /\ card'.claim # card.claim
        => ~entry'[c].on \/ (~card.fresh /\ card'.claim.rec)

\* The claim of a dispatch bears its daemon's own marker.
LEMMA DispatchMarker ==
    ASSUME Resting, Marked, NEW c \in Daemons, entry[c].on, Owned(entry[c].tok)
    PROVE  /\ card.claim = entry[c].tok /\ card.claim.by = c /\ ~card.claim.rec
           /\ card.claim # NoClaim /\ up[c] = "up"
  BY Constants DEF Resting, Marked, OwnToken, Owned

\* Every step ends a claim the way it may.
LEMMA ClaimStep ==
    ASSUME TypeOK, Finite, Filing, Pending, Resting, OneCommand,
           Marked, Apart, Next
    PROVE  ClaimEnds
<1>1. ASSUME NEW d \in Daemons, Start(d) PROVE ClaimEnds
  BY <1>1, Eff_Start, DispatchMarker DEF ClaimEnds, KeepsClaim
<1>2. ASSUME NEW d \in Daemons, Crash(d) PROVE ClaimEnds
  BY <1>2, Eff_Crash DEF ClaimEnds, KeepsClaim
<1>3. ASSUME NEW d \in Daemons, Shutdown(d) PROVE ClaimEnds
  BY <1>3, Eff_Shutdown DEF ClaimEnds, KeepsClaim
<1>4. ASSUME NEW d \in Daemons, Renew(d) PROVE ClaimEnds
  BY <1>4, Eff_Renew DEF ClaimEnds, KeepsClaim
<1>5. ASSUME NEW d \in Daemons, ListCandidates(d) PROVE ClaimEnds
  BY <1>5, Eff_ListCandidates DEF ClaimEnds, KeepsClaim
<1>6. ASSUME NEW d \in Daemons, lastRunHoldBeforeClaim(d) PROVE ClaimEnds
  BY <1>6, Eff_lastRunHoldBeforeClaim DEF ClaimEnds, KeepsClaim
<1>7. ASSUME NEW d \in Daemons, ClaimCard(d) PROVE ClaimEnds
  <2>1. card'.claim = card.claim \/ card.claim = NoClaim
    BY <1>7, Eff_ClaimCard DEF KeepsClaim
  <2> QED BY <2>1, DispatchMarker DEF ClaimEnds
<1>8. ASSUME NEW d \in Daemons, resolveRunID(d) PROVE ClaimEnds
  <2>1. /\ pick[d].at = "claimed"
        /\ card'.claim = card.claim \/ card.claim.by = d
    BY <1>8, Eff_resolveRunID DEF KeepsClaim
  <2> QED BY <2>1, DispatchMarker DEF ClaimEnds, OneCommand
<1>9. ASSUME NEW d \in Daemons, runDispatchSetup(d) PROVE ClaimEnds
  BY <1>9, Eff_runDispatchSetup DEF ClaimEnds, KeepsClaim
<1>10. ASSUME NEW d \in Daemons, NotStarted(d) PROVE ClaimEnds
  BY <1>10, Eff_NotStarted DEF ClaimEnds, KeepsClaim
<1>11. ASSUME NEW d \in Daemons, EngineStarts(d) PROVE ClaimEnds
  BY <1>11, Eff_EngineStarts DEF ClaimEnds, KeepsClaim
<1>12. ASSUME NEW d \in Daemons, EngineReturns(d) PROVE ClaimEnds
  BY <1>12, Eff_EngineReturns DEF ClaimEnds, KeepsClaim
<1>13. ASSUME NEW d \in Daemons, WorkerEnds(d) PROVE ClaimEnds
  BY <1>13, Eff_WorkerEnds DEF ClaimEnds, KeepsClaim
<1>14. ASSUME NEW d \in Daemons, SetupDone(d) PROVE ClaimEnds
  BY <1>14, Eff_SetupDone DEF ClaimEnds, KeepsClaim
<1>15. ASSUME NEW d \in Daemons, RunFinished(d) PROVE ClaimEnds
  BY <1>15, Eff_RunFinished DEF ClaimEnds, KeepsClaim
<1>16. ASSUME NEW d \in Daemons, RetryDue(d) PROVE ClaimEnds
  BY <1>16, Eff_RetryDue DEF ClaimEnds, KeepsClaim
<1>17. ASSUME NEW d \in Daemons, reconcileParked(d) PROVE ClaimEnds
  <2>1. ~entry[d].on /\ (card'.claim = card.claim \/ card.claim.by = d)
    BY <1>17, Eff_reconcileParked DEF KeepsClaim
  <2> QED BY <2>1, DispatchMarker DEF ClaimEnds
<1>18. ASSUME NEW d \in Daemons, reconcileStrandedPaused(d) PROVE ClaimEnds
  <2>1. card.claim = NoClaim BY <1>18, Eff_reconcileStrandedPaused
  <2> QED BY <2>1, DispatchMarker DEF ClaimEnds
<1>19. ASSUME NEW d \in Daemons, InterruptWorker(d), ops' \in 0..MaxOps
       PROVE  ClaimEnds
  BY <1>19, Eff_InterruptWorker DEF ClaimEnds, KeepsClaim
<1>20. ASSUME NEW d \in Daemons, ForceReap(d) PROVE ClaimEnds
  BY <1>20, Eff_ForceReap DEF ClaimEnds, KeepsClaim
<1>21. ASSUME NEW d \in Daemons, NEW f \in fins[d], FinishMove(d, f)
       PROVE  ClaimEnds
  BY <1>21, Eff_FinishMove DEF ClaimEnds, KeepsClaim
<1>22. ASSUME NEW d \in Daemons, NEW f \in fins[d], FinishRelease(d, f)
       PROVE  ClaimEnds
  <2>1. card'.claim = card.claim \/ card.claim = f.tok
    BY <1>22, Eff_FinishRelease DEF KeepsClaim
  <2>2. f.tok.by = d BY <1>22 DEF Marked, OwnToken
  <2> QED BY <2>1, <2>2, DispatchMarker DEF ClaimEnds, Apart
<1>23. ASSUME NEW d \in Daemons, ReapLoad(d) PROVE ClaimEnds
  BY <1>23, Eff_ReapLoad DEF ClaimEnds, KeepsClaim
<1>24. ASSUME NEW d \in Daemons, ReapTake(d) PROVE ClaimEnds
  BY <1>24, Eff_ReapTake DEF ClaimEnds, KeepsClaim
<1>25. ASSUME NEW d \in Daemons, ReapFile(d) PROVE ClaimEnds
  <2>1. reap[d].to \in Columns BY <1>25 DEF ReapFile, Filing
  <2> QED BY <1>25, <2>1, Eff_ReapFile DEF ClaimEnds, KeepsClaim
<1>26. ASSUME NEW d \in Daemons, ReapRelease(d) PROVE ClaimEnds
  <2>1. /\ reap[d].at = "release"
        /\ card'.claim = card.claim \/ card.claim = reap[d].prev
    BY <1>26, Eff_ReapRelease DEF KeepsClaim
  <2> QED BY <2>1, DispatchMarker DEF ClaimEnds, Marked
<1>27. ASSUME NEW d \in Daemons, CancelRun(d) PROVE ClaimEnds
  BY <1>27, Eff_CancelRun DEF ClaimEnds, KeepsClaim
<1>28. ASSUME LeaseExpires PROVE ClaimEnds
  BY <1>28, Eff_LeaseExpires DEF ClaimEnds, KeepsClaim
<1>29. ASSUME NEW to \in Columns, Drag(to) PROVE ClaimEnds
  BY <1>29, Eff_Drag DEF ClaimEnds, KeepsClaim
<1>30. ASSUME NEW i \in Runs, ConsoleResumes(i) PROVE ClaimEnds
  BY <1>30, Eff_ConsoleResumes DEF ClaimEnds, KeepsClaim
<1>31. ASSUME NEW i \in Runs, ConsoleReturns(i) PROVE ClaimEnds
  BY <1>31, Eff_ConsoleReturns DEF ClaimEnds, KeepsClaim
<1> QED
  BY <1>1, <1>2, <1>3, <1>4, <1>5, <1>6, <1>7, <1>8, <1>9, <1>10, <1>11,
     <1>12, <1>13, <1>14, <1>15, <1>16, <1>17, <1>18, <1>19, <1>20, <1>21,
     <1>22, <1>23, <1>24, <1>25, <1>26, <1>27, <1>28, <1>29, <1>30, <1>31,
     NextCases, Zenon

-----------------------------------------------------------------------------
(* The invariant is inductive, and what follows from it.                   *)

\* No process has started, nothing is claimed.
LEMMA Initially ==
    ASSUME Init
    PROVE  IndInv
<1>1. TypeOK
  <2>1. 0 \in 0..NRuns /\ 0 \in 0..MaxOps BY DispatcherAssumption
  <2>2. card \in Cards BY Constants DEF Init, Cards, Columns, RunPointers
  <2> QED BY <2>1, <2>2, Constants DEF Init, TypeOK, RunStatuses
<1>2. Finite BY FS_EmptySet DEF Init, Finite
<1>3. /\ \A d \in Daemons :
            /\ up[d] = "off" /\ pick[d].at = "none" /\ ~entry[d].on
            /\ ~entry[d].pending /\ work[d].pc = "none" /\ fins[d] = {}
            /\ reap[d].at = "none"
      /\ \A i \in Runs : lock[i] = None
      /\ None \notin Daemons
  BY Constants DEF Init
<1>4. Filing /\ Pending /\ Resting /\ OneCommand /\ Accounted
  BY <1>3 DEF Filing, Pending, Resting, OneCommand, Accounted
<1>5. LocksHeld BY <1>3 DEF LocksHeld, Engaged
<1>6. TurnInv BY <1>3 DEF TurnInv, InTurn, Pointer, Executing
<1>7. Marked /\ Apart BY <1>3 DEF Marked, Apart
<1>8. LeaseInv
  BY <1>3 DEF LeaseInv, Fresh, Holding, Dispatches
<1> QED BY <1>1, <1>2, <1>4, <1>5, <1>6, <1>7, <1>8 DEF IndInv

\* Every step keeps it.
LEMMA Inductive ==
    ASSUME IndInv, [Next]_vars
    PROVE  IndInv'
<1>1. CASE Next
  <2>1. TypeOK' /\ Finite' BY <1>1, TypesStep DEF IndInv
  <2>2. Pending' BY <1>1, PendingStep DEF IndInv
  <2>3. Filing' /\ Resting' /\ OneCommand' /\ Accounted'
    BY <1>1, LifeStep DEF IndInv
  <2>4. LocksHeld' BY <1>1, LocksStep DEF IndInv
  <2>5. TurnInv' BY <1>1, TurnStep DEF IndInv, TurnInv
  <2>6. Marked' /\ Apart' BY <1>1, ApartStep DEF IndInv
  <2>7. LeaseInv' BY <1>1, LeaseStep DEF IndInv, LeaseInv
  <2> QED BY <2>1, <2>2, <2>3, <2>4, <2>5, <2>6, <2>7 DEF IndInv
<1>2. CASE UNCHANGED vars
  <2>1. TypeOK' /\ Finite' BY <1>2 DEF IndInv, vars, TypeOK, Finite
  <2>2. Filing' /\ Pending' /\ Resting' /\ OneCommand' /\ Accounted'
    BY <1>2 DEF IndInv, vars, Filing, Pending, Resting, OneCommand, Accounted,
                Alive
  <2>3. LocksHeld' BY <1>2 DEF IndInv, vars, LocksHeld, Engaged
  <2>4. TurnInv'
    BY <1>2 DEF IndInv, vars, TurnInv, InTurn, Pointer, Executing
  <2>5. Marked' /\ Apart' BY <1>2 DEF IndInv, vars, Marked, Apart
  <2>6. LeaseInv'
    BY <1>2 DEF IndInv, vars, LeaseInv, Fresh, Holding, Dispatches, Alive
  <2> QED BY <2>1, <2>2, <2>3, <2>4, <2>5, <2>6 DEF IndInv
<1> QED BY <1>1, <1>2

\* The inductive invariant holds in every behaviour.
LEMMA Invariant == Spec => []IndInv
<1>1. Init => IndInv BY Initially
<1>2. IndInv /\ [Next]_vars => IndInv' BY Inductive
<1> QED BY <1>1, <1>2, PTL DEF Spec

\* Every variable keeps its type, in every behaviour.
THEOREM TypeCorrect == Spec => []TypeOK
<1>1. IndInv => TypeOK BY DEF IndInv
<1> QED BY <1>1, Invariant, PTL

\* When one daemon starts only after the last one has stopped or died, the
\* card never has two engines executing nodes (loop.go, lastRunHoldBeforeClaim
\* and the run's lock), however leases lapse and whatever a stopped daemon
\* leaves unwinding.
THEOREM OneEngineHolds ==
    ASSUME ~Overlap
    PROVE  Spec => []OneEngine
<1>1. IndInv => OneEngine
  <2> SUFFICES ASSUME IndInv, NEW d \in Daemons, NEW e \in Daemons,
                      Executing(d), Executing(e)
               PROVE  d = e
    BY DEF OneEngine
  <2>1. card.last = work[d].run /\ card.last = work[e].run
    BY DEF IndInv, TurnInv, Pointer
  <2>2. lock[work[d].run] = d /\ lock[work[e].run] = e
    BY DEF IndInv, LocksHeld, Engaged, Executing
  <2> QED BY <2>1, <2>2
<1> QED BY <1>1, Invariant, PTL

\* Without lapses, a dispatch owns the card for as long as its run is in
\* progress (claimsession.go).
THEOREM DispatchOwnsHolds ==
    ASSUME ~Lapses
    PROVE  Spec => []DispatchOwnsCard
<1>1. IndInv => DispatchOwnsCard
  BY DEF IndInv, LeaseInv, Holding, DispatchOwnsCard, Owned
<1> QED BY <1>1, Invariant, PTL

\* The claim of a dispatch in progress is ended by that dispatch or, expired,
\* taken over by the watchdog: never by a finish worker, a release by marker or
\* a boot sweep (native/store_lifecycle.go, ownedIssueLocked), whatever lapses.
THEOREM ClaimEndsHolds == Spec => ClaimEndsWithItsDispatch
<1>1. IndInv /\ [Next]_vars =>
        [\A d \in Daemons :
            entry[d].on /\ Owned(entry[d].tok) /\ card'.claim # card.claim
            => ~entry'[d].on \/ (~card.fresh /\ card'.claim.rec)]_vars
  BY ClaimStep DEF IndInv, ClaimEnds
<1> QED BY <1>1, Invariant, PTL DEF Spec, ClaimEndsWithItsDispatch

=============================================================================
