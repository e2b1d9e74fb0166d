----------------------- MODULE CasCoordinatorProofs -----------------------
(***************************************************************************)
(* Proofs about the CAS membership coordinator.  The argument is that of a *)
(* read-modify-write: a conditional write that can still be accepted was   *)
(* computed from the very document it replaces, so it is, at all times, a  *)
(* legal edit of the present one.  What makes an edit legal (an observer's *)
(* full window of silence, a process that is leaving) stays true for as    *)
(* long as the document does not change.                                   *)
(***************************************************************************)
EXTENDS CasCoordinator, TLAPS

\* Most leaves are first-order: Zenon finds them fast.  The others name SMT.
USE Zenon

ThreadMaps == [Procs -> [Threads -> ThreadStates]]

Leaving == {"closing", "closed", "dead"}

Withdrawn(i) == \E p \in conf.leaving : IdOf[p] = i /\ status[p] \in Leaving

SeenSilent(i) == rows[i] # None /\ \E q \in Procs : IdOf[q] # i /\ Silent(q, i)

Advances(d) ==
  \A i \in IDs : rows[i] # None /\ d[i] # None =>
     d[i].gen >= rows[i].gen /\ (d[i].inc # rows[i].inc => d[i].gen > rows[i].gen)

\* Replacing the present document by d reaps silent rows, or edits one row.
Legal(d) ==
  /\ Advances(d)
  /\ \A i \in IDs : d[i] # rows[i] =>
       \/ d[i] = None /\ SeenSilent(i)
       \/ (\A j \in IDs \ {i} : d[j] = rows[j]) /\ (d[i] = None => Withdrawn(i))

Sent(th) == th.pc = "write" /\ th.fresh

Waiting(d) == d \in late \/ \E p \in Procs, t \in Threads : Sent(thr[p][t]) /\ thr[p][t].next = d

\* Every write that can still be accepted is a legal edit of the document.
Pending == \A d \in Documents : Waiting(d) => Legal(d)

\* Where a process is: a bootstrap writes its own row, and only a process that
\* may leave is ever closing.
Lives ==
  \A p \in Procs :
    /\ status[p] = "closing" => p \in conf.leaving
    /\ status[p] = "booting" => selfInc[p] \in Incs
    /\ status[p] = "booting" /\ Sent(thr[p]["main"]) => thr[p]["main"].next[IdOf[p]] # None

IInv == TypeOK /\ Pending /\ Lives /\ SelfInView

-----------------------------------------------------------------------------
\* Documents and rows.

LEMMA NoneIsNoRow == None \notin Rows /\ None \notin Observations /\ None \notin Incs
BY NoneAssumption DEF Rows, Observations, Incs

LEMMA OwnEdit ==
  ASSUME TypeOK, NEW i \in IDs, NEW row \in Rows,
         rows[i] # None => /\ row.gen >= rows[i].gen
                           /\ row.inc # rows[i].inc => row.gen > rows[i].gen
  PROVE  /\ [rows EXCEPT ![i] = row] \in Documents
         /\ [rows EXCEPT ![i] = row][i] # None
         /\ Legal([rows EXCEPT ![i] = row])
<1> DEFINE d == [rows EXCEPT ![i] = row]
<1>1. d \in Documents /\ d[i] = row /\ \A j \in IDs \ {i} : d[j] = rows[j]
  BY DEF TypeOK, Documents
<1>2. row # None
  BY NoneIsNoRow
<1>3. \A j \in IDs : rows[j] # None => rows[j].gen \in Nat
  BY DEF TypeOK, Documents, Rows
<1> HIDE DEF d
<1>4. Advances(d)
  BY <1>1, <1>3, SMT DEF Advances
<1>5. \A j \in IDs : d[j] # rows[j] => j = i
  BY <1>1
<1>6. Legal(d)
  BY <1>1, <1>2, <1>4, <1>5 DEF Legal
<1> QED
  BY <1>1, <1>2, <1>6 DEF d

\* upsert gives a row of any incarnation a counter past the one it replaces.
LEMMA UpsertLegal ==
  ASSUME TypeOK, NEW i \in IDs, NEW inc \in Incs, NEW r \in SUBSET RoleBits
  PROVE  /\ Upsert(rows, i, Row(inc, r)) \in Documents
         /\ Upsert(rows, i, Row(inc, r))[i] # None
         /\ Legal(Upsert(rows, i, Row(inc, r)))
<1> DEFINE row == IF rows[i] # None /\ rows[i].gen >= 1
                  THEN [inc |-> inc, gen |-> rows[i].gen + 1, roles |-> r]
                  ELSE [inc |-> inc, gen |-> 1, roles |-> r]
<1>1. Upsert(rows, i, Row(inc, r)) = [rows EXCEPT ![i] = row]
  <2> DEFINE new == [inc |-> inc, gen |-> 1, roles |-> r]
  <2>1. [new EXCEPT !.gen = rows[i].gen + 1] = [inc |-> inc, gen |-> rows[i].gen + 1, roles |-> r]
    BY SMT
  <2>2. new.gen = 1
    OBVIOUS
  <2>3. Row(inc, r) = new
    BY DEF Row
  <2> HIDE DEF new
  <2> QED
    BY <2>1, <2>2, <2>3 DEF Upsert, new
<1>2. rows[i] # None => rows[i].gen \in Nat \ {0}
  BY DEF TypeOK, Documents, Rows
<1>3. row \in Rows /\ (rows[i] # None => row.gen > rows[i].gen)
  BY <1>2, SMT DEF Rows
<1> HIDE DEF row
<1>4. rows[i] # None => row.gen >= rows[i].gen
  BY <1>2, <1>3, SMT DEF Rows
<1> QED
  BY <1>1, <1>3, <1>4, OwnEdit

Changed(row, g, r) == [row EXCEPT !.gen = g, !.roles = r]

LEMMA RowChanged ==
  ASSUME NEW row \in Rows, NEW g \in Nat \ {0}, NEW r \in SUBSET RoleBits
  PROVE  Changed(row, g, r) \in Rows /\ Changed(row, g, r).inc = row.inc /\ Changed(row, g, r).gen = g
BY DEF Rows, Changed

LEMMA WithoutTyped ==
  ASSUME TypeOK, NEW gone
  PROVE  Without(rows, gone) \in Documents
BY DEF TypeOK, Documents, Without

-----------------------------------------------------------------------------
\* Threads.

LEMMA ThreadSet ==
  ASSUME NEW T \in ThreadMaps, NEW p \in Procs, NEW t \in Threads, NEW x \in ThreadStates
  PROVE  /\ [T EXCEPT ![p][t] = x] \in ThreadMaps
         /\ \A q \in Procs, u \in Threads :
              [T EXCEPT ![p][t] = x][q][u] = IF q = p /\ u = t THEN x ELSE T[q][u]
BY DEF ThreadMaps

LEMMA ThreadForms ==
  /\ Idle \in ThreadStates /\ ~Sent(Idle)
  /\ \A n \in Nat : Reading(n) \in ThreadStates /\ ~Sent(Reading(n))
  /\ \A n \in Nat, d \in Documents, inc \in Incs \cup {None} :
       Writing(n, d, inc) \in ThreadStates /\ Writing(n, d, inc).next = d
<1>1. EmptyDocument \in Documents
  BY DEF EmptyDocument, Documents
<1>2. Idle \in ThreadStates /\ ~Sent(Idle)
  BY <1>1 DEF Idle, ThreadStates, Sent
<1>3. ASSUME NEW n \in Nat PROVE Reading(n) \in ThreadStates /\ ~Sent(Reading(n))
  BY <1>1 DEF Reading, Idle, ThreadStates, Sent
<1>4. ASSUME NEW n \in Nat, NEW d \in Documents, NEW inc \in Incs \cup {None}
      PROVE  Writing(n, d, inc) \in ThreadStates /\ Writing(n, d, inc).next = d
  BY DEF Writing, ThreadStates
<1> QED
  BY <1>2, <1>3, <1>4

\* A lost race leaves a thread that has sent nothing.
LEMMA LostRace ==
  ASSUME NEW th \in ThreadStates
  PROVE  AfterLostRace(th) \in ThreadStates /\ ~Sent(AfterLostRace(th))
<1>1. th.try \in Nat /\ th.try + 1 \in Nat
  BY SMT DEF ThreadStates
<1> QED
  BY <1>1, ThreadForms DEF AfterLostRace

LEMMA OutdatedTyped ==
  ASSUME NEW T \in ThreadMaps
  PROVE  /\ Outdated(T) \in ThreadMaps
         /\ \A q \in Procs, u \in Threads : ~Sent(Outdated(T)[q][u])
<1>1. ASSUME NEW n \in Nat
      PROVE  /\ [Idle EXCEPT !.pc = "write", !.try = n] \in ThreadStates
             /\ ~Sent([Idle EXCEPT !.pc = "write", !.try = n])
  <2>1. EmptyDocument \in Documents
    BY DEF EmptyDocument, Documents
  <2> QED
    BY <2>1 DEF Idle, ThreadStates, Sent
<1>2. \A q \in Procs, u \in Threads : T[q][u] \in ThreadStates /\ T[q][u].try \in Nat
  BY DEF ThreadMaps, ThreadStates
<1>3. \A q \in Procs, u \in Threads :
        Outdated(T)[q][u] = IF T[q][u].pc = "write"
                            THEN [Idle EXCEPT !.pc = "write", !.try = T[q][u].try] ELSE T[q][u]
  BY DEF Outdated
<1>4. \A q \in Procs, u \in Threads :
        Outdated(T)[q][u] \in ThreadStates /\ ~Sent(Outdated(T)[q][u])
  <2> TAKE q \in Procs, u \in Threads
  <2>1. CASE T[q][u].pc = "write"
    BY <1>1, <1>2, <1>3, <2>1
  <2>2. CASE T[q][u].pc # "write"
    BY <1>2, <1>3, <2>2 DEF Sent
  <2> QED
    BY <2>1, <2>2
<1> QED
  BY <1>4 DEF Outdated, ThreadMaps

-----------------------------------------------------------------------------
\* Steps.

\* Nothing that makes an edit legal is taken back while the document stands.
StatusForward == \A p \in Procs : status[p] \in Leaving => status'[p] \in Leaving

SilenceKept == \A q \in Procs, i \in IDs :
  rows[i] # None /\ IdOf[q] # i /\ Silent(q, i) => Silent(q, i)'

LEMMA LegalKept ==
  ASSUME TypeOK, UNCHANGED <<conf, rows>>, StatusForward, SilenceKept
  PROVE  \A d \in Documents : Legal(d) => Legal(d)'
<1>1. conf.leaving \subseteq Procs
  BY CoordinatorAssumption DEF TypeOK, ConfigType
<1>2. \A i \in IDs : (Withdrawn(i) => Withdrawn(i)') /\ (SeenSilent(i) => SeenSilent(i)')
  BY <1>1 DEF StatusForward, SilenceKept, Withdrawn, SeenSilent
<1> QED
  BY <1>2 DEF Legal, Advances

LEMMA SilenceUnseen ==
  ASSUME UNCHANGED <<conf, rows, tracker>>
  PROVE  SilenceKept
BY DEF SilenceKept, Silent

Becomes(p, t, x) == thr' = [thr EXCEPT ![p][t] = x]

\* A step of one thread, which sends at most a legal edit.
LEMMA ThreadStep ==
  ASSUME TypeOK, Pending, UNCHANGED <<conf, rows, late>>, StatusForward, SilenceKept,
         NEW p \in Procs, NEW t \in Threads, NEW x \in ThreadStates,
         Becomes(p, t, x),
         \A d \in Documents : Sent(x) /\ x.next = d => Legal(d)'
  PROVE  /\ thr' \in ThreadMaps /\ Pending'
         /\ \A q \in Procs, u \in Threads : thr'[q][u] = IF q = p /\ u = t THEN x ELSE thr[q][u]
<1>1. thr \in ThreadMaps
  BY DEF TypeOK, ThreadMaps
<1>2. /\ thr' \in ThreadMaps
      /\ \A q \in Procs, u \in Threads : thr'[q][u] = IF q = p /\ u = t THEN x ELSE thr[q][u]
  BY <1>1 DEF ThreadMaps, Becomes
<1>3. ASSUME NEW d \in Documents, Waiting(d)' PROVE Legal(d)'
  <2>1. Waiting(d) \/ (Sent(x) /\ x.next = d)
    BY <1>2, <1>3 DEF Waiting
  <2>2. Legal(d) => Legal(d)'
    BY LegalKept
  <2> QED
    BY <2>1, <2>2 DEF Pending
<1> QED
  BY <1>2, <1>3 DEF Pending

\* An accepted write leaves none that can still be accepted.
LEMMA PutStep ==
  ASSUME NEW d \in Documents, NEW T \in ThreadMaps, Put(d, T)
  PROVE  /\ exists' \in BOOLEAN /\ rows' = d /\ late' = {} /\ thr' \in ThreadMaps
         /\ Pending'
         /\ \A q \in Procs, u \in Threads : ~Sent(thr'[q][u])
<1>1. exists' \in BOOLEAN /\ rows' = d /\ late' = {} /\ thr' = Outdated(T)
  BY DEF Put
<1>2. thr' \in ThreadMaps /\ \A q \in Procs, u \in Threads : ~Sent(thr'[q][u])
  BY <1>1, OutdatedTyped
<1>3. \A e \in Documents : ~Waiting(e)'
  BY <1>1, <1>2 DEF Waiting
<1> QED
  BY <1>1, <1>2, <1>3 DEF Pending

\* The write a thread has sent is legal, and it is what PutBy installs.
LEMMA PutByStep ==
  ASSUME TypeOK, Pending, NEW p \in Procs, NEW t \in Threads, PutBy(p, t)
  PROVE  /\ Sent(thr[p][t]) /\ rows' = thr[p][t].next /\ rows' \in Documents /\ Legal(rows')
         /\ exists' \in BOOLEAN /\ late' = {} /\ thr' \in ThreadMaps /\ Pending'
         /\ \A q \in Procs, u \in Threads : ~Sent(thr'[q][u])
<1> DEFINE d == thr[p][t].next
           T == [thr EXCEPT ![p][t] = Idle]
<1>1. thr \in ThreadMaps /\ thr[p][t] \in ThreadStates
  BY DEF TypeOK, ThreadMaps
<1>2. d \in Documents /\ T \in ThreadMaps
  BY <1>1, ThreadSet, ThreadForms DEF ThreadStates
<1>3. Sent(thr[p][t]) /\ Put(d, T)
  BY DEF PutBy, Sent
<1>4. Legal(d)
  BY <1>2, <1>3 DEF Pending, Waiting
<1> HIDE DEF d, T
<1>5. /\ exists' \in BOOLEAN /\ rows' = d /\ late' = {} /\ thr' \in ThreadMaps /\ Pending'
      /\ \A q \in Procs, u \in Threads : ~Sent(thr'[q][u])
  BY <1>2, <1>3, PutStep
<1> QED
  BY <1>2, <1>3, <1>4, <1>5 DEF d

-----------------------------------------------------------------------------
\* What an observer records.

LEMMA JudgedTyped ==
  ASSUME NEW obs \in Observations \cup {None}, NEW row \in Rows, NEW k \in Nat
  PROVE  /\ Judged(obs, row, k) \in Observations
         /\ Judged(obs, row, k).inc = row.inc /\ Judged(obs, row, k).gen = row.gen
         /\ Unmoved(obs, row) /\ obs.stale >= k => Judged(obs, row, k).stale >= k
<1>1. CASE Unmoved(obs, row)
  <2> DEFINE n == IF obs.stale < k THEN obs.stale + 1 ELSE obs.stale
  <2>1. obs \in Observations /\ obs.inc = row.inc /\ obs.gen = row.gen
    BY <1>1 DEF Unmoved
  <2>2. n \in Nat /\ (obs.stale >= k => n >= k)
    BY <2>1, SMT DEF Observations
  <2>3. Judged(obs, row, k) = [obs EXCEPT !.stale = n]
    BY <1>1 DEF Judged
  <2> HIDE DEF n
  <2>4. /\ [obs EXCEPT !.stale = n] \in Observations
        /\ [obs EXCEPT !.stale = n].inc = obs.inc
        /\ [obs EXCEPT !.stale = n].gen = obs.gen
        /\ [obs EXCEPT !.stale = n].stale = n
    BY <2>1, <2>2 DEF Observations
  <2> QED
    BY <2>1, <2>2, <2>3, <2>4
<1>2. CASE ~Unmoved(obs, row)
  BY <1>2 DEF Judged, Rows, Observations
<1> QED
  BY <1>1, <1>2

LEMMA TrackedTyped ==
  ASSUME NEW prev \in [IDs -> Observations \cup {None}], NEW d \in Documents, NEW k \in Nat,
         NEW self \in IDs
  PROVE  /\ Tracked(prev, d, k, self) \in [IDs -> Observations \cup {None}]
         /\ Tracked(prev, d, k, self)[self] = None
<1>1. \A i \in IDs : d[i] # None => d[i] \in Rows
  BY DEF Documents
<1>2. \A i \in IDs : d[i] # None => Judged(prev[i], d[i], k) \in Observations
  BY <1>1, JudgedTyped
<1> QED
  BY <1>2 DEF Tracked

\* A process never expires itself, so its view holds it: its row, or the row
\* observe() synthesizes.
LEMMA ObserveStep ==
  ASSUME TypeOK, NEW p \in Procs, NEW d \in Documents, NEW r \in SUBSET RoleBits,
         Observe(p, d, r)
  PROVE  /\ tracker' \in [Procs -> [IDs -> Observations \cup {None}]]
         /\ view' \in [Procs -> SUBSET (IDs \X SUBSET RoleBits)]
         /\ InView(view'[p], IdOf[p])
         /\ \A q \in Procs \ {p} : view'[q] = view[q] /\ tracker'[q] = tracker[q]
         /\ tracker'[p] = Tracked(tracker[p], d, conf.expiry, IdOf[p])
<1> DEFINE obs == Tracked(tracker[p], d, conf.expiry, IdOf[p])
           gone == Expired(obs, conf.expiry)
           v == LiveView(d, gone, IdOf[p], r)
<1>1. IdOf[p] \in IDs /\ conf.expiry \in Nat
  BY CoordinatorAssumption DEF TypeOK, ConfigType
<1>2. obs \in [IDs -> Observations \cup {None}] /\ obs[IdOf[p]] = None
  BY <1>1, TrackedTyped DEF TypeOK
<1>3. tracker' = [tracker EXCEPT ![p] = obs] /\ view' = [view EXCEPT ![p] = v]
  BY DEF Observe
<1> HIDE DEF obs
<1>4. IdOf[p] \notin gone
  BY <1>2 DEF Expired
<1> HIDE DEF gone
<1>5. \A i \in Members(d) : i \in IDs /\ d[i].roles \in SUBSET RoleBits
  BY DEF Members, Documents, Rows
<1>6. v \in SUBSET (IDs \X SUBSET RoleBits)
  BY <1>1, <1>5, SMT DEF LiveView
<1>7. InView(v, IdOf[p])
  <2>1. CASE d[IdOf[p]] = None
    <3>1. <<IdOf[p], r>> \in v
      BY <2>1 DEF LiveView
    <3> QED
      BY <3>1 DEF InView
  <2>2. CASE d[IdOf[p]] # None
    <3>1. <<IdOf[p], d[IdOf[p]].roles>> \in v
      BY <1>1, <1>4, <2>2 DEF LiveView, Members
    <3> QED
      BY <3>1 DEF InView
  <2> QED
    BY <2>1, <2>2
<1> HIDE DEF v
<1> QED
  BY <1>2, <1>3, <1>6, <1>7 DEF TypeOK, obs

-----------------------------------------------------------------------------
\* The actions.

\* The life cycle only moves forward: what one step may do to the statuses.
Progress(p) ==
  /\ status' \in [Procs -> Statuses]
  /\ \A q \in Procs \ {p} : status'[q] = status[q]
  /\ status[p] \in Leaving => status'[p] \in Leaving
  /\ status'[p] = "closing" => p \in conf.leaving
  /\ status'[p] \in {"up", "closing"} => status[p] \in {"up", "closing"}

LEMMA SameProgress ==
  ASSUME IInv, NEW p \in Procs, status' = status
  PROVE  Progress(p)
BY DEF IInv, TypeOK, Lives, Progress

\* One thread moves: it may send a legal edit, and its process may go on.
LEMMA ThreadMoves ==
  ASSUME IInv, NEW p \in Procs, NEW t \in Threads, NEW x \in ThreadStates,
         Becomes(p, t, x),
         UNCHANGED <<conf, exists, rows, late, tracker, view>>, Progress(p),
         selfInc' \in [Procs -> Incs \cup {None}], minted' \in [Procs -> Nat],
         roles' \in [Procs -> SUBSET RoleBits], displaced' \in [Procs -> Incs \cup {None}],
         Sent(x) => Legal(x.next),
         \A q \in Procs \ {p} : selfInc'[q] = selfInc[q],
         status'[p] = "booting" => /\ selfInc'[p] \in Incs
                                   /\ status[p] = "booting" \/ t = "main"
                                   /\ t = "main" /\ Sent(x) => x.next[IdOf[p]] # None
  PROVE  IInv'
<1>0. TypeOK /\ Pending /\ Lives /\ SelfInView
  BY DEF IInv
<1>1. StatusForward /\ SilenceKept
  BY SilenceUnseen DEF Progress, StatusForward
<1>2. \A d \in Documents : Sent(x) /\ x.next = d => Legal(d)'
  <2> TAKE d \in Documents
  <2>1. Legal(d) => Legal(d)'
    BY <1>0, <1>1, LegalKept
  <2> QED
    BY <2>1
<1>3. /\ thr' \in ThreadMaps /\ Pending'
      /\ \A q \in Procs, u \in Threads : thr'[q][u] = IF q = p /\ u = t THEN x ELSE thr[q][u]
  BY <1>0, <1>1, <1>2, ThreadStep, SMT
<1>4. TypeOK'
  BY <1>0, <1>3 DEF TypeOK, ThreadMaps, Progress
<1>5. "main" \in Threads
  BY DEF Threads
<1>6. Lives'
  <2> SUFFICES ASSUME NEW q \in Procs
               PROVE  /\ status'[q] = "closing" => q \in conf'.leaving
                      /\ status'[q] = "booting" => selfInc'[q] \in Incs
                      /\ status'[q] = "booting" /\ Sent(thr'[q]["main"]) =>
                           thr'[q]["main"].next[IdOf[q]] # None
    BY DEF Lives, Sent
  <2>1. CASE q = p
    BY <1>0, <1>3, <1>5, <2>1 DEF Lives, Progress
  <2>2. CASE q # p
    BY <1>0, <1>3, <1>5, <2>2 DEF Lives, Progress
  <2> QED
    BY <2>1, <2>2
<1>7. SelfInView'
  BY <1>0 DEF SelfInView, Progress, InView
<1> QED
  BY <1>3, <1>4, <1>6, <1>7 DEF IInv

LEMMA Facts ==
  ASSUME IInv, NEW p \in Procs
  PROVE  /\ TypeOK /\ Pending /\ Lives /\ SelfInView
         /\ thr \in ThreadMaps /\ \A t \in Threads : thr[p][t] \in ThreadStates /\ thr[p][t].try \in Nat
         /\ IdOf[p] \in IDs /\ roles[p] \in SUBSET RoleBits /\ minted[p] \in Nat
         /\ conf.attempts \in Nat /\ conf.expiry \in Nat /\ conf.leaving \subseteq Procs
         /\ Own(p) # None => Own(p) \in Rows
         /\ {"main", "renew", "poll"} \subseteq Threads /\ RoleThreads \subseteq Threads
<1>1. TypeOK /\ Pending /\ Lives /\ SelfInView
  BY DEF IInv
<1>2. thr \in ThreadMaps /\ \A t \in Threads : thr[p][t] \in ThreadStates
  BY <1>1 DEF TypeOK, ThreadMaps
<1>3. \A t \in Threads : thr[p][t].try \in Nat
  BY <1>2 DEF ThreadStates
<1>4. IdOf[p] \in IDs /\ roles[p] \in SUBSET RoleBits /\ minted[p] \in Nat
  BY <1>1, CoordinatorAssumption DEF TypeOK
<1>5. conf.attempts \in Nat /\ conf.expiry \in Nat /\ conf.leaving \subseteq Procs
  BY <1>1, CoordinatorAssumption DEF TypeOK, ConfigType
<1>6. Own(p) # None => Own(p) \in Rows
  BY <1>1, <1>4 DEF TypeOK, Own, Documents
<1> QED
  BY <1>1, <1>2, <1>3, <1>4, <1>5, <1>6 DEF Threads

\* A thread that gives up, re-reads or ends has sent nothing.
LEMMA ThreadRests ==
  ASSUME IInv, NEW p \in Procs, NEW t \in Threads, NEW x \in ThreadStates, ~Sent(x),
         Becomes(p, t, x),
         UNCHANGED <<conf, exists, rows, late, selfInc, minted, tracker, view>>, Progress(p),
         roles' \in [Procs -> SUBSET RoleBits], displaced' \in [Procs -> Incs \cup {None}],
         status'[p] = "booting" => status[p] = "booting"
  PROVE  IInv'
<1>1. /\ selfInc' \in [Procs -> Incs \cup {None}] /\ minted' \in [Procs -> Nat]
      /\ status[p] = "booting" => selfInc'[p] \in Incs
  BY DEF IInv, TypeOK, Lives
<1> QED
  BY <1>1, ThreadMoves

LEMMA StartStep ==
  ASSUME IInv, NEW p \in Procs, Start(p)
  PROVE  IInv' /\ rows' = rows
<1>1. /\ status[p] = "down" /\ status' = [status EXCEPT ![p] = "booting"]
      /\ selfInc' = [selfInc EXCEPT ![p] = <<p, 0>>] /\ minted' = [minted EXCEPT ![p] = 1]
      /\ Becomes(p, "main", Reading(1))
      /\ UNCHANGED <<conf, exists, rows, late, displaced, tracker, view>>
  BY DEF Start, store, seen, Becomes
<1>2. Progress(p) /\ status'[p] = "booting"
  BY <1>1 DEF IInv, TypeOK, Progress, Statuses, Leaving
<1>3. /\ selfInc' \in [Procs -> Incs \cup {None}] /\ selfInc'[p] \in Incs
      /\ \A q \in Procs \ {p} : selfInc'[q] = selfInc[q]
  BY <1>1 DEF IInv, TypeOK, Incs
<1>4. minted' \in [Procs -> Nat] /\ displaced' \in [Procs -> Incs \cup {None}]
  BY <1>1 DEF IInv, TypeOK
<1>5. roles' \in [Procs -> SUBSET RoleBits]
  BY CoordinatorAssumption, SMT DEF IInv, TypeOK, Start
<1>6. Reading(1) \in ThreadStates /\ ~Sent(Reading(1))
  BY ThreadForms
<1> QED
  BY <1>1, <1>2, <1>3, <1>4, <1>5, <1>6, Facts, ThreadMoves

\* A refused write: the thread re-reads, or its process gives up.
LEMMA RefusedStep ==
  ASSUME IInv, NEW p \in Procs, NEW t \in Threads, RefusedBy(p, t), Progress(p),
         UNCHANGED <<conf, store, selfInc, minted, roles, displaced, seen>>,
         status'[p] = "booting" => status[p] = "booting"
  PROVE  IInv'
<1> DEFINE x == AfterLostRace(thr[p][t])
<1>1. Becomes(p, t, x)
  BY DEF RefusedBy, Becomes
<1>2. x \in ThreadStates /\ ~Sent(x)
  BY Facts, LostRace
<1>3. /\ UNCHANGED <<conf, exists, rows, late, selfInc, minted, tracker, view>>
      /\ roles' \in [Procs -> SUBSET RoleBits] /\ displaced' \in [Procs -> Incs \cup {None}]
  BY DEF store, seen, IInv, TypeOK
<1> HIDE DEF x
<1> QED
  BY <1>1, <1>2, <1>3, ThreadRests

LEMMA Refusals ==
  ASSUME IInv, NEW p \in Procs,
         \/ BootRefused(p) \/ RenewRefused(p) \/ GcRefused(p) \/ CloseRefused(p)
         \/ \E t \in RoleThreads : RoleRefused(p, t)
  PROVE  IInv' /\ rows' = rows
<1>1. rows' = rows
  BY DEF BootRefused, RenewRefused, GcRefused, CloseRefused, RoleRefused, store
<1>2. status[p] \in Statuses /\ status \in [Procs -> Statuses]
  BY DEF IInv, TypeOK
<1>3. CASE RenewRefused(p) \/ GcRefused(p) \/ \E t \in RoleThreads : RoleRefused(p, t)
  <2>1. /\ UNCHANGED <<conf, store, selfInc, minted, roles, displaced, seen>> /\ status' = status
        /\ \E t \in Threads : RefusedBy(p, t)
    BY <1>3, Facts DEF RenewRefused, GcRefused, RoleRefused, local
  <2> QED
    BY <1>1, <2>1, SameProgress, RefusedStep
<1>4. CASE BootRefused(p)
  <2>1. /\ UNCHANGED <<conf, store, selfInc, minted, roles, displaced, seen>>
        /\ RefusedBy(p, "main") /\ status[p] = "booting" /\ "main" \in Threads
        /\ \E s \in {"dead", "booting"} : status' = [status EXCEPT ![p] = s]
    BY <1>4, Facts DEF BootRefused
  <2>2. Progress(p)
    BY <1>2, <2>1 DEF Progress, Statuses, Leaving
  <2> QED
    BY <1>1, <2>1, <2>2, RefusedStep
<1>5. CASE CloseRefused(p)
  <2>1. /\ UNCHANGED <<conf, store, selfInc, minted, roles, displaced, seen>>
        /\ RefusedBy(p, "main") /\ status[p] = "closing" /\ "main" \in Threads
        /\ \E s \in {"closed", "closing"} : status' = [status EXCEPT ![p] = s]
    BY <1>5, Facts DEF CloseRefused
  <2>2. Progress(p) /\ status'[p] # "booting"
    BY <1>2, <2>1 DEF Progress, Statuses, Leaving, IInv, Lives
  <2> QED
    BY <1>1, <2>1, <2>2, RefusedStep
<1> QED
  BY <1>3, <1>4, <1>5

\* Threads that begin, end or step down.
LEMMA Rests ==
  ASSUME IInv, NEW p \in Procs,
         StepDown(p) \/ CloseSkip(p) \/ \E t \in RoleThreads : SetRole(p, t)
  PROVE  IInv' /\ rows' = rows
<1>1. UNCHANGED <<conf, exists, rows, late, selfInc, minted, tracker, view>>
  BY DEF StepDown, CloseSkip, SetRole, store, seen
<1>2. Idle \in ThreadStates /\ ~Sent(Idle) /\ Reading(1) \in ThreadStates /\ ~Sent(Reading(1))
  BY ThreadForms
<1>3. /\ roles \in [Procs -> SUBSET RoleBits] /\ displaced \in [Procs -> Incs \cup {None}]
      /\ status \in [Procs -> Statuses]
  BY DEF IInv, TypeOK
<1>4. CASE StepDown(p)
  <2>1. Becomes(p, "renew", Idle) /\ "renew" \in Threads /\ UNCHANGED <<status, roles>>
    BY <1>4, Facts DEF StepDown, Becomes
  <2>2. displaced' \in [Procs -> Incs \cup {None}]
    BY <1>3, <1>4, Facts DEF StepDown, Rows
  <2> QED
    BY <1>1, <1>2, <1>3, <2>1, <2>2, SameProgress, ThreadRests
<1>5. CASE CloseSkip(p)
  <2>1. /\ Becomes(p, "main", Idle) /\ "main" \in Threads /\ UNCHANGED <<roles, displaced>>
        /\ status' = [status EXCEPT ![p] = "closed"]
    BY <1>5, Facts DEF CloseSkip, Becomes
  <2>2. Progress(p) /\ status'[p] # "booting"
    BY <1>3, <2>1 DEF Progress, Statuses, Leaving
  <2> QED
    BY <1>1, <1>2, <1>3, <2>1, <2>2, ThreadRests
<1>6. ASSUME NEW t \in RoleThreads, SetRole(p, t) PROVE IInv'
  <2>1. Becomes(p, t, Reading(1)) /\ t \in Threads /\ UNCHANGED <<status, displaced>>
    BY <1>6, Facts DEF SetRole, Becomes
  <2>2. roles' \in [Procs -> SUBSET RoleBits]
    BY <1>3, <1>6, CoordinatorAssumption, SMT DEF SetRole
  <2> QED
    BY <1>1, <1>2, <1>3, <2>1, <2>2, SameProgress, ThreadRests
<1> QED
  BY <1>1, <1>4, <1>5, <1>6

\* A read whose edit is a legal document.
LEMMA ReadStep ==
  ASSUME IInv, NEW p \in Procs, NEW t \in Threads, NEW n \in Nat, NEW d \in Documents,
         NEW inc \in Incs \cup {None}, Becomes(p, t, Writing(n, d, inc)), Legal(d),
         UNCHANGED <<conf, store, status, selfInc, roles, displaced, seen>>,
         minted' \in [Procs -> Nat],
         status[p] = "booting" /\ t = "main" => d[IdOf[p]] # None
  PROVE  IInv'
<1> DEFINE x == Writing(n, d, inc)
<1>1. x \in ThreadStates /\ x.next = d
  BY ThreadForms
<1>2. /\ UNCHANGED <<conf, exists, rows, late, tracker, view>>
      /\ selfInc' \in [Procs -> Incs \cup {None}] /\ selfInc' = selfInc
      /\ roles' \in [Procs -> SUBSET RoleBits] /\ displaced' \in [Procs -> Incs \cup {None}]
  BY DEF store, seen, IInv, TypeOK
<1>3. status' = status /\ (status[p] = "booting" => selfInc[p] \in Incs)
  BY DEF IInv, Lives
<1>4. Progress(p)
  BY <1>3, SameProgress
<1>5. Becomes(p, t, x)
  OBVIOUS
<1> HIDE DEF x
<1> QED
  BY <1>1, <1>2, <1>3, <1>4, <1>5, ThreadMoves

LEMMA BootLegal ==
  ASSUME IInv, NEW p \in Procs, status[p] = "booting"
  PROVE  /\ BootDocument(p) \in Documents /\ Legal(BootDocument(p))
         /\ BootDocument(p)[IdOf[p]] # None
<1> DEFINE stance == IF Members(rows) = {} THEN FounderRoles(roles[p]) ELSE roles[p]
<1>1. stance \in SUBSET RoleBits /\ IdOf[p] \in IDs /\ selfInc[p] \in Incs /\ TypeOK
  BY Facts DEF FounderRoles, Lives
<1>2. BootDocument(p) = Upsert(rows, IdOf[p], Row(selfInc[p], stance))
  BY DEF BootDocument
<1> HIDE DEF stance
<1> QED
  BY <1>1, <1>2, UpsertLegal

LEMMA AttemptTyped ==
  ASSUME IInv, NEW p \in Procs, NEW t \in Threads
  PROVE  Attempt(thr[p][t]) \in Nat
BY Facts DEF Attempt

LEMMA BootReadStep ==
  ASSUME IInv, NEW p \in Procs, BootRead(p)
  PROVE  IInv' /\ rows' = rows
<1> DEFINE n == thr[p]["main"].try
           d == BootDocument(p)
<1>1. n \in Nat /\ "main" \in Threads /\ selfInc[p] \in Incs \cup {None} /\ minted' \in [Procs -> Nat]
  BY Facts DEF BootRead, local, TypeOK
<1>2. status[p] = "booting" /\ Becomes(p, "main", Writing(n, d, selfInc[p]))
  BY DEF BootRead, Becomes
<1>3. d \in Documents /\ Legal(d) /\ d[IdOf[p]] # None
  BY <1>2, BootLegal
<1>4. UNCHANGED <<conf, store, status, selfInc, roles, displaced, seen>> /\ rows' = rows
  BY DEF BootRead, local, store
<1> HIDE DEF n, d
<1> QED
  BY <1>1, <1>2, <1>3, <1>4, ReadStep

\* A renewal of the process's own row: the same incarnation, one counter on.
LEMMA RenewStep ==
  ASSUME IInv, NEW p \in Procs, RenewInPlace(p)
  PROVE  IInv' /\ rows' = rows
<1> DEFINE n == Attempt(thr[p]["renew"])
           old == Own(p)
           row == [old EXCEPT !.gen = @ + 1, !.roles = roles[p]]
           d == [rows EXCEPT ![IdOf[p]] = row]
<1>1. n \in Nat /\ "renew" \in Threads /\ None \in Incs \cup {None} /\ minted' \in [Procs -> Nat]
  BY Facts, AttemptTyped DEF RenewInPlace, local, TypeOK
<1>2. Becomes(p, "renew", Writing(n, d, None))
  BY DEF RenewInPlace, Becomes
<1>3. old \in Rows /\ roles[p] \in SUBSET RoleBits /\ IdOf[p] \in IDs /\ TypeOK
  BY Facts DEF RenewInPlace, OwnsRow
<1>4. old = rows[IdOf[p]]
  BY DEF Own
<1> HIDE DEF old
<1>6. row \in Rows /\ row.inc = old.inc /\ row.gen >= old.gen
  <2> DEFINE g == old.gen + 1
  <2>1. g \in Nat \ {0} /\ g >= old.gen
    BY <1>3, SMT DEF Rows
  <2>2. row = Changed(old, g, roles[p])
    BY DEF Changed
  <2> HIDE DEF g, row
  <2> QED
    BY <1>3, <2>1, <2>2, RowChanged
<1> HIDE DEF row
<1>7. d \in Documents /\ Legal(d) /\ d[IdOf[p]] # None
  BY <1>3, <1>4, <1>6, OwnEdit
<1>8. UNCHANGED <<conf, store, status, selfInc, roles, displaced, seen>> /\ rows' = rows
  BY DEF RenewInPlace, local, store
<1> HIDE DEF n, d
<1> QED
  BY <1>1, <1>2, <1>7, <1>8, ReadStep

LEMMA ReAddStep ==
  ASSUME IInv, NEW p \in Procs, RenewReAdd(p)
  PROVE  IInv' /\ rows' = rows
<1> DEFINE n == Attempt(thr[p]["renew"])
           inc == <<p, minted[p]>>
           d == Upsert(rows, IdOf[p], Row(inc, roles[p]))
<1>1. n \in Nat /\ "renew" \in Threads /\ inc \in Incs
  BY Facts, AttemptTyped DEF Incs
<1>2. Becomes(p, "renew", Writing(n, d, inc))
  BY DEF RenewReAdd, Becomes
<1>3. roles[p] \in SUBSET RoleBits /\ IdOf[p] \in IDs /\ TypeOK
  BY Facts
<1>4. minted' \in [Procs -> Nat]
  BY Facts, SMT DEF RenewReAdd, TypeOK
<1> HIDE DEF inc
<1>5. d \in Documents /\ Legal(d) /\ d[IdOf[p]] # None
  BY <1>1, <1>3, UpsertLegal
<1>6. UNCHANGED <<conf, store, status, selfInc, roles, displaced, seen>> /\ rows' = rows
  BY DEF RenewReAdd, store
<1> HIDE DEF n, d
<1> QED
  BY <1>1, <1>2, <1>4, <1>5, <1>6, ReadStep

\* SetRole's edit: the roles of the row under its ID, and nothing else.
LEMMA RoleReadStep ==
  ASSUME IInv, NEW p \in Procs, NEW t \in RoleThreads, RoleRead(p, t)
  PROVE  IInv' /\ rows' = rows
<1> DEFINE n == thr[p][t].try
           old == Own(p)
           row == [old EXCEPT !.roles = roles[p]]
           d == [rows EXCEPT ![IdOf[p]] = row]
<1>0. t \in Threads /\ n \in Nat /\ None \in Incs \cup {None}
  BY Facts
<1>1. UNCHANGED <<store, local, seen>> /\ rows' = rows
  BY DEF RoleRead, store
<1>2. CASE Own(p) = None \/ Own(p).roles = roles[p]
  <2>1. Becomes(p, t, Idle)
    BY <1>2 DEF RoleRead, Becomes
  <2>2. Progress(p)
    BY <1>1, SameProgress DEF local
  <2>3. roles' \in [Procs -> SUBSET RoleBits] /\ displaced' \in [Procs -> Incs \cup {None}]
        /\ UNCHANGED <<conf, exists, rows, late, selfInc, minted, tracker, view>> /\ status' = status
    BY <1>1 DEF IInv, TypeOK, local, store, seen
  <2> QED
    BY <1>0, <2>1, <2>2, <2>3, ThreadForms, ThreadRests
<1>3. CASE ~(Own(p) = None \/ Own(p).roles = roles[p])
  <2>1. [rows EXCEPT ![IdOf[p]].roles = roles[p]] = d
    BY DEF Own
  <2>2. Becomes(p, t, Writing(n, d, None))
    BY <1>3, <2>1 DEF RoleRead, Becomes
  <2>3. old \in Rows /\ roles[p] \in SUBSET RoleBits /\ IdOf[p] \in IDs /\ TypeOK
    BY <1>3, Facts
  <2>4. old = rows[IdOf[p]]
    BY DEF Own
  <2> HIDE DEF old
  <2>5. row \in Rows /\ row.inc = old.inc /\ row.gen = old.gen /\ old.gen >= old.gen
    BY <2>3, SMT DEF Rows
  <2> HIDE DEF row
  <2>6. d \in Documents /\ Legal(d) /\ d[IdOf[p]] # None
    BY <2>3, <2>4, <2>5, OwnEdit
  <2>7. minted' \in [Procs -> Nat] /\ UNCHANGED <<conf, store, status, selfInc, roles, displaced, seen>>
    BY <1>1 DEF IInv, TypeOK, local
  <2> HIDE DEF n, d
  <2> QED
    BY <1>0, <1>1, <2>2, <2>6, <2>7, ReadStep
<1> QED
  BY <1>2, <1>3

\* Close removes the row under the ID of a process that is leaving.
LEMMA CloseReadStep ==
  ASSUME IInv, NEW p \in Procs, CloseRead(p)
  PROVE  IInv' /\ rows' = rows
<1> DEFINE n == Attempt(thr[p]["main"])
           d == Without(rows, {IdOf[p]})
<1>1. /\ n \in Nat /\ "main" \in Threads /\ None \in Incs \cup {None}
      /\ minted' \in [Procs -> Nat] /\ d \in Documents /\ IdOf[p] \in IDs
  BY Facts, AttemptTyped, WithoutTyped DEF CloseRead, local, TypeOK
<1>2. status[p] = "closing" /\ Becomes(p, "main", Writing(n, d, None))
  BY DEF CloseRead, LoopsStopped, Becomes
<1>3. d[IdOf[p]] = None /\ \A j \in IDs \ {IdOf[p]} : d[j] = rows[j]
  BY <1>1 DEF Without
<1>4. Withdrawn(IdOf[p])
  BY <1>2 DEF IInv, Lives, Withdrawn, Leaving
<1>5. \A j \in IDs : rows[j] # None => rows[j].gen \in Nat
  BY DEF IInv, TypeOK, Documents, Rows
<1>6. UNCHANGED <<conf, store, status, selfInc, roles, displaced, seen>> /\ rows' = rows
  BY DEF CloseRead, local, store
<1> HIDE DEF n, d
<1>7. Legal(d)
  <2>1. Advances(d)
    BY <1>3, <1>5, SMT DEF Advances
  <2>2. \A j \in IDs : d[j] # rows[j] => j = IdOf[p]
    BY <1>3
  <2> QED
    BY <1>3, <1>4, <2>1, <2>2 DEF Legal
<1> QED
  BY <1>1, <1>2, <1>6, <1>7, ReadStep

\* A poll repeats or extends what the observer has seen of an unchanged row.
LEMMA PollSilence ==
  ASSUME IInv, NEW p \in Procs, UNCHANGED <<conf, rows>>,
         \A q \in Procs \ {p} : tracker'[q] = tracker[q],
         tracker'[p] = Tracked(tracker[p], rows, conf.expiry, IdOf[p])
  PROVE  /\ SilenceKept
         /\ \A i \in Expired(tracker'[p], conf.expiry) :
              i \in IDs /\ IdOf[p] # i /\ rows[i] # None /\ Silent(p, i)'
<1>1. TypeOK /\ conf.expiry \in Nat /\ IdOf[p] \in IDs
  BY Facts
<1>2. ASSUME NEW i \in IDs, rows[i] # None, i # IdOf[p]
      PROVE  /\ tracker'[p][i] # None
             /\ tracker'[p][i].inc = rows[i].inc /\ tracker'[p][i].gen = rows[i].gen
             /\ Silent(p, i) => tracker'[p][i].stale >= conf.expiry
  <2>1. tracker'[p][i] = Judged(tracker[p][i], rows[i], conf.expiry)
    BY <1>2 DEF Tracked
  <2>2. tracker[p][i] \in Observations \cup {None} /\ rows[i] \in Rows
    BY <1>1, <1>2 DEF TypeOK, Documents
  <2>3. Silent(p, i) => Unmoved(tracker[p][i], rows[i]) /\ tracker[p][i].stale >= conf.expiry
    BY DEF Silent, Unmoved
  <2> QED
    BY <1>1, <2>1, <2>2, <2>3, JudgedTyped, NoneIsNoRow, SMT
<1>3. SilenceKept
  <2> SUFFICES ASSUME NEW q \in Procs, NEW i \in IDs, rows[i] # None, IdOf[q] # i, Silent(q, i)
               PROVE  Silent(q, i)'
    BY DEF SilenceKept
  <2>1. CASE q = p
    BY <1>2, <2>1 DEF Silent
  <2>2. CASE q # p
    BY <2>2 DEF Silent
  <2> QED
    BY <2>1, <2>2
<1>4. ASSUME NEW i \in Expired(tracker'[p], conf.expiry)
      PROVE  i \in IDs /\ IdOf[p] # i /\ rows[i] # None /\ Silent(p, i)'
  <2>1. i \in IDs /\ tracker'[p][i] # None /\ tracker'[p][i].stale >= conf.expiry
    BY <1>4 DEF Expired
  <2>2. IdOf[p] # i /\ rows[i] # None
    BY <2>1 DEF Tracked
  <2> QED
    BY <1>2, <2>1, <2>2 DEF Silent
<1> QED
  BY <1>3, <1>4

LEMMA PollStep ==
  ASSUME IInv, NEW p \in Procs, Poll(p)
  PROVE  IInv' /\ rows' = rows
<1> DEFINE gone == Expired(tracker'[p], conf.expiry)
           d == Without(rows, gone)
           x == IF gone = {} THEN Idle ELSE Writing(conf.attempts, d, None)
<1>0. TypeOK /\ Pending /\ Lives /\ SelfInView /\ "poll" \in Threads /\ rows \in Documents
  BY Facts DEF TypeOK
<1>1. UNCHANGED <<conf, exists, rows, late, status, selfInc, minted, roles, displaced>>
  BY DEF Poll, store, local
<1>2. /\ tracker' \in [Procs -> [IDs -> Observations \cup {None}]]
      /\ view' \in [Procs -> SUBSET (IDs \X SUBSET RoleBits)]
      /\ InView(view'[p], IdOf[p])
      /\ \A q \in Procs \ {p} : view'[q] = view[q] /\ tracker'[q] = tracker[q]
      /\ tracker'[p] = Tracked(tracker[p], rows, conf.expiry, IdOf[p])
  BY <1>0, Facts, ObserveStep DEF Poll
<1>3. SilenceKept /\ \A i \in gone : i \in IDs /\ IdOf[p] # i /\ rows[i] # None /\ Silent(p, i)'
  BY <1>1, <1>2, PollSilence
<1>4. StatusForward
  BY <1>1 DEF StatusForward
<1>5. Becomes(p, "poll", x)
  BY DEF Poll, Becomes
<1> HIDE DEF gone
<1>6. d \in Documents /\ \A i \in IDs : d[i] = IF i \in gone THEN None ELSE rows[i]
  BY <1>0, WithoutTyped DEF Without
<1> HIDE DEF d
<1>7. ASSUME NEW e \in Documents, e = d PROVE Legal(e)'
  <2>0. \A i \in IDs : e[i] = IF i \in gone THEN None ELSE rows[i]
    BY <1>6, <1>7
  <2>1. \A i \in IDs : rows[i] # None => rows[i].gen \in Nat
    BY <1>0 DEF Documents, Rows
  <2>2. \A i \in IDs : i \in gone => SeenSilent(i)'
    BY <1>1, <1>3 DEF SeenSilent
  <2>3. Advances(e)'
    BY <1>1, <2>0, <2>1, SMT DEF Advances
  <2> QED
    BY <1>1, <2>0, <2>2, <2>3 DEF Legal
<1>8. x \in ThreadStates /\ (Sent(x) => x.next = d)
  BY <1>6, Facts, ThreadForms
<1> HIDE DEF x
<1>9. /\ thr' \in ThreadMaps /\ Pending'
      /\ \A q \in Procs, u \in Threads : thr'[q][u] = IF q = p /\ u = "poll" THEN x ELSE thr[q][u]
  BY <1>0, <1>1, <1>3, <1>4, <1>5, <1>7, <1>8, ThreadStep, SMT
<1>10. TypeOK'
  BY <1>0, <1>1, <1>2, <1>9 DEF TypeOK, ThreadMaps
<1>11. Lives'
  <2>1. \A q \in Procs : thr'[q]["main"] = thr[q]["main"]
    BY <1>9 DEF Threads
  <2> QED
    BY <1>0, <1>1, <2>1 DEF Lives, Sent
<1>12. SelfInView'
  BY <1>0, <1>1, <1>2 DEF SelfInView, InView
<1> QED
  BY <1>1, <1>9, <1>10, <1>11, <1>12 DEF IInv

-----------------------------------------------------------------------------
\* Accepted writes.

LEMMA AcceptedStep ==
  ASSUME IInv, NEW p \in Procs, NEW t \in Threads, PutBy(p, t), Progress(p),
         UNCHANGED <<conf, minted, roles, displaced, tracker, view>>,
         selfInc' \in [Procs -> Incs \cup {None}],
         \A q \in Procs : selfInc[q] \in Incs => selfInc'[q] \in Incs,
         status'[p] = "booting" => status[p] = "booting"
  PROVE  IInv' /\ Legal(rows')
<1>0. TypeOK /\ Pending /\ Lives /\ SelfInView
  BY DEF IInv
<1>1. /\ rows' \in Documents /\ Legal(rows') /\ exists' \in BOOLEAN /\ late' = {}
      /\ thr' \in ThreadMaps /\ Pending'
      /\ \A q \in Procs, u \in Threads : ~Sent(thr'[q][u])
  BY <1>0, PutByStep
<1>2. TypeOK'
  BY <1>0, <1>1 DEF TypeOK, ThreadMaps, Progress
<1>3. Lives'
  <2>1. \A q \in Procs : ~Sent(thr'[q]["main"])
    BY <1>1 DEF Threads
  <2> QED
    BY <1>0, <2>1 DEF Lives, Progress, Sent
<1>4. SelfInView'
  BY <1>0 DEF SelfInView, Progress, InView
<1> QED
  BY <1>1, <1>2, <1>3, <1>4 DEF IInv

LEMMA Accepted ==
  ASSUME IInv, NEW p \in Procs,
         RenewWrite(p) \/ GcWrite(p) \/ CloseWrite(p) \/ \E t \in RoleThreads : RoleWrite(p, t)
  PROVE  IInv' /\ Legal(rows')
<1>1. /\ selfInc \in [Procs -> Incs \cup {None}] /\ status \in [Procs -> Statuses]
      /\ {"main", "renew", "poll"} \subseteq Threads /\ RoleThreads \subseteq Threads
  BY Facts DEF TypeOK
<1>2. CASE GcWrite(p) \/ \E t \in RoleThreads : RoleWrite(p, t)
  <2>1. /\ UNCHANGED <<conf, status, selfInc, minted, roles, displaced, tracker, view>>
        /\ \E t \in Threads : PutBy(p, t)
    BY <1>1, <1>2 DEF GcWrite, RoleWrite, local, seen
  <2> QED
    BY <1>1, <2>1, SameProgress, AcceptedStep
<1>3. CASE RenewWrite(p)
  <2>1. UNCHANGED <<conf, status, minted, roles, displaced, tracker, view>> /\ PutBy(p, "renew")
    BY <1>3 DEF RenewWrite, seen
  <2>2. thr[p]["renew"].added \in Incs \cup {None}
    BY <1>1, Facts DEF ThreadStates
  <2>3. /\ selfInc' \in [Procs -> Incs \cup {None}]
        /\ \A q \in Procs : selfInc[q] \in Incs => selfInc'[q] \in Incs
    BY <1>1, <1>3, <2>2 DEF RenewWrite
  <2> QED
    BY <1>1, <2>1, <2>3, SameProgress, AcceptedStep
<1>4. CASE CloseWrite(p)
  <2>1. /\ UNCHANGED <<conf, selfInc, minted, roles, displaced, tracker, view>> /\ PutBy(p, "main")
        /\ status' = [status EXCEPT ![p] = "closed"]
    BY <1>4 DEF CloseWrite, seen
  <2>2. Progress(p) /\ status'[p] # "booting"
    BY <1>1, <2>1 DEF Progress, Statuses, Leaving
  <2> QED
    BY <1>1, <2>1, <2>2, AcceptedStep
<1> QED
  BY <1>2, <1>3, <1>4

LEMMA LateStep ==
  ASSUME IInv, LateLand
  PROVE  IInv' /\ Legal(rows')
<1>0. TypeOK /\ Pending /\ Lives /\ SelfInView
  BY DEF IInv
<1>1. PICK d \in late : Put(d, thr) /\ UNCHANGED <<local, seen>>
  BY DEF LateLand
<1>2. d \in Documents /\ Legal(d) /\ thr \in ThreadMaps
  BY <1>0, <1>1 DEF TypeOK, Pending, Waiting, ThreadMaps
<1>3. /\ exists' \in BOOLEAN /\ rows' = d /\ late' = {} /\ thr' \in ThreadMaps /\ Pending'
      /\ \A q \in Procs, u \in Threads : ~Sent(thr'[q][u])
  BY <1>1, <1>2, PutStep
<1>4. TypeOK'
  BY <1>0, <1>1, <1>2, <1>3 DEF TypeOK, ThreadMaps, local, seen
<1>5. Lives'
  <2>1. \A q \in Procs : ~Sent(thr'[q]["main"])
    BY <1>3 DEF Threads
  <2> QED
    BY <1>0, <1>1, <2>1 DEF Lives, Sent, local
<1>6. SelfInView'
  BY <1>0, <1>1 DEF SelfInView, InView, local, seen
<1> QED
  BY <1>2, <1>3, <1>4, <1>5, <1>6 DEF IInv

\* The bootstrap's write: the process serves, and sees itself.
LEMMA StartedStep ==
  ASSUME IInv, NEW p \in Procs, NEW d \in Documents, d[IdOf[p]] # None, status[p] = "booting",
         rows' = d, exists' \in BOOLEAN, late' = {}, thr' \in ThreadMaps, Pending',
         \A q \in Procs, u \in Threads : ~Sent(thr'[q][u]), Started(p, d)
  PROVE  IInv'
<1> DEFINE r == d[IdOf[p]].roles
<1>0. TypeOK /\ Lives /\ SelfInView /\ IdOf[p] \in IDs
  BY Facts
<1>1. r \in SUBSET RoleBits
  BY <1>0 DEF Documents, Rows
<1>2. /\ status' = [status EXCEPT ![p] = "up"] /\ roles' = [roles EXCEPT ![p] = r]
      /\ Observe(p, d, r) /\ UNCHANGED <<conf, selfInc, minted, displaced>>
  BY DEF Started
<1> HIDE DEF r
<1>3. /\ tracker' \in [Procs -> [IDs -> Observations \cup {None}]]
      /\ view' \in [Procs -> SUBSET (IDs \X SUBSET RoleBits)]
      /\ InView(view'[p], IdOf[p]) /\ \A q \in Procs \ {p} : view'[q] = view[q]
  BY <1>0, <1>1, <1>2, ObserveStep
<1>4. /\ status' \in [Procs -> Statuses] /\ status'[p] = "up"
      /\ \A q \in Procs \ {p} : status'[q] = status[q]
  BY <1>0, <1>2 DEF TypeOK, Statuses
<1>5. TypeOK'
  BY <1>0, <1>1, <1>2, <1>3, <1>4 DEF TypeOK, ThreadMaps
<1>6. Lives'
  <2>1. \A q \in Procs : ~Sent(thr'[q]["main"])
    BY DEF Threads
  <2> QED
    BY <1>0, <1>2, <1>4, <2>1 DEF Lives, Sent
<1>7. SelfInView'
  BY <1>0, <1>3, <1>4 DEF SelfInView, InView
<1> QED
  BY <1>5, <1>6, <1>7 DEF IInv

LEMMA Bootstrapped ==
  ASSUME IInv, NEW p \in Procs, BootFound(p) \/ BootWrite(p)
  PROVE  IInv' /\ Legal(rows')
<1>0. status[p] = "booting" /\ "main" \in Threads
  BY Facts DEF BootFound, BootWrite
<1>1. CASE BootFound(p)
  <2> DEFINE d == BootDocument(p)
             T == [thr EXCEPT ![p]["main"] = Idle]
  <2>1. d \in Documents /\ Legal(d) /\ d[IdOf[p]] # None
    BY <1>0, BootLegal
  <2>2. T \in ThreadMaps
    BY <1>0, Facts, ThreadSet, ThreadForms
  <2>3. Put(d, T) /\ Started(p, d)
    BY <1>1 DEF BootFound
  <2> HIDE DEF d, T
  <2>4. /\ exists' \in BOOLEAN /\ rows' = d /\ late' = {} /\ thr' \in ThreadMaps /\ Pending'
        /\ \A q \in Procs, u \in Threads : ~Sent(thr'[q][u])
    BY <2>1, <2>2, <2>3, PutStep
  <2> QED
    BY <1>0, <2>1, <2>3, <2>4, StartedStep
<1>2. CASE BootWrite(p)
  <2> DEFINE d == thr[p]["main"].next
  <2>1. PutBy(p, "main") /\ Started(p, d)
    BY <1>2 DEF BootWrite
  <2>2. /\ Sent(thr[p]["main"]) /\ rows' = d /\ rows' \in Documents /\ Legal(rows')
        /\ exists' \in BOOLEAN /\ late' = {} /\ thr' \in ThreadMaps /\ Pending'
        /\ \A q \in Procs, u \in Threads : ~Sent(thr'[q][u])
    BY <1>0, <2>1, Facts, PutByStep
  <2>3. d[IdOf[p]] # None
    BY <1>0, <2>2, Facts DEF Lives
  <2> HIDE DEF d
  <2> QED
    BY <1>0, <2>1, <2>2, <2>3, StartedStep
<1> QED
  BY <1>1, <1>2

-----------------------------------------------------------------------------
\* Failed calls, crashes and the start of Close.

LEMMA UnansweredLegal ==
  ASSUME IInv, NEW p \in Procs, NEW t \in Threads, NEW d \in Unanswered(p, t)
  PROVE  d \in Documents /\ Legal(d)
<1>1. CASE Sent(thr[p][t])
  <2>1. d = thr[p][t].next
    BY <1>1 DEF Unanswered, Sent
  <2>2. d \in Documents
    BY <2>1, Facts DEF ThreadStates
  <2> QED
    BY <1>1, <2>1, <2>2, Facts DEF Pending, Waiting
<1>2. CASE ~Sent(thr[p][t])
  <2>1. d = BootDocument(p) /\ status[p] = "booting"
    BY <1>2 DEF Unanswered, Sent
  <2> QED
    BY <2>1, BootLegal
<1> QED
  BY <1>1, <1>2

LEMMA GiveUp ==
  ASSUME IInv, NEW p \in Procs, Progress(p),
         UNCHANGED <<conf, exists, rows, selfInc, minted, roles, displaced, tracker, view>>,
         status'[p] = "booting" => status[p] = "booting",
         thr' \in ThreadMaps,
         \A q \in Procs, u \in Threads : thr'[q][u] = thr[q][u] \/ ~Sent(thr'[q][u]),
         \A d \in late' : d \in late \/ (d \in Documents /\ Legal(d))
  PROVE  IInv'
<1>0. TypeOK /\ Pending /\ Lives /\ SelfInView
  BY DEF IInv
<1>1. StatusForward /\ SilenceKept
  BY SilenceUnseen DEF Progress, StatusForward
<1>2. Pending'
  <2> SUFFICES ASSUME NEW d \in Documents, Waiting(d)' PROVE Legal(d)'
    BY DEF Pending
  <2>1. Waiting(d) \/ Legal(d)
    BY DEF Waiting
  <2>2. Legal(d)
    BY <1>0, <2>1 DEF Pending
  <2> QED
    BY <1>0, <1>1, <2>2, LegalKept
<1>3. TypeOK'
  BY <1>0 DEF TypeOK, ThreadMaps, Progress
<1>4. Lives'
  <2>1. \A q \in Procs : thr'[q]["main"] = thr[q]["main"] \/ ~Sent(thr'[q]["main"])
    BY DEF Threads
  <2> QED
    BY <1>0, <2>1 DEF Lives, Progress, Sent
<1>5. SelfInView'
  BY <1>0 DEF SelfInView, Progress, InView
<1> QED
  BY <1>2, <1>3, <1>4, <1>5 DEF IInv

LEMMA Failures ==
  ASSUME IInv, NEW p \in Procs,
         CloseBegin(p) \/ Crash(p) \/ \E t \in Threads : CallFails(p, t)
  PROVE  IInv' /\ rows' = rows
<1>1. UNCHANGED <<conf, exists, rows, selfInc, minted, roles, displaced, tracker, view>>
  BY DEF CloseBegin, Crash, CallFails, store, seen
<1>2. /\ thr \in ThreadMaps /\ status \in [Procs -> Statuses] /\ status[p] \in Statuses
      /\ Idle \in ThreadStates /\ ~Sent(Idle)
  BY Facts, ThreadForms DEF TypeOK
<1>3. CASE CloseBegin(p)
  <2>1. /\ thr' = thr /\ late' = late /\ p \in conf.leaving /\ status[p] = "up"
        /\ status' = [status EXCEPT ![p] = "closing"]
    BY <1>3 DEF CloseBegin, store
  <2>2. Progress(p) /\ status'[p] # "booting"
    BY <1>2, <2>1 DEF Progress, Statuses, Leaving
  <2> QED
    BY <1>1, <1>2, <2>1, <2>2, GiveUp
<1>4. CASE Crash(p)
  <2>1. /\ thr' = [thr EXCEPT ![p] = [t \in Threads |-> Idle]]
        /\ status' = [status EXCEPT ![p] = "dead"]
        /\ MayStillLand(UNION {Unanswered(p, t) : t \in Threads})
    BY <1>4 DEF Crash
  <2>2. Progress(p) /\ status'[p] # "booting"
    BY <1>2, <2>1 DEF Progress, Statuses, Leaving
  <2>3. /\ thr' \in ThreadMaps
        /\ \A q \in Procs, u \in Threads : thr'[q][u] = thr[q][u] \/ ~Sent(thr'[q][u])
    BY <1>2, <2>1 DEF ThreadMaps
  <2>4. \A d \in late' : d \in late \/ (d \in Documents /\ Legal(d))
    <3>1. \A d \in late' : d \in late \/ \E t \in Threads : d \in Unanswered(p, t)
      BY <2>1 DEF MayStillLand
    <3> QED
      BY <3>1, UnansweredLegal
  <2> QED
    BY <1>1, <2>2, <2>3, <2>4, GiveUp
<1>5. ASSUME NEW t \in Threads, CallFails(p, t) PROVE IInv'
  <2>1. /\ Becomes(p, t, Idle) /\ MayStillLand(Unanswered(p, t))
        /\ \/ status' = [status EXCEPT ![p] = "dead"] /\ status[p] = "booting"
           \/ status' = [status EXCEPT ![p] = "closed"] /\ status[p] = "closing"
           \/ status' = [status EXCEPT ![p] = status[p]]
    BY <1>5 DEF CallFails, Becomes
  <2>2. Progress(p) /\ (status'[p] = "booting" => status[p] = "booting")
    BY <1>2, <2>1 DEF Progress, Statuses, Leaving, IInv, Lives
  <2>3. /\ thr' \in ThreadMaps
        /\ \A q \in Procs, u \in Threads : thr'[q][u] = thr[q][u] \/ ~Sent(thr'[q][u])
    BY <1>2, <2>1 DEF ThreadMaps, Becomes
  <2>4. \A d \in late' : d \in late \/ (d \in Documents /\ Legal(d))
    <3>1. \A d \in late' : d \in late \/ d \in Unanswered(p, t)
      BY <2>1 DEF MayStillLand
    <3> QED
      BY <3>1, UnansweredLegal
  <2> QED
    BY <1>1, <2>2, <2>3, <2>4, GiveUp
<1> QED
  BY <1>1, <1>3, <1>4, <1>5

-----------------------------------------------------------------------------
LEMMA InitInv == Init => IInv
<1> SUFFICES ASSUME Init PROVE IInv
  OBVIOUS
<1>1. EmptyDocument \in Documents
  BY DEF EmptyDocument, Documents
<1>2. thr \in ThreadMaps /\ \A q \in Procs, u \in Threads : ~Sent(thr[q][u])
  BY ThreadForms DEF Init, ThreadMaps
<1>3. TypeOK
  BY <1>1, <1>2 DEF Init, TypeOK, Statuses, ThreadMaps
<1>4. Pending
  BY <1>2 DEF Init, Pending, Waiting
<1> QED
  BY <1>3, <1>4 DEF Init, IInv, Lives, SelfInView

\* Every step keeps the invariant, and changes the document by a legal edit.
LEMMA NextInv ==
  ASSUME IInv, [Next]_vars
  PROVE  IInv' /\ (rows' = rows \/ Legal(rows'))
<1>1. CASE UNCHANGED vars
  <2>1. TypeOK' /\ Lives' /\ SelfInView'
    BY <1>1 DEF IInv, vars, TypeOK, Lives, SelfInView, Sent, InView
  <2>2. Pending'
    <3>1. \A d \in Documents : Waiting(d)' => Waiting(d)
      BY <1>1 DEF vars, Waiting, Sent
    <3>2. \A d \in Documents : Legal(d) => Legal(d)'
      BY <1>1, LegalKept, SilenceUnseen DEF IInv, vars, StatusForward
    <3> QED
      BY <3>1, <3>2 DEF IInv, Pending
  <2> QED
    BY <1>1, <2>1, <2>2 DEF IInv, vars
<1>2. CASE LateLand
  BY <1>2, LateStep
<1>3. ASSUME NEW p \in Procs, Boot(p) PROVE IInv' /\ (rows' = rows \/ Legal(rows'))
  BY <1>3, StartStep, Bootstrapped, BootReadStep, Refusals DEF Boot
<1>4. ASSUME NEW p \in Procs, Renew(p) PROVE IInv' /\ (rows' = rows \/ Legal(rows'))
  BY <1>4, RenewStep, ReAddStep, Rests, Accepted, Refusals DEF Renew
<1>5. ASSUME NEW p \in Procs, PollLoop(p) PROVE IInv' /\ (rows' = rows \/ Legal(rows'))
  BY <1>5, PollStep, Accepted, Refusals DEF PollLoop
<1>6. ASSUME NEW p \in Procs, Close(p) PROVE IInv' /\ (rows' = rows \/ Legal(rows'))
  BY <1>6, CloseReadStep, Rests, Accepted, Refusals DEF Close
<1>7. ASSUME NEW p \in Procs, NEW t \in RoleThreads, SetRole(p, t) \/ RoleCall(p, t)
      PROVE  IInv' /\ (rows' = rows \/ Legal(rows'))
  BY <1>7, RoleReadStep, Rests, Accepted, Refusals DEF RoleCall
<1>8. ASSUME NEW p \in Procs, CloseBegin(p) \/ Crash(p) \/ \E t \in Threads : CallFails(p, t)
      PROVE  IInv' /\ (rows' = rows \/ Legal(rows'))
  BY <1>8, Failures
<1> QED
  BY <1>1, <1>2, <1>3, <1>4, <1>5, <1>6, <1>7, <1>8 DEF Next

-----------------------------------------------------------------------------
THEOREM Inductive == Spec => []IInv
<1>1. Init => IInv
  BY InitInv
<1>2. IInv /\ [Next]_vars => IInv'
  BY NextInv
<1> QED
  BY <1>1, <1>2, PTL DEF Spec

\* The type invariant: in particular no bootstrap publishes the roles of a row
\* it does not have, and every document written is a document.
THEOREM TypeCorrect == Spec => []TypeOK
<1>1. IInv => TypeOK
  BY DEF IInv
<1> QED
  BY <1>1, Inductive, PTL

\* observe() keeps the process itself in what it publishes, for any number of
\* processes and identities, whatever peers did to its row.
THEOREM SeesItself == Spec => []SelfInView
<1>1. IInv => SelfInView
  BY DEF IInv
<1> QED
  BY <1>1, Inductive, PTL

\* Concurrent editors do not lose each other's rows: a row goes only after a
\* full window of silence or a Close, and an edit touches one row.
THEOREM OthersSurvive == Spec => RowsSurviveOthers
<1> DEFINE Kept == \A i \in IDs : rows'[i] # rows[i] => Reaped(i) \/ EditedByItsOwn(i)
<1>1. IInv /\ [Next]_vars => [Kept]_vars
  <2> SUFFICES ASSUME IInv, [Next]_vars PROVE Kept
    OBVIOUS
  <2>1. rows' = rows \/ Legal(rows')
    BY NextInv
  <2> QED
    BY <2>1 DEF Legal, Reaped, EditedByItsOwn, SeenSilent, Withdrawn, Leaving
<1> QED
  BY <1>1, Inductive, PTL DEF Spec, RowsSurviveOthers

\* No write rolls a row's counter back, and another incarnation's row always
\* has a higher one: upsert bumps past the row it replaces, late or not.
THEOREM LeasesAdvance == Spec => LeaseAdvances
<1> DEFINE Forward ==
      \A i \in IDs : rows[i] # None /\ rows'[i] # None =>
        /\ rows'[i].gen >= rows[i].gen
        /\ rows'[i].inc # rows[i].inc => rows'[i].gen > rows[i].gen
<1>1. IInv /\ [Next]_vars => [Forward]_vars
  <2> SUFFICES ASSUME IInv, [Next]_vars PROVE Forward
    OBVIOUS
  <2>1. CASE Legal(rows')
    BY <2>1 DEF Legal, Advances
  <2>2. CASE rows' = rows
    <3>1. \A i \in IDs : rows[i] # None => rows[i].gen \in Nat
      BY DEF IInv, TypeOK, Documents, Rows
    <3> QED
      BY <2>2, <3>1, SMT
  <2> QED
    BY <2>1, <2>2, NextInv
<1> QED
  BY <1>1, Inductive, PTL DEF Spec, LeaseAdvances

=============================================================================
