-------------------------- MODULE CasCoordinator --------------------------
(***************************************************************************)
(* The CAS membership coordinator, pkg/coord/cas/cas.go: processes that    *)
(* share one document in a conditional store (pkg/storageunit/condstore.go)*)
(* and keep it only by read-modify-write.                                  *)
(*                                                                         *)
(* A process has four kinds of thread that touch the document:             *)
(*   "main"   bootstrap (Start) and the row removal of Close               *)
(*   "renew"  the renewal loop, renewOnce                                  *)
(*   "poll"   the poll loop, pollOnce: observe, publish, gcExpired         *)
(*   RoleThreads  callers of SetRole, which may overlap                    *)
(* A read-modify-write is two steps, the Get (with the edit, a pure        *)
(* function of what Get returned and of local state) and the conditional   *)
(* write, so that every interleaving of two editors is a behaviour.        *)
(*                                                                         *)
(* A version token changes on every successful write and is never reused,  *)
(* so all it can tell is whether the document was written since the Get.   *)
(* That is what a thread's `fresh' records; the model carries no version   *)
(* numbers and needs no bound on the number of writes.                     *)
(*                                                                         *)
(* A store call may time out.  Its write is then in `late': it may still   *)
(* be applied at any later time at which its precondition holds, which     *)
(* covers the reply that was lost after the write landed.  The same holds  *)
(* for the writes in flight when a process crashes.                        *)
(***************************************************************************)
EXTENDS MembershipDocument, FiniteSets

CONSTANTS IdOf,         \* the identity each process wears
          Predecessor,  \* the process of the same identity started before it
          InitialRoles, \* the roles a process may ask for in coord.Params
          WantRoles,    \* the roles callers pass to SetRole
          RoleThreads,  \* concurrent callers of SetRole in one process
          RoleJoining,  \* the bit a founder never advertises
          Configs       \* the deployments considered, one chosen in Init

ConfigType ==
  [attempts : Nat \ {0},   \* casAttempts, 8 in the code
   expiry : Nat \ {0},     \* unchanged polls that expire a member
   gens : Nat,             \* bound on a row's lease counter
   incs : Nat,             \* bound on the nonces one process mints
   lates : Nat,            \* bound on timed-out writes still in flight
   started : SUBSET Procs, \* the processes there are
   renewing : SUBSET Procs,\* those whose renewal loop runs (RenewalInterval > 0)
   polling : SUBSET Procs, \* those whose poll loop runs (PollInterval > 0)
   callers : SUBSET Procs, \* those whose roles are changed after Start
   crashing : SUBSET Procs,\* those that may crash
   leaving : SUBSET Procs] \* those that may be closed

ASSUME CoordinatorAssumption ==
  /\ IdOf \in [Procs -> IDs]
  /\ Predecessor \in [Procs -> Procs \cup {None}]
  /\ InitialRoles \subseteq SUBSET RoleBits
  /\ WantRoles \subseteq SUBSET RoleBits
  /\ RoleThreads \cap {"main", "renew", "poll"} = {}
  /\ Configs \subseteq ConfigType

VARIABLES
  conf,      \* the deployment
  exists,    \* the document has been created
  rows,      \* its content
  late,      \* documents of timed-out writes that may still be applied
  status,    \* life cycle of each process
  selfInc,   \* Coordinator.selfInc
  minted,    \* nonces minted by newInc
  roles,     \* Coordinator.roles, the locally desired roles
  displaced, \* Coordinator.displaced: None, or the incarnation it stepped down for
  tracker,   \* Coordinator.tracker
  view,      \* the published snapshot: the members and their roles
  thr        \* the read-modify-write each thread is in

store == <<exists, rows, late>>
local == <<conf, status, selfInc, minted, roles, displaced>>
seen  == <<tracker, view>>
vars  == <<conf, exists, rows, late, status, selfInc, minted, roles, displaced,
           tracker, view, thr>>

Threads == {"main", "renew", "poll"} \cup RoleThreads

Statuses == {"down", "booting", "up", "closing", "closed", "dead"}

(***************************************************************************)
(* A thread: what it is doing, which attempt of its read-modify-write this *)
(* is, the document it is about to write, the nonce its edit minted, and   *)
(* whether the document is still the one its Get returned.                 *)
(***************************************************************************)
ThreadStates ==
  [pc : {"idle", "read", "write"}, try : Nat, next : Documents,
   added : Incs \cup {None}, fresh : BOOLEAN]

Idle == [pc |-> "idle", try |-> 0, next |-> EmptyDocument, added |-> None, fresh |-> FALSE]

Reading(n) == [Idle EXCEPT !.pc = "read", !.try = n]

Writing(n, d, inc) ==
  [pc |-> "write", try |-> n, next |-> d, added |-> inc, fresh |-> TRUE]

(* The attempt a Get belongs to: the first one, or the one a lost race left. *)
Attempt(th) == IF th.pc = "idle" THEN 1 ELSE th.try

AfterLostRace(th) == IF th.try < conf.attempts THEN Reading(th.try + 1) ELSE Idle

Init ==
  /\ conf \in Configs
  /\ exists = FALSE
  /\ rows = EmptyDocument
  /\ late = {}
  /\ status = [p \in Procs |-> "down"]
  /\ selfInc = [p \in Procs |-> None]
  /\ minted = [p \in Procs |-> 0]
  /\ roles = [p \in Procs |-> {}]
  /\ displaced = [p \in Procs |-> None]
  /\ tracker = [p \in Procs |-> [i \in IDs |-> None]]
  /\ view = [p \in Procs |-> {}]
  /\ thr = [p \in Procs |-> [t \in Threads |-> Idle]]

-----------------------------------------------------------------------------
(***************************************************************************)
(* The conditional store.                                                  *)
(***************************************************************************)
(***************************************************************************)
(* What a successful write does to the threads that read before it: their  *)
(* own write will be refused, and the document they hold is never used.    *)
(***************************************************************************)
StillCurrent(T) == T

Outdated(T) ==
  [q \in Procs |-> [u \in Threads |->
     IF T[q][u].pc = "write" THEN [Idle EXCEPT !.pc = "write", !.try = T[q][u].try]
     ELSE T[q][u]]]

PutKeepingLate(d, T) ==
  /\ exists' = TRUE
  /\ rows' = d
  /\ late' = late
  /\ thr' = Outdated(T)

Put(d, T) ==
  /\ exists' = TRUE
  /\ rows' = d
  /\ late' = {}
  /\ thr' = Outdated(T)

(* The write of thread t of p is accepted and the thread is done. *)
PutBy(p, t) ==
  /\ thr[p][t].pc = "write"
  /\ thr[p][t].fresh
  /\ Put(thr[p][t].next, [thr EXCEPT ![p][t] = Idle])

(* The write of thread t of p is refused: the mutate loop re-reads. *)
RefusedBy(p, t) ==
  /\ thr[p][t].pc = "write"
  /\ ~thr[p][t].fresh
  /\ thr' = [thr EXCEPT ![p][t] = AfterLostRace(thr[p][t])]

LateLand ==
  \E d \in late :
    /\ Put(d, thr)
    /\ UNCHANGED <<local, seen>>

-----------------------------------------------------------------------------
(***************************************************************************)
(* Start and bootstrap.                                                    *)
(***************************************************************************)
RowFromZero(inc, r) == [inc |-> inc, gen |-> 0, roles |-> r]

Row(inc, r) == [inc |-> inc, gen |-> 1, roles |-> r]

FounderRoles(r) == r \ {RoleJoining}

Start(p) ==
  /\ p \in conf.started /\ status[p] = "down"
  /\ Predecessor[p] # None => status[Predecessor[p]] # "down"
  /\ \E r \in InitialRoles : roles' = [roles EXCEPT ![p] = r]
  /\ status' = [status EXCEPT ![p] = "booting"]
  /\ selfInc' = [selfInc EXCEPT ![p] = <<p, 0>>]
  /\ minted' = [minted EXCEPT ![p] = 1]
  /\ thr' = [thr EXCEPT ![p]["main"] = Reading(1)]
  /\ UNCHANGED <<conf, store, displaced, seen>>

(***************************************************************************)
(* observe(d) from p's tracker: what it records and publishes.             *)
(***************************************************************************)
Observe(p, d, r) ==
  LET obs == Tracked(tracker[p], d, conf.expiry, IdOf[p])
  IN  /\ tracker' = [tracker EXCEPT ![p] = obs]
      /\ view' = [view EXCEPT ![p] = LiveView(d, Expired(obs, conf.expiry), IdOf[p], r)]

BootDocument(p) ==
  LET stance == IF Members(rows) = {} THEN FounderRoles(roles[p]) ELSE roles[p]
  IN  Upsert(rows, IdOf[p], Row(selfInc[p], stance))

(* The write of a bootstrap lands: Start records the roles and observes. *)
Started(p, d) ==
  /\ status' = [status EXCEPT ![p] = "up"]
  /\ roles' = [roles EXCEPT ![p] = d[IdOf[p]].roles]
  /\ Observe(p, d, d[IdOf[p]].roles)
  /\ UNCHANGED <<conf, selfInc, minted, displaced>>

BootFound(p) ==
  /\ status[p] = "booting"
  /\ thr[p]["main"].pc = "read"
  /\ ~exists
  /\ Put(BootDocument(p), [thr EXCEPT ![p]["main"] = Idle])
  /\ Started(p, BootDocument(p))

CounterRoom(i) == rows[i] # None => rows[i].gen < conf.gens

BootRead(p) ==
  /\ status[p] = "booting"
  /\ thr[p]["main"].pc = "read"
  /\ exists
  /\ CounterRoom(IdOf[p])
  /\ thr' = [thr EXCEPT ![p]["main"] = Writing(@.try, BootDocument(p), selfInc[p])]
  /\ UNCHANGED <<store, local, seen>>

BootWrite(p) ==
  /\ status[p] = "booting"
  /\ PutBy(p, "main")
  /\ Started(p, thr[p]["main"].next)

BootRefused(p) ==
  /\ status[p] = "booting"
  /\ RefusedBy(p, "main")
  /\ status' = [status EXCEPT ![p] = IF thr'[p]["main"] = Idle THEN "dead" ELSE @]
  /\ UNCHANGED <<conf, store, selfInc, minted, roles, displaced, seen>>

-----------------------------------------------------------------------------
(***************************************************************************)
(* renewOnce.  The edit finds its own row, another incarnation's row, or   *)
(* no row.  Close stops the loop between renewals, never inside one.       *)
(***************************************************************************)
RenewTurn(p) ==
  \/ thr[p]["renew"].pc = "read"
  \/ /\ p \in conf.renewing /\ status[p] = "up" /\ displaced[p] = None
     /\ thr[p]["renew"].pc = "idle"

Own(p) == rows[IdOf[p]]

OwnsRow(p) == Own(p) # None /\ Own(p).inc = selfInc[p]

RenewCounterOnly(p) ==
  /\ RenewTurn(p)
  /\ OwnsRow(p)
  /\ CounterRoom(IdOf[p])
  /\ thr' = [thr EXCEPT ![p]["renew"] =
               Writing(Attempt(@), [rows EXCEPT ![IdOf[p]].gen = @ + 1], None)]
  /\ UNCHANGED <<store, local, seen>>

RenewInPlace(p) ==
  /\ RenewTurn(p)
  /\ OwnsRow(p)
  /\ CounterRoom(IdOf[p])
  /\ LET row == [Own(p) EXCEPT !.gen = @ + 1, !.roles = roles[p]]
     IN  thr' = [thr EXCEPT ![p]["renew"] =
                   Writing(Attempt(@), [rows EXCEPT ![IdOf[p]] = row], None)]
  /\ UNCHANGED <<store, local, seen>>

RenewNothing(p) == RenewTurn(p) /\ Own(p) = None /\ UNCHANGED vars

RenewReAdd(p) ==
  /\ RenewTurn(p)
  /\ Own(p) = None
  /\ minted[p] < conf.incs
  /\ LET inc == <<p, minted[p]>>
     IN  thr' = [thr EXCEPT ![p]["renew"] =
                   Writing(Attempt(@), Upsert(rows, IdOf[p], Row(inc, roles[p])), inc)]
  /\ minted' = [minted EXCEPT ![p] = @ + 1]
  /\ UNCHANGED <<conf, store, status, selfInc, roles, displaced, seen>>

StepDown(p) ==
  /\ RenewTurn(p)
  /\ Own(p) # None
  /\ ~OwnsRow(p)
  /\ displaced' = [displaced EXCEPT ![p] = Own(p).inc]
  /\ thr' = [thr EXCEPT ![p]["renew"] = Idle]
  /\ UNCHANGED <<conf, store, status, selfInc, minted, roles, seen>>

RenewWrite(p) ==
  /\ PutBy(p, "renew")
  /\ selfInc' = [selfInc EXCEPT ![p] =
                   IF thr[p]["renew"].added # None THEN thr[p]["renew"].added ELSE @]
  /\ UNCHANGED <<conf, status, minted, roles, displaced, seen>>

RenewRefused(p) ==
  /\ RefusedBy(p, "renew")
  /\ UNCHANGED <<store, local, seen>>

-----------------------------------------------------------------------------
(***************************************************************************)
(* pollOnce: one Get, observe, publish; then, if members expired, gcExpired*)
(* removes their rows in one conditional write at the version read.        *)
(***************************************************************************)
Poll(p) ==
  /\ p \in conf.polling
  /\ status[p] = "up"
  /\ displaced[p] = None
  /\ thr[p]["poll"] = Idle
  /\ Observe(p, rows, roles[p])
  /\ LET gone == Expired(tracker'[p], conf.expiry)
     IN  thr' = [thr EXCEPT ![p]["poll"] =
                   IF gone = {} THEN Idle ELSE Writing(conf.attempts, Without(rows, gone), None)]
  /\ UNCHANGED <<store, local>>

GcWrite(p) ==
  /\ PutBy(p, "poll")
  /\ UNCHANGED <<local, seen>>

GcRefused(p) ==
  /\ RefusedBy(p, "poll")
  /\ UNCHANGED <<store, local, seen>>

-----------------------------------------------------------------------------
(***************************************************************************)
(* SetRole.  The call records the desired roles, then edits the row found  *)
(* under its own ID; the edit re-reads the desired roles.                  *)
(***************************************************************************)
SetRole(p, t) ==
  /\ p \in conf.callers
  /\ status[p] \in {"up", "closing"}
  /\ displaced[p] = None
  /\ thr[p][t] = Idle
  /\ \E want \in WantRoles \ {roles[p]} : roles' = [roles EXCEPT ![p] = want]
  /\ thr' = [thr EXCEPT ![p][t] = Reading(1)]
  /\ UNCHANGED <<conf, store, status, selfInc, minted, displaced, seen>>

RoleRead(p, t) ==
  /\ thr[p][t].pc = "read"
  /\ LET d == [rows EXCEPT ![IdOf[p]].roles = roles[p]]
     IN  thr' = [thr EXCEPT ![p][t] =
                   IF Own(p) = None \/ Own(p).roles = roles[p]
                   THEN Idle ELSE Writing(@.try, d, None)]
  /\ UNCHANGED <<store, local, seen>>

RoleWrite(p, t) ==
  /\ PutBy(p, t)
  /\ UNCHANGED <<local, seen>>

RoleRefused(p, t) ==
  /\ RefusedBy(p, t)
  /\ UNCHANGED <<store, local, seen>>

-----------------------------------------------------------------------------
(***************************************************************************)
(* Close: stop the loops, wait for the call each is in, and unless the     *)
(* process stepped down remove the row found under its ID.                 *)
(***************************************************************************)
CloseBegin(p) ==
  /\ p \in conf.leaving
  /\ status[p] = "up"
  /\ status' = [status EXCEPT ![p] = "closing"]
  /\ UNCHANGED <<conf, store, selfInc, minted, roles, displaced, seen, thr>>

LoopsStopped(p) ==
  /\ status[p] = "closing"
  /\ thr[p]["renew"] = Idle
  /\ thr[p]["poll"] = Idle

CloseRead(p) ==
  /\ LoopsStopped(p)
  /\ thr[p]["main"].pc \in {"idle", "read"}
  /\ displaced[p] = None \/ thr[p]["main"].pc = "read"
  /\ Own(p) # None
  /\ thr' = [thr EXCEPT ![p]["main"] =
               Writing(Attempt(@), Without(rows, {IdOf[p]}), None)]
  /\ UNCHANGED <<store, local, seen>>

CloseSkip(p) ==
  /\ LoopsStopped(p)
  /\ \/ thr[p]["main"].pc = "idle" /\ displaced[p] # None
     \/ thr[p]["main"].pc \in {"idle", "read"} /\ Own(p) = None
  /\ status' = [status EXCEPT ![p] = "closed"]
  /\ thr' = [thr EXCEPT ![p]["main"] = Idle]
  /\ UNCHANGED <<conf, store, selfInc, minted, roles, displaced, seen>>

CloseWrite(p) ==
  /\ status[p] = "closing"
  /\ PutBy(p, "main")
  /\ status' = [status EXCEPT ![p] = "closed"]
  /\ UNCHANGED <<conf, selfInc, minted, roles, displaced, seen>>

CloseRefused(p) ==
  /\ status[p] = "closing"
  /\ RefusedBy(p, "main")
  /\ status' = [status EXCEPT ![p] = IF thr'[p]["main"] = Idle THEN "closed" ELSE @]
  /\ UNCHANGED <<conf, store, selfInc, minted, roles, displaced, seen>>

-----------------------------------------------------------------------------
(***************************************************************************)
(* Faults.  A call that times out ends its operation with an error; a      *)
(* write it had sent may still be applied while its precondition holds.    *)
(***************************************************************************)
Unanswered(p, t) ==
  IF thr[p][t].pc = "write" /\ thr[p][t].fresh THEN {thr[p][t].next}
  ELSE IF status[p] = "booting" /\ t = "main" /\ thr[p][t].pc = "read" /\ ~exists
       THEN {BootDocument(p)}
       ELSE {}

MayStillLand(sent) ==
  \E some \in SUBSET sent :
    /\ Cardinality(late \cup some) <= conf.lates
    /\ late' = late \cup some

CallFails(p, t) ==
  /\ conf.lates > 0
  /\ thr[p][t].pc # "idle"
  /\ MayStillLand(Unanswered(p, t))
  /\ thr' = [thr EXCEPT ![p][t] = Idle]
  /\ status' = [status EXCEPT ![p] =
                  CASE t = "main" /\ @ = "booting" -> "dead"
                    [] t = "main" /\ @ = "closing" -> "closed"
                    [] OTHER -> @]
  /\ UNCHANGED <<conf, exists, rows, selfInc, minted, roles, displaced, seen>>

Crash(p) ==
  /\ p \in conf.crashing
  /\ status[p] \in {"booting", "up", "closing"}
  /\ MayStillLand(UNION {Unanswered(p, t) : t \in Threads})
  /\ thr' = [thr EXCEPT ![p] = [t \in Threads |-> Idle]]
  /\ status' = [status EXCEPT ![p] = "dead"]
  /\ UNCHANGED <<conf, exists, rows, selfInc, minted, roles, displaced, seen>>

-----------------------------------------------------------------------------
Boot(p) == Start(p) \/ BootFound(p) \/ BootRead(p) \/ BootWrite(p) \/ BootRefused(p)

Renew(p) ==
  RenewInPlace(p) \/ RenewReAdd(p) \/ StepDown(p) \/ RenewWrite(p) \/ RenewRefused(p)

PollLoop(p) == Poll(p) \/ GcWrite(p) \/ GcRefused(p)

RoleCall(p, t) == RoleRead(p, t) \/ RoleWrite(p, t) \/ RoleRefused(p, t)

Close(p) == CloseRead(p) \/ CloseSkip(p) \/ CloseWrite(p) \/ CloseRefused(p)

Next ==
  \/ LateLand
  \/ \E p \in Procs :
       \/ Boot(p) \/ Renew(p) \/ PollLoop(p) \/ CloseBegin(p) \/ Close(p) \/ Crash(p)
       \/ \E t \in RoleThreads : SetRole(p, t) \/ RoleCall(p, t)
       \/ \E t \in Threads : CallFails(p, t)

Spec == Init /\ [][Next]_vars

(***************************************************************************)
(* The tickers of the two loops keep firing and a store call that is made  *)
(* returns; nothing is assumed of Start, SetRole, Close or crashes.        *)
(***************************************************************************)
Fairness ==
  \A p \in Procs :
    /\ WF_vars(Renew(p))
    /\ WF_vars(PollLoop(p))
    /\ \A t \in RoleThreads : WF_vars(RoleCall(p, t))

FairSpec == Spec /\ Fairness

-----------------------------------------------------------------------------
TypeOK ==
  /\ conf \in Configs
  /\ exists \in BOOLEAN
  /\ rows \in Documents
  /\ late \subseteq Documents
  /\ status \in [Procs -> Statuses]
  /\ selfInc \in [Procs -> Incs \cup {None}]
  /\ minted \in [Procs -> Nat]
  /\ roles \in [Procs -> SUBSET RoleBits]
  /\ displaced \in [Procs -> Incs \cup {None}]
  /\ tracker \in [Procs -> [IDs -> Observations \cup {None}]]
  /\ view \in [Procs -> SUBSET (IDs \X SUBSET RoleBits)]
  /\ thr \in [Procs -> [Threads -> ThreadStates]]

(***************************************************************************)
(* Observer q has seen this very row of member i, incarnation and counter, *)
(* unchanged in conf.expiry consecutive polls after the first one.         *)
(***************************************************************************)
Silent(q, i) ==
  /\ tracker[q][i] # None
  /\ tracker[q][i].inc = rows[i].inc /\ tracker[q][i].gen = rows[i].gen
  /\ tracker[q][i].stale >= conf.expiry

(***************************************************************************)
(* "concurrent editors interleave without losing each other's rows"        *)
(* (cas.go, mutate): whatever the order of the conditional writes, and     *)
(* with writes that land after their caller gave up, a row disappears only *)
(* because an observer of another identity saw that very row silent for    *)
(* the full window, or because a process wearing the identity was closed;  *)
(* and an edit of one row leaves the rows of the others alone.             *)
(***************************************************************************)
Reaped(i) == rows'[i] = None /\ \E q \in Procs : IdOf[q] # i /\ Silent(q, i)

EditedByItsOwn(i) ==
  /\ \A j \in IDs \ {i} : rows'[j] = rows[j]
  /\ rows'[i] = None =>
       \E p \in conf.leaving : IdOf[p] = i /\ status[p] \in {"closing", "closed", "dead"}

RowsSurviveOthers ==
  [][\A i \in IDs : rows'[i] # rows[i] => Reaped(i) \/ EditedByItsOwn(i)]_vars

(***************************************************************************)
(* A row's lease only moves forward: no write, however late, rolls back    *)
(* the counter of a row or puts back an earlier row of the identity.       *)
(***************************************************************************)
LeaseAdvances ==
  [][\A i \in IDs : rows[i] # None /\ rows'[i] # None =>
       /\ rows'[i].gen >= rows[i].gen
       /\ rows'[i].inc # rows[i].inc => rows'[i].gen > rows[i].gen]_vars

(***************************************************************************)
(* A process that serves is a member of its own view, whatever peers did   *)
(* to its row (observe() synthesizes it).                                  *)
(***************************************************************************)
SelfInView == \A p \in Procs : status[p] \in {"up", "closing"} => InView(view[p], IdOf[p])

-----------------------------------------------------------------------------
(***************************************************************************)
(* Liveness.                                                               *)
(***************************************************************************)
Serving(p) == status[p] = "up" /\ displaced[p] = None

Unworn(i) ==
  \A p \in Procs : IdOf[p] = i => status[p] \notin {"booting", "up", "closing"}

(***************************************************************************)
(* An identity no running process wears (a crash, a failed row removal, a  *)
(* bootstrap that gave up) leaves the view of every process that keeps     *)
(* polling: the expiry window closes on the row it left behind.            *)
(***************************************************************************)
DeadMemberLeavesView ==
  \A i \in IDs, q \in Procs :
    (q \in conf.polling /\ Unworn(i) /\ Serving(q))
      ~> (~InView(view[q], i) \/ ~Unworn(i) \/ ~Serving(q))

(***************************************************************************)
(* A process whose row a peer reaped by mistake is put back by its own     *)
(* renewals (as long as the model still has a nonce to give it).           *)
(***************************************************************************)
ReapedMemberReturns ==
  \A p \in Procs :
    (p \in conf.renewing /\ Serving(p) /\ Own(p) = None)
      ~> (Own(p) # None \/ ~Serving(p) \/ minted[p] = conf.incs)

(***************************************************************************)
(* Desired roles end up in the row a process owns, unless the desire or    *)
(* the ownership changes first: neither a SetRole that lost its races, nor *)
(* one that found no row while a renewal was re-adding it with the roles   *)
(* of before, leaves the row out of date for good.  (The renewal in flight *)
(* and the next one need room below the model's bound on the counter.)     *)
(***************************************************************************)
RolesConverge ==
  \A p \in Procs, r \in SUBSET RoleBits :
    (p \in conf.renewing /\ Serving(p) /\ roles[p] = r /\ OwnsRow(p) /\ Own(p).gen + 2 <= conf.gens)
      ~> (~Serving(p) \/ roles[p] # r \/ ~OwnsRow(p) \/ Own(p).roles = r)

=============================================================================
