----------------------------- MODULE SecretProofs -----------------------------
(***************************************************************************)
(* What the status of a secret vouches for, whatever the manifests, the    *)
(* values, the rotations, the failures and the writes of other people: the *)
(* inductive invariant of ActionsSecret and what follows from it.          *)
(***************************************************************************)
EXTENDS ActionsSecret, ManagedProofs

-----------------------------------------------------------------------------
(* The invariant *)

Knowing == {"get", "upsert", "reread"}
Labels == Knowing \cup {"source", "delete"}

Readings == [value : Values, rv : 1..MaxRotations + 1]

WorldInv ==
    /\ source \in Sources /\ remote \in Remotes
    /\ updatedAt \in Stamps \ {0} /\ missed \in BOOLEAN

\* Where the worker can be; what it has read is what that version of the Kubernetes
\* Secret holds.
WorkInv ==
    /\ pc \in Labels \cup {"idle", "addFinalizer", "resolve", "status", "removeFinalizer"}
    /\ pc \in Knowing \cup {"source"} => obj.phase = "live"
    /\ pc = "delete" => obj.phase = "deleting"
    /\ pc \in Knowing =>
         /\ found \in Readings /\ found.rv <= source.rv
         /\ found.rv = source.rv => found.value = source.data[obj.spec.key]

\* In a world of the Kubernetes Secret s, the secret r on GitHub, its last update t and
\* nothing missed (~m), the time and the version in a status imply the value that
\* the manifest asks for.
Honest(status, spec, s, r, t, m) ==
    ~m /\ r.exists /\ status.at = t /\ status.rv = s.rv => r.value = s.data[spec.key]

\* A version of the resource speaks of generations and versions that there are, and what
\* it says of its own generation is honest.
Faithful(o, s, r, t, m) ==
    o.phase # "absent" =>
      /\ o.status.obsGen <= o.gen /\ o.status.rv <= s.rv
      /\ o.status.obsGen = o.gen => Honest(o.status, o.spec, s, r, t, m)

\* Every copy is faithful, for a reconcile may find its own copy in order and pass it on;
\* the time that is about to be read is the operator's own, unless it missed something;
\* the status about to be written is honest.
Sent(s, r, m) ==
    ~m /\ r.exists /\ found.rv = s.rv => r.value = s.data[obj.spec.key]
Reported(s, r, t, m) ==
    /\ report.obsGen = obj.gen /\ report.rv <= s.rv
    /\ Honest(report, obj.spec, s, r, t, m)

VouchInv ==
    /\ \A o \in {cr, cache, obj} : Faithful(o, source, remote, updatedAt, missed)
    /\ pc = "reread" => Sent(source, remote, missed)
    /\ pc = "status" => Reported(source, remote, updatedAt, missed)

\* A deletion that is to remove the secret drops the finalizer after it has.
CleanInv == pc = "removeFinalizer" /\ obj.policy # "Orphan" => ~remote.mine

IInv ==
    /\ ManagedInv(Statuses) /\ CopyInv /\ HoldInv
    /\ WorldInv /\ WorkInv /\ VouchInv /\ CleanInv

LEMMA StatusType ==
    ASSUME ManagedInv(Statuses), CopyInv
    PROVE  /\ \A o \in {cr, cache, obj} :
                /\ o.phase # "absent" => o.status \in Statuses /\ o.spec \in Specs
                /\ o.gen \in Nat /\ o.phase \in Phases
           /\ pc # "idle" => obj.status \in Statuses /\ obj.spec \in Specs
BY DEF ManagedInv, CopyInv, Objective, Whole, Objects

LEMMA RemoteType ==
    /\ Absent \in Remotes /\ Absent.exists = FALSE /\ Absent.mine = FALSE
    /\ \A r \in Remotes :
         /\ r.mine \in BOOLEAN /\ r.exists \in BOOLEAN
         /\ r.exists => r \in [exists : {TRUE}, value : Values \cup {Foreign},
                              visibility : Visibilities, mine : BOOLEAN]
<1>1. Absent \in Remotes
  BY DEF Remotes
<1>2. Absent.exists = FALSE /\ Absent.mine = FALSE
  BY DEF Absent
<1> QED
  BY <1>1, <1>2 DEF Remotes

\* Versions are numbers.
LEMMA VersionType ==
    ASSUME WorldInv
    PROVE  /\ source.rv \in Nat /\ \A reading \in Readings : reading.rv \in Nat
           /\ \A status \in Statuses : status.rv \in Nat /\ status.obsGen \in Nat
BY ValuesAssumption DEF WorldInv, Sources, Readings, Statuses

THEOREM Initially == Init => IInv
<1> SUFFICES ASSUME Init PROVE IInv
  OBVIOUS
<1> DEFINE first == [cond |-> "Unknown", obsGen |-> 0, rv |-> 0, at |-> 0]
<1>1. first \in Statuses /\ first.obsGen = 0 /\ first.rv = 0
  <2>1. 0 \in 0..MaxRotations + 1 /\ 0 \in Stamps
    BY ValuesAssumption DEF Stamps
  <2> QED
    BY <2>1 DEF Statuses
<1> HIDE DEF first
<1>2. /\ \E spec \in Specs, policy \in Policies :
           cr = [phase |-> "live", gen |-> 1, spec |-> spec, policy |-> policy,
                 finalizer |-> FALSE, status |-> first]
      /\ cache = cr /\ cacheFresh = TRUE /\ queued = TRUE
      /\ dependency \in BOOLEAN /\ dependencyCache = dependency /\ pc = "idle"
      /\ obj = NoObject /\ fresh = FALSE /\ report = Nothing /\ disturbances = 0
  BY DEF Init, ValueInit, ManagedInit, first
<1>3. /\ Objective(cr, Statuses) /\ cr.status = first /\ cr.gen = 1 /\ cr.finalizer = FALSE
      /\ cr.phase = "live"
  BY <1>1, <1>2 DEF Objective, Objects, Whole, Phases
<1>4. NoObject.phase = "absent" /\ NoObject.finalizer = FALSE
  BY DEF NoObject
<1>5. ManagedInv(Statuses) /\ CopyInv /\ HoldInv
  <2>1. Objective(cache, Statuses) /\ Objective(obj, Statuses)
    BY <1>2, <1>3, NoObjectType
  <2>2. 0 \in 0..MaxDisturbances
    BY BoundsAssumption
  <2> QED
    BY <1>2, <1>3, <1>4, <2>1, <2>2 DEF ManagedInv, CopyInv, HoldInv
<1>6. WorldInv
  <2>1. 1 \in 1..MaxRotations + 1
    BY ValuesAssumption
  <2>2. source \in Sources
    BY <2>1 DEF Init, ValueInit, Sources
  <2>3. remote = Absent /\ updatedAt = 1 /\ missed = FALSE
    BY DEF Init, ValueInit
  <2>4. remote \in Remotes
    BY <2>3, RemoteType
  <2>5. updatedAt \in Stamps \ {0}
    BY <2>3 DEF Stamps
  <2> QED
    BY <2>2, <2>3, <2>4, <2>5 DEF WorldInv
<1>7. WorkInv /\ CleanInv
  BY <1>2 DEF WorkInv, CleanInv, Labels, Knowing
<1>8. VouchInv
  <2>1. source.rv \in Nat
    BY <1>6, VersionType
  <2> QED
    BY <1>1, <1>2, <1>3, <1>4, <2>1 DEF VouchInv, Faithful
<1> QED
  BY <1>5, <1>6, <1>7, <1>8 DEF IInv
-----------------------------------------------------------------------------
(* How the world may change *)

\* The statuses that somebody may still act upon.
Held ==
    {o.status : o \in {c \in {cr, cache, obj} : c.phase # "absent"}}
    \cup (IF pc = "status" THEN {report} ELSE {})

\* What was honest stays honest, of versions that there were.
WorldStep ==
    /\ WorldInv' /\ source.rv <= source'.rv
    /\ \A status \in Held, spec \in Specs :
         /\ status.rv <= source.rv
         /\ Honest(status, spec, source, remote, updatedAt, missed)
         => Honest(status, spec, source', remote', updatedAt', missed')

\* The value on GitHub is the one that was there, if there is one.
LEMMA Fading ==
    ASSUME IInv, UNCHANGED <<source, updatedAt>>, remote' \in Remotes,
           remote'.exists => remote.exists /\ remote'.value = remote.value,
           missed' \in BOOLEAN, missed => missed'
    PROVE  WorldStep
<1>1. WorldInv' /\ source.rv <= source'.rv
  BY VersionType DEF IInv, WorldInv
<1> QED
  BY <1>1 DEF WorldStep, Honest

\* Three copies, a report and GitHub remember five times at most: there is a new one.
LEMMA NewStampIsNew ==
    NewStamp \in Stamps \ {0} /\ NewStamp # updatedAt /\ \A status \in Held : status.at # NewStamp
<1> DEFINE five == {updatedAt, cr.status.at, cache.status.at, obj.status.at, report.at}
<1>1. Remembered \subseteq five
  BY DEF Remembered
<1>2. \E t \in Stamps \ {0} : t \notin five
  BY DEF Stamps
<1>3. \E t \in Stamps \ {0} : t \notin Remembered
  BY <1>1, <1>2
<1>4. NewStamp \in Stamps \ {0} /\ NewStamp \notin Remembered
  BY <1>3 DEF NewStamp
<1>5. updatedAt \in Remembered /\ \A status \in Held : status.at \in Remembered
  BY DEF Held, Remembered
<1> QED
  BY <1>4, <1>5

LEMMA Stamped ==
    ASSUME IInv, UNCHANGED source, remote' \in Remotes, updatedAt' = NewStamp,
           missed' \in BOOLEAN
    PROVE  WorldStep
<1>1. WorldInv' /\ source.rv <= source'.rv
  BY VersionType, NewStampIsNew DEF IInv, WorldInv
<1>2. \A status \in Held : status.at # updatedAt'
  BY NewStampIsNew
<1> QED
  BY <1>1, <1>2 DEF WorldStep, Honest

\* The next version of the Kubernetes Secret is one that no status speaks of.
LEMMA Rotation ==
    ASSUME IInv, Rotate, UNCHANGED <<remote, updatedAt, missed>>
    PROVE  WorldStep /\ source'.rv = source.rv + 1
<1>1. PICK data \in Rotated \ {source.data} : source' = [data |-> data, rv |-> source.rv + 1]
  BY DEF Rotate
<1>2. /\ source.data \in [Keys -> Values \cup {Nothing}] /\ source.rv \in 1..MaxRotations + 1
      /\ source.rv \in Nat /\ source.rv + 1 \in 1..MaxRotations + 1
  BY ValuesAssumption DEF IInv, WorldInv, Sources, Rotate
<1>3. data \in [Keys -> Values \cup {Nothing}]
  BY <1>1, <1>2 DEF Rotated
<1>4. source' \in Sources /\ source'.rv = source.rv + 1
  <2> DEFINE next == source.rv + 1
  <2>1. next \in 1..MaxRotations + 1 /\ source' = [data |-> data, rv |-> next]
    BY <1>1, <1>2
  <2> HIDE DEF next
  <2>2. source' \in Sources /\ source'.rv = next
    BY <1>3, <2>1 DEF Sources
  <2> QED
    BY <2>2 DEF next
<1>5. WorldInv'
  BY <1>4 DEF IInv, WorldInv
<1>6. \A status \in Held : status.rv \in Nat
  BY StatusType, VersionType DEF IInv, ManagedInv, Held
<1> QED
  BY <1>2, <1>4, <1>5, <1>6 DEF WorldStep, Honest

\* The copies are as faithful as they were.
FaithfulThen(o) == Faithful(o, source', remote', updatedAt', missed')

LEMMA FaithStays ==
    ASSUME IInv, WorldStep
    PROVE  /\ \A o \in {cr, cache, obj} : FaithfulThen(o)
           /\ pc = "status" => Reported(source', remote', updatedAt', missed')
<1>1. source.rv \in Nat /\ source'.rv \in Nat /\ source.rv <= source'.rv
  BY VersionType, VersionType DEF WorldStep, IInv, WorldInv, Sources
<1>2. ASSUME NEW o \in {cr, cache, obj} PROVE FaithfulThen(o)
  <2> SUFFICES ASSUME o.phase # "absent" PROVE FaithfulThen(o)
    BY DEF FaithfulThen, Faithful
  <2>1. o.status \in Statuses /\ o.spec \in Specs /\ o.status \in Held
    BY StatusType DEF IInv, Held
  <2>2. o.status.rv \in Nat
    BY <2>1, VersionType DEF IInv
  <2>3. Faithful(o, source, remote, updatedAt, missed)
    BY DEF IInv, VouchInv
  <2> QED
    BY <1>1, <2>1, <2>2, <2>3 DEF FaithfulThen, Faithful, WorldStep
<1>3. ASSUME pc = "status" PROVE Reported(source', remote', updatedAt', missed')
  <2>1. report \in Statuses /\ obj.spec \in Specs /\ report \in Held
    BY <1>3, StatusType DEF IInv, ManagedInv, Held
  <2>2. report.rv \in Nat
    BY <2>1, VersionType DEF IInv
  <2>3. Reported(source, remote, updatedAt, missed)
    BY <1>3 DEF IInv, VouchInv
  <2> QED
    BY <1>1, <2>1, <2>2, <2>3 DEF Reported, WorldStep
<1> QED
  BY <1>2, <1>3

LEMMA AbsentIsFaithful == FaithfulThen(NoObject)
BY DEF FaithfulThen, Faithful, NoObject
-----------------------------------------------------------------------------
(* What the calls of a reconcile preserve *)

LEMMA Returns ==
    ASSUME IInv, CallsGitHub, Calm \/ Disturb, Return(TRUE), WorldStep
    PROVE  IInv'
<1>1. ManagedInv(Statuses)' /\ CopyInv' /\ Drops /\ UNCHANGED <<cr, cache>>
  BY CallReturns DEF IInv
<1>2. HoldInv'
  BY <1>1, HoldCalls DEF IInv
<1>3. WorkInv' /\ CleanInv'
  BY <1>1 DEF Drops, WorkInv, CleanInv, Labels, Knowing
<1>4. VouchInv'
  BY <1>1, FaithStays, AbsentIsFaithful DEF Drops, VouchInv, FaithfulThen
<1> QED
  BY <1>1, <1>2, <1>3, <1>4 DEF IInv, WorldStep

\* A live resource past its addFinalizer.
Working == obj.phase = "live" /\ pc \notin {"idle", "addFinalizer"}

LEMMA Concluding ==
    ASSUME IInv, CallsGitHub, Calm \/ Disturb, Working, Concludes(Statuses), WorldStep,
           report'.obsGen = obj.gen, report'.rv <= source'.rv,
           Honest(report', obj.spec, source', remote', updatedAt', missed')
    PROVE  IInv'
<1>1. ManagedInv(Statuses)' /\ CopyInv' /\ UNCHANGED <<cr, cache>>
  BY CallConcludes DEF IInv, Working
<1>2. HoldInv'
  BY HoldCalls DEF IInv, Working, Concludes
<1>3. WorkInv' /\ CleanInv'
  BY DEF Concludes, WorkInv, CleanInv, Labels, Knowing
<1>4. VouchInv'
  BY <1>1, FaithStays DEF Concludes, VouchInv, FaithfulThen, Reported
<1> QED
  BY <1>1, <1>2, <1>3, <1>4 DEF IInv, WorldStep

\* The source is read, or what was read goes with the worker.
LEMMA GoingOn ==
    ASSUME IInv, CallsGitHub, Calm \/ Disturb, Continues, UNCHANGED source, WorldStep,
           pc # "addFinalizer",
           pc' \in Labels \cup {"removeFinalizer"},
           pc' \in Knowing \cup {"source"} => obj.phase = "live",
           pc' \in {"delete", "removeFinalizer"} => obj.phase = "deleting",
           pc' = "removeFinalizer" => ~remote'.mine,
           pc' \in Knowing =>
              /\ found' \in Readings /\ found'.rv <= source.rv
              /\ found'.rv = source.rv => found'.value = source.data[obj.spec.key],
           pc' = "reread" => found' = found /\ Sent(source', remote', missed')
    PROVE  IInv'
<1>1. ManagedInv(Statuses)' /\ CopyInv' /\ UNCHANGED <<cr, cache>>
  BY CallContinues DEF IInv, Labels, Knowing
<1>2. HoldInv'
  BY HoldCalls DEF IInv, Continues
<1>3. WorkInv' /\ CleanInv'
  BY DEF Continues, WorkInv, CleanInv, Labels
<1>4. VouchInv'
  BY <1>1, FaithStays DEF Labels, Knowing, Continues, VouchInv, FaithfulThen, Sent
<1> QED
  BY <1>1, <1>2, <1>3, <1>4 DEF IInv, WorldStep

LEMMA FailureNoted ==
    ASSUME NoteFailure, missed \in BOOLEAN
    PROVE  /\ missed' \in BOOLEAN /\ (missed => missed')
           /\ pc' = "status" /\ report'.cond = "Failed" => missed'
<1>1. (missed \/ (pc' = "status" /\ report'.cond = "Failed")) \in BOOLEAN
  OBVIOUS
<1> QED
  BY <1>1, Zenon DEF NoteFailure

\* A call that reads.
LEMMA WorldUntouched ==
    ASSUME IInv, Elsewhere, NoteFailure
    PROVE  WorldStep /\ (missed => missed')
           /\ (pc' = "status" /\ report'.cond = "Failed" => missed')
BY Fading, FailureNoted DEF IInv, WorldInv, Elsewhere

\* A failure is reported, before or after the Kubernetes Secret was read: it is noted, or
\* GitHub has a time since then that the status does not.
LEMMA ReportingFailure ==
    ASSUME IInv, CallsGitHub, Calm \/ Disturb, Working, WorldStep,
           Conclude(FailedEarly) \/ (pc \in Knowing /\ Conclude(Failed)),
           obj.status.at # updatedAt'
           \/ (pc' = "status" /\ report'.cond = "Failed" => missed')
    PROVE  IInv'
<1>1. obj.status \in Statuses /\ obj.gen \in Nat
  BY StatusType DEF IInv, Working
<1>2. /\ FailedEarly \in Statuses /\ FailedEarly.cond = "Failed"
      /\ FailedEarly.obsGen = obj.gen /\ FailedEarly.rv = obj.status.rv
      /\ FailedEarly.at = obj.status.at
  BY <1>1 DEF FailedEarly, Statuses
<1>3. obj.status.rv <= source.rv /\ obj.status.rv \in Nat /\ source.rv \in Nat
      /\ source'.rv \in Nat /\ source.rv <= source'.rv
  BY <1>1, VersionType DEF IInv, VouchInv, Faithful, Working, WorldStep, WorldInv, Sources
<1>4. CASE Conclude(FailedEarly)
  <2>1. /\ pc' = "status" /\ UNCHANGED <<queued, obj, fresh, found>>
        /\ report' = FailedEarly
    BY <1>4 DEF Conclude
  <2>2. Honest(report', obj.spec, source', remote', updatedAt', missed')
    BY <1>2, <2>1 DEF Honest
  <2> QED
    BY <1>2, <1>3, <2>1, <2>2, Concluding DEF Concludes, Working
<1>5. CASE pc \in Knowing /\ Conclude(Failed)
  <2>1. /\ pc' = "status" /\ UNCHANGED <<queued, obj, fresh, found>>
        /\ report' = Failed
    BY <1>5 DEF Conclude
  <2>2. found.rv \in 0..MaxRotations + 1 /\ found.rv <= source.rv /\ found.rv \in Nat
    BY <1>5, ValuesAssumption DEF IInv, WorkInv, Readings
  <2>3. /\ Failed \in Statuses /\ Failed.cond = "Failed" /\ Failed.obsGen = obj.gen
        /\ Failed.rv = found.rv /\ Failed.at = obj.status.at
    BY <1>2, <2>2 DEF Failed, Statuses
  <2>4. Honest(report', obj.spec, source', remote', updatedAt', missed')
    BY <2>1, <2>3 DEF Honest
  <2> QED
    BY <1>3, <2>1, <2>2, <2>3, <2>4, Concluding DEF Concludes, Working
<1> QED
  BY <1>4, <1>5

LEMMA ReportingReady ==
    ASSUME IInv, CallsGitHub, Calm, pc \in Knowing, Elsewhere, WorldStep,
           missed => missed', Conclude(Synchronized), Sent(source, remote, missed)
    PROVE  IInv'
<1>1. /\ found \in Readings /\ found.rv <= source.rv /\ Working /\ obj.gen \in Nat
  BY StatusType DEF IInv, WorkInv, Knowing, Working
<1>2. found.rv \in 0..MaxRotations + 1
  BY <1>1, ValuesAssumption DEF Readings
<1>3. updatedAt \in Stamps
  BY DEF IInv, WorldInv
<1>4. /\ Synchronized \in Statuses /\ Synchronized.obsGen = obj.gen
      /\ Synchronized.rv = found.rv /\ Synchronized.at = updatedAt
  BY <1>1, <1>2, <1>3 DEF Synchronized, Statuses
<1>5. /\ pc' = "status" /\ UNCHANGED <<queued, obj, fresh, found>>
      /\ report' = Synchronized
  BY DEF Conclude
<1>6. UNCHANGED <<source, remote, updatedAt>>
  BY DEF Elsewhere
<1>7. Honest(report', obj.spec, source', remote', updatedAt', missed')
  BY <1>4, <1>5, <1>6 DEF Sent, Honest
<1> QED
  BY <1>1, <1>4, <1>5, <1>6, <1>7, Concluding DEF Concludes, Working
-----------------------------------------------------------------------------
(* The calls, one by one *)

LEMMA ResolveStep ==
    ASSUME IInv, ResolveActionsTarget
    PROVE  IInv'
<1>1. /\ pc = "resolve" /\ CallsGitHub /\ Elsewhere /\ NoteFailure /\ (Calm \/ Disturb)
      /\ UNCHANGED source
  BY DEF ResolveActionsTarget, ResolveTarget, Resolve, Unresolved, Elsewhere
<1>2. WorldStep /\ (pc' = "status" /\ report'.cond = "Failed" => missed')
  BY <1>1, WorldUntouched
<1>3. obj.phase \in {"live", "deleting"}
  BY <1>1, StatusType DEF IInv, CopyInv, Phases
<1>4. CASE Goto(IF obj.phase = "live" THEN "source" ELSE "delete", found)
  <2>1. /\ pc' = IF obj.phase = "live" THEN "source" ELSE "delete"
        /\ UNCHANGED <<queued, obj, fresh, report>>
    BY <1>4 DEF Goto
  <2> QED
    BY <1>1, <1>2, <1>3, <2>1, GoingOn DEF Continues, Labels, Knowing
<1>5. CASE obj.phase = "live" /\ Conclude(FailedEarly)
  BY <1>1, <1>2, <1>5, ReportingFailure DEF Working
<1>6. CASE Return(TRUE)
  BY <1>1, <1>2, <1>6, Returns
<1> QED
  BY <1>4, <1>5, <1>6, Zenon DEF ResolveActionsTarget, ResolveTarget, Resolve

LEMMA SourceStep ==
    ASSUME IInv, ResolveSource
    PROVE  IInv'
<1>1. /\ pc = "source" /\ CallsGitHub /\ Elsewhere /\ NoteFailure /\ (Calm \/ Disturb)
      /\ UNCHANGED source
  BY DEF ResolveSource, ResolveActionsValueSource, Elsewhere
<1>2. WorldStep /\ (pc' = "status" /\ report'.cond = "Failed" => missed')
  BY <1>1, WorldUntouched
<1>3. obj.phase = "live" /\ obj.spec \in Specs /\ Working
  BY <1>1, StatusType DEF IInv, WorkInv, Working
<1>4. CASE /\ source.data[obj.spec.key] # Nothing
           /\ Goto("get", [value |-> source.data[obj.spec.key], rv |-> source.rv])
  <2>1. /\ pc' = "get" /\ found' = [value |-> source.data[obj.spec.key], rv |-> source.rv]
        /\ UNCHANGED <<queued, obj, fresh, report>>
    BY <1>4 DEF Goto
  <2>2. /\ source.data[obj.spec.key] \in Values /\ source.rv \in 1..MaxRotations + 1
        /\ source.rv <= source.rv
    <3>1. source.data \in [Keys -> Values \cup {Nothing}] /\ source.rv \in 1..MaxRotations + 1
      BY DEF IInv, WorldInv, Sources
    <3>2. obj.spec.key \in Keys
      BY <1>3 DEF Keys
    <3> QED
      BY <1>4, <3>1, <3>2, ValuesAssumption
  <2>3. found' \in Readings /\ found'.rv = source.rv
        /\ found'.value = source.data[obj.spec.key]
    BY <2>1, <2>2 DEF Readings
  <2> QED
    BY <1>1, <1>2, <1>3, <2>1, <2>2, <2>3, GoingOn DEF Continues, Labels, Knowing
<1>5. CASE Conclude(FailedEarly)
  BY <1>1, <1>2, <1>3, <1>5, ReportingFailure
<1> QED
  BY <1>4, <1>5, Zenon DEF ResolveSource, ResolveActionsValueSource

\* What the worker knows goes with it to the next call.
LEMMA GoingOnKnowing ==
    ASSUME IInv, CallsGitHub, Calm, pc \in Knowing, UNCHANGED source, WorldStep,
           NEW label \in {"upsert", "reread"}, Goto(label, found),
           label = "reread" => Sent(source', remote', missed')
    PROVE  IInv'
<1>1. pc' = label /\ found' = found /\ UNCHANGED <<queued, obj, fresh, report>>
  BY DEF Goto
<1>2. /\ found \in Readings /\ found.rv <= source.rv /\ obj.phase = "live" /\ pc # "idle"
      /\ found.rv = source.rv => found.value = source.data[obj.spec.key]
      /\ pc # "addFinalizer"
  BY DEF IInv, WorkInv, Knowing
<1> QED
  BY <1>1, <1>2, GoingOn DEF Continues, Labels, Knowing

LEMMA GetStep ==
    ASSUME IInv, GetActionsSecret
    PROVE  IInv'
<1>1. /\ pc = "get" /\ pc \in Knowing /\ CallsGitHub /\ Elsewhere /\ NoteFailure
      /\ (Calm \/ Disturb) /\ Working /\ UNCHANGED source
  BY DEF GetActionsSecret, IInv, WorkInv, Knowing, Working, Elsewhere
<1>2. /\ WorldStep /\ (missed => missed')
      /\ pc' = "status" /\ report'.cond = "Failed" => missed'
  BY <1>1, WorldUntouched
<1>3. CASE Calm /\ Goto("upsert", found)
  BY <1>1, <1>2, <1>3, GoingOnKnowing
<1>4. CASE Calm /\ Conclude(Synchronized) /\ ~NeedsSynchronization
  <2>1. Faithful(obj, source, remote, updatedAt, missed)
    BY DEF IInv, VouchInv
  <2>2. Sent(source, remote, missed)
    BY <1>1, <1>4, <2>1 DEF NeedsSynchronization, Faithful, Honest, Sent, Working
  <2> QED
    BY <1>1, <1>2, <1>4, <2>2, ReportingReady
<1>5. CASE Conclude(Failed)
  BY <1>1, <1>2, <1>5, ReportingFailure
<1> QED
  BY <1>3, <1>4, <1>5, Zenon DEF GetActionsSecret

LEMMA UpsertStep ==
    ASSUME IInv, UpsertActionsSecret
    PROVE  IInv'
<1>1. /\ pc = "upsert" /\ pc \in Knowing /\ CallsGitHub /\ (Calm \/ Disturb) /\ Working
      /\ UNCHANGED source
  BY DEF UpsertActionsSecret, IInv, WorkInv, Knowing, Working
<1>2. /\ obj.spec \in Specs /\ found \in Readings
      /\ found.rv = source.rv => found.value = source.data[obj.spec.key]
  BY <1>1, StatusType DEF IInv, WorkInv, Working
<1>3. CASE /\ remote' = Desired(found.value) /\ updatedAt' = NewStamp /\ missed' = FALSE
           /\ (Calm /\ Goto("reread", found)) \/ Conclude(Failed)
  <2>1. Desired(found.value) \in Remotes /\ Desired(found.value).value = found.value
    BY <1>2, ValuesAssumption DEF Desired, Remotes, Readings
  <2>2. missed' \in BOOLEAN
    BY <1>3
  <2>3. WorldStep
    BY <1>1, <1>3, <2>1, <2>2, Stamped
  <2>4. CASE Calm /\ Goto("reread", found)
    <3>1. Sent(source', remote', missed')
      BY <1>1, <1>2, <1>3, <2>1 DEF Sent
    <3> QED
      BY <1>1, <2>3, <2>4, <3>1, GoingOnKnowing
  <2>5. CASE Conclude(Failed)
    <3>1. obj.status \in Held
      BY <1>1 DEF Held, Working
    <3>2. obj.status.at # updatedAt'
      BY <1>3, <3>1, NewStampIsNew
    <3> QED
      BY <1>1, <2>3, <2>5, <3>2, ReportingFailure
  <2> QED
    BY <1>3, <2>4, <2>5
<1>4. CASE Conclude(Failed) /\ UNCHANGED <<remote, updatedAt>> /\ NoteFailure
  <2>1. Elsewhere
    BY <1>1, <1>4 DEF Elsewhere
  <2> QED
    BY <1>1, <1>4, <2>1, WorldUntouched, ReportingFailure
<1> QED
  BY <1>3, <1>4, Zenon DEF UpsertActionsSecret

LEMMA ReadBackStep ==
    ASSUME IInv, ReadBack
    PROVE  IInv'
<1>1. /\ pc = "reread" /\ pc \in Knowing /\ CallsGitHub /\ Elsewhere /\ NoteFailure
      /\ (Calm \/ Disturb) /\ Working
  BY DEF ReadBack, IInv, WorkInv, Knowing, Working
<1>2. /\ WorldStep /\ (missed => missed')
      /\ pc' = "status" /\ report'.cond = "Failed" => missed'
  BY <1>1, WorldUntouched
<1>3. CASE Calm /\ Conclude(Synchronized)
  BY <1>1, <1>2, <1>3, ReportingReady DEF IInv, VouchInv
<1>4. CASE Conclude(Failed)
  BY <1>1, <1>2, <1>4, ReportingFailure
<1> QED
  BY <1>3, <1>4, Zenon DEF ReadBack

LEMMA DeleteStep ==
    ASSUME IInv, DeleteActionsSecret
    PROVE  IInv'
<1>1. /\ pc = "delete" /\ CallsGitHub /\ UNCHANGED <<source, updatedAt, missed>>
      /\ (Calm \/ Disturb) /\ remote' \in {remote, Absent}
  BY DEF DeleteActionsSecret, DeleteFromGitHub
<1>2. WorldStep
  BY <1>1, RemoteType, Fading DEF IInv, WorldInv
<1>3. CASE remote' = Absent /\ Goto("removeFinalizer", found)
  <2>1. pc' = "removeFinalizer" /\ UNCHANGED <<queued, obj, fresh, report>>
    BY <1>3 DEF Goto
  <2>2. obj.phase = "deleting" /\ ~remote'.mine
    BY <1>1, <1>3, RemoteType DEF IInv, WorkInv
  <2> QED
    BY <1>1, <1>2, <2>1, <2>2, GoingOn DEF Continues, Labels, Knowing
<1>4. CASE Return(TRUE)
  BY <1>1, <1>2, <1>4, Returns
<1> QED
  BY <1>3, <1>4, Zenon DEF DeleteActionsSecret, DeleteFromGitHub
-----------------------------------------------------------------------------
(* The other steps *)

LEMMA CommonKeeps ==
    ASSUME IInv, Common("resolve"), Elsewhere, UNCHANGED missed
    PROVE  IInv'
<1>1. ManagedInv(Statuses)' /\ CopyInv' /\ Outcome("resolve") /\ HoldInv'
  BY CommonStep, HoldCommon DEF IInv
<1>2. UNCHANGED <<source, remote, updatedAt, missed>>
  BY DEF Elsewhere
<1>3. cr' = cr \/ Guarded \/ Written(report) \/ Gone
  BY <1>1 DEF Outcome
<1>4. WorldInv'
  BY <1>2 DEF IInv, WorldInv
<1>5. WorkInv'
  BY <1>1, <1>2 DEF Outcome, Keeps, Drops, Takes, WorkInv, IInv, Labels, Knowing
<1>6. CleanInv'
  BY <1>1, <1>2 DEF Outcome, Keeps, Drops, Takes, CleanInv, IInv
<1>7. VouchInv'
  <2>1. \A o \in {cr, cache, obj} : FaithfulThen(o)
    BY <1>2 DEF FaithfulThen, IInv, VouchInv
  <2>2. FaithfulThen(cr')
    <3>1. CASE cr' = cr
      BY <2>1, <3>1
    <3>2. CASE Guarded
      BY <2>1, <3>2 DEF Guarded, FaithfulThen, Faithful
    <3>3. CASE Written(report)
      <4>1. Reported(source, remote, updatedAt, missed) /\ cr = obj
        BY <3>3 DEF Written, IInv, VouchInv, CopyInv
      <4>2. cr.gen \in Nat
        BY StatusType DEF IInv
      <4>3. cr'.status = report /\ cr'.gen = obj.gen /\ cr'.spec = obj.spec
        BY <3>3, <4>1 DEF Written
      <4> QED
        BY <1>2, <4>1, <4>2, <4>3 DEF FaithfulThen, Faithful, Reported
    <3>4. CASE Gone
      BY <3>4 DEF Gone, FaithfulThen, Faithful
    <3> QED
      BY <1>3, <3>1, <3>2, <3>3, <3>4
  <2>3. FaithfulThen(cache') /\ FaithfulThen(obj')
    BY <1>1, <2>1, AbsentIsFaithful DEF Outcome, Keeps, Drops, Takes
  <2>4. /\ pc' = "reread" => Sent(source, remote, missed)'
        /\ pc' = "status" => Reported(source, remote, updatedAt, missed)'
    BY <1>1, <1>2
    DEF Outcome, Keeps, Drops, Takes, VouchInv, IInv, Sent, Reported, Honest
  <2> QED
    BY <2>2, <2>3, <2>4 DEF VouchInv, FaithfulThen
<1> QED
  BY <1>1, <1>4, <1>5, <1>6, <1>7 DEF IInv

LEMMA EditsKeep ==
    ASSUME IInv, EditSpec \/ EditPolicy \/ DeleteObject, Elsewhere, UNCHANGED missed
    PROVE  IInv'
<1>1. ManagedInv(Statuses)' /\ CopyInv' /\ UserOutcome
  BY UserStep DEF IInv
<1>2. HoldInv'
  BY <1>1, HoldUsers DEF IInv
<1>3. UNCHANGED <<source, remote, updatedAt, missed, pc, obj, found, report, cache>>
  BY <1>1 DEF Elsewhere, UserOutcome, Keeps
<1>4. WorldInv' /\ WorkInv' /\ CleanInv'
  BY <1>3 DEF IInv, WorldInv, WorkInv, CleanInv, Labels, Knowing
<1>5. VouchInv'
  <2>1. \A o \in {cr, cache, obj} : FaithfulThen(o)
    BY <1>3 DEF FaithfulThen, IInv, VouchInv
  <2>2. FaithfulThen(cr')
    <3>1. CASE Edited
      <4>1. cr.status \in Statuses /\ cr.gen \in Nat
        BY <3>1, StatusType DEF Edited, IInv
      <4>2. cr.status.obsGen \in Nat
        BY <4>1 DEF Statuses
      <4> QED
        BY <2>1, <3>1, <4>1, <4>2 DEF Edited, FaithfulThen, Faithful
    <3>2. CASE Gone
      BY <3>2 DEF Gone, FaithfulThen, Faithful
    <3> QED
      BY <1>1, <3>1, <3>2 DEF UserOutcome
  <2> QED
    BY <1>3, <2>1, <2>2 DEF VouchInv, FaithfulThen, IInv, Sent, Reported, Honest
<1> QED
  BY <1>1, <1>2, <1>4, <1>5 DEF IInv

\* Nothing of the resource and the worker changes.
Outside ==
    /\ UNCHANGED <<cr, cache, cacheFresh, dependency, dependencyCache, pc, obj, fresh, found,
                   report>>
    /\ queued' \in BOOLEAN /\ (Calm \/ Disturb)

LEMMA OutsideKeeps ==
    ASSUME IInv, Outside, WorldStep, remote'.mine => remote.mine,
           source' = source \/ source'.rv = source.rv + 1,
           pc = "reread" => Sent(source', remote', missed')
    PROVE  IInv'
<1>1. disturbances' \in 0..MaxDisturbances
  BY DisturbanceType DEF IInv, ManagedInv, Outside
<1>2. ManagedInv(Statuses)' /\ CopyInv'
  BY <1>1 DEF IInv, ManagedInv, CopyInv, Outside
<1>3. HoldInv' /\ CleanInv'
  BY DEF IInv, HoldInv, CleanInv, Outside
<1>4. WorkInv'
  <2>1. source.rv \in Nat /\ (pc \in Knowing => found.rv \in Nat)
    BY VersionType DEF IInv, WorkInv
  <2> QED
    BY <2>1 DEF IInv, WorkInv, Outside
<1>5. VouchInv'
  BY FaithStays DEF VouchInv, FaithfulThen, Outside, Sent, Reported
<1> QED
  BY <1>2, <1>3, <1>4, <1>5 DEF IInv, WorldStep

LEMMA RotationKeeps ==
    ASSUME IInv, Rotate, UNCHANGED <<remote, updatedAt, missed>>
    PROVE  IInv'
<1>1. Outside
  BY DEF Rotate, Outside, clusterVars, dependencyVars, localVars, Calm
<1>2. WorldStep /\ source'.rv = source.rv + 1
  BY Rotation
<1>3. pc = "reread" => Sent(source', remote', missed')
  <2>1. source.rv \in Nat /\ (pc \in Knowing => found.rv \in Nat /\ found.rv <= source.rv)
    BY VersionType DEF IInv, WorkInv
  <2> QED
    BY <1>2, <2>1 DEF Sent, Knowing
<1> QED
  BY <1>1, <1>2, <1>3, OutsideKeeps

\* What people write on GitHub is what it may hold, and it is not the operator's.
LEMMA PeopleWrite ==
    ASSUME remote \in Remotes, Overwrite \/ Reshare \/ TakeAway
    PROVE  /\ remote' \in Remotes /\ (remote'.mine => remote.mine)
           /\ Reshare \/ TakeAway =>
                (remote'.exists => remote.exists /\ remote'.value = remote.value)
<1>1. remote.mine \in BOOLEAN
  BY RemoteType
<1>2. Reshare \/ TakeAway =>
        (remote'.exists => remote.exists /\ remote'.value = remote.value)
  <2>1. CASE Reshare
    <3>1. remote \in [exists : {TRUE}, value : Values \cup {Foreign},
                      visibility : Visibilities, mine : BOOLEAN]
      BY <2>1, RemoteType DEF Reshare
    <3> QED
      BY <2>1, <3>1 DEF Reshare
  <2> QED
    BY <2>1, RemoteType DEF TakeAway
<1>3. CASE Overwrite
  <2>1. CASE remote.exists
    <3>1. remote.visibility \in Visibilities
      BY <2>1, RemoteType
    <3>2. remote' = [exists |-> TRUE, value |-> Foreign, mine |-> remote.mine,
                     visibility |-> remote.visibility]
      BY <1>3, <2>1 DEF Overwrite
    <3> QED
      BY <1>1, <1>2, <3>1, <3>2 DEF Remotes
  <2>2. CASE ~remote.exists
    <3>1. PICK visibility \in Visibilities :
             remote' = [exists |-> TRUE, value |-> Foreign, mine |-> remote.mine,
                        visibility |-> visibility]
      BY <1>3, <2>2 DEF Overwrite
    <3> QED
      BY <1>1, <1>2, <3>1 DEF Remotes
  <2> QED
    BY <2>1, <2>2
<1>4. CASE Reshare
  <2>1. remote \in [exists : {TRUE}, value : Values \cup {Foreign},
                    visibility : Visibilities, mine : BOOLEAN]
    BY <1>4, RemoteType DEF Reshare
  <2>2. PICK visibility \in Visibilities : remote' = [remote EXCEPT !.visibility = visibility]
    BY <1>4 DEF Reshare
  <2> QED
    BY <1>2, <2>1, <2>2 DEF Remotes
<1>5. CASE TakeAway
  BY <1>5, <1>2, RemoteType DEF TakeAway
<1> QED
  BY <1>2, <1>3, <1>4, <1>5

LEMMA PeopleKeep ==
    ASSUME IInv, People
    PROVE  IInv'
<1>1. Outside /\ UNCHANGED source
  BY DEF People, Outside, IInv, ManagedInv, clusterVars, dependencyVars, localVars
<1>2. remote \in Remotes /\ missed \in BOOLEAN
  BY DEF IInv, WorldInv
<1>3. CASE Overwrite /\ updatedAt' = NewStamp /\ missed' = (missed \/ pc = "reread")
  <2>1. missed' \in BOOLEAN /\ (pc = "reread" => missed')
    <3>1. (missed \/ pc = "reread") \in BOOLEAN
      OBVIOUS
    <3> QED
      BY <1>3, <3>1, Zenon
  <2>2. remote' \in Remotes /\ (remote'.mine => remote.mine)
    BY <1>2, <1>3, PeopleWrite
  <2>3. WorldStep
    BY <1>1, <1>3, <2>1, <2>2, Stamped
  <2> QED
    BY <1>1, <2>1, <2>2, <2>3, OutsideKeeps DEF Sent
<1>4. CASE (Reshare \/ TakeAway) /\ UNCHANGED <<updatedAt, missed>>
  <2>1. /\ remote' \in Remotes /\ (remote'.mine => remote.mine)
        /\ remote'.exists => remote.exists /\ remote'.value = remote.value
    BY <1>2, <1>4, PeopleWrite
  <2>2. WorldStep
    BY <1>1, <1>2, <1>4, <2>1, Fading
  <2>3. pc = "reread" => Sent(source', remote', missed')
    BY <1>1, <1>4, <2>1 DEF Sent, IInv, VouchInv
  <2> QED
    BY <1>1, <2>1, <2>2, <2>3, OutsideKeeps
<1> QED
  BY <1>3, <1>4 DEF People

LEMMA StutterKeeps ==
    ASSUME IInv, UNCHANGED vars
    PROVE  IInv'
<1>1. Outside /\ UNCHANGED <<source, remote, updatedAt, missed>>
  BY DEF vars, managedVars, clusterVars, dependencyVars, localVars, Outside, Calm, IInv,
         ManagedInv
<1>2. WorldStep
  BY <1>1, Fading DEF IInv, WorldInv
<1> QED
  BY <1>1, <1>2, OutsideKeeps DEF IInv, VouchInv, Sent
-----------------------------------------------------------------------------
(* The theorems *)

THEOREM Inductive == IInv /\ [Next]_vars => IInv'
<1> SUFFICES ASSUME IInv, [Next]_vars PROVE IInv'
  OBVIOUS
<1>1. CASE Reconcile \/ AddSecretFinalizer \/ SetReadyCondition \/ RemoveSecretFinalizer
           \/ Manager \/ (ChangeDependency /\ Elsewhere /\ UNCHANGED missed)
  BY <1>1, CommonKeeps
  DEF Reconcile, AddSecretFinalizer, SetReadyCondition, RemoveSecretFinalizer, Manager, Common
<1>2. CASE (EditSpec \/ EditPolicy \/ DeleteObject) /\ Elsewhere /\ UNCHANGED missed
  BY <1>2, EditsKeep
<1> QED
  BY <1>1, <1>2, ResolveStep, SourceStep, GetStep, UpsertStep, ReadBackStep, DeleteStep,
     RotationKeeps, PeopleKeep, StutterKeeps DEF Next, WorkerStep, Users

THEOREM Invariance == Spec => []IInv
BY Initially, Inductive, PTL DEF Spec

\* Every reachable state is well typed, whatever the manifests, the values and the bounds;
\* GitHub holds values of the Kubernetes Secret or of other people, never a missing key
\* (resolveActionsValueSource).
THEOREM TypeCorrect == Spec => []TypeOK
<1>1. IInv => TypeOK
  BY DEF IInv, ManagedInv, Objective, WorldInv, WorkInv, Labels, Knowing, TypeOK, ManagedTypeOK
<1> QED
  BY <1>1, Invariance, PTL

\* A status that says Ready=True of the current generation, of the current version of the
\* Kubernetes Secret and of GitHub's last update vouches for a value that GitHub has, but
\* for a failure that was recorded as observed or a write that was taken for its own
\* (secretNeedsSynchronization).
THEOREM VouchedSafety == Spec => []VouchedIsRight
<1>1. IInv => VouchedIsRight
  BY DEF IInv, VouchInv, Faithful, Honest, VouchedIsRight, Vouched, InSync
<1> QED
  BY <1>1, Invariance, PTL

-----------------------------------------------------------------------------
(* The finalizer contract *)

LEMMA ContractTypes ==
    ASSUME IInv
    PROVE  /\ cr.policy \in Policies /\ cr.finalizer \in BOOLEAN /\ cr.phase \in Phases
           /\ remote.mine \in BOOLEAN
BY RemoteType DEF IInv, ManagedInv, Objective, Objects, WorldInv

\* A step that leaves GitHub alone, and the resource to a user, its finalizer or its status.
LEMMA ContractResource ==
    ASSUME IInv, IInv', UNCHANGED remote,
           cr' = cr \/ Edited \/ Guarded \/ Written(report) \/ Gone
    PROVE  [Contract!ContractNext]_(Contract!contractVars)
<1> USE DEF Contract!contractVars, Contract!ContractNext
<1>1. /\ cr.policy \in Policies /\ cr'.policy \in Policies /\ cr.phase \in Phases
      /\ cr'.phase \in Phases /\ cr'.finalizer \in BOOLEAN /\ cr.finalizer \in BOOLEAN
  BY ContractTypes DEF IInv, ManagedInv, Objective, Objects
<1>2. CASE cr' = cr \/ Written(report)
  BY <1>2 DEF Written
<1>3. CASE Edited
  <2>1. Contract!UserMoves
    BY <1>1, <1>3 DEF Edited, Contract!UserMoves, Phases
  <2> QED
    BY <2>1
<1>4. CASE Guarded
  <2>1. cr.phase = "live"
    BY <1>4 DEF Guarded, IInv, CopyInv
  <2>2. Contract!Hold
    BY <1>4, <2>1 DEF Guarded, Contract!Hold
  <2> QED
    BY <2>2
<1>5. CASE Gone
  <2>1. CASE cr.phase = "live" /\ ~cr.finalizer
    <3>1. Contract!UserMoves
      BY <1>1, <1>5, <2>1 DEF Gone, Contract!UserMoves
    <3> QED
      BY <3>1
  <2>2. CASE fresh /\ pc = "removeFinalizer"
    <3>1. /\ cr.phase = "deleting" /\ cr.finalizer = TRUE
          /\ cr.policy # "Orphan" => ~remote.mine
      BY <1>1, <2>2 DEF IInv, CopyInv, HoldInv, CleanInv
    <3>2. Contract!Release
      BY <1>1, <1>5, <3>1 DEF Gone, Contract!Release
    <3> QED
      BY <3>2
  <2> QED
    BY <1>5, <2>1, <2>2 DEF Gone
<1> QED
  BY <1>2, <1>3, <1>4, <1>5

\* A step that leaves the resource alone, and GitHub to other people, or to the operator.
LEMMA ContractRemote ==
    ASSUME IInv, IInv', UNCHANGED cr,
           remote'.mine => remote.mine \/ cr.finalizer
    PROVE  [Contract!ContractNext]_(Contract!contractVars)
<1>1. remote.mine \in BOOLEAN /\ remote'.mine \in BOOLEAN /\ cr.finalizer \in BOOLEAN
  BY ContractTypes, RemoteType DEF IInv, WorldInv
<1>2. CASE remote'.mine = remote.mine
  BY <1>2 DEF Contract!contractVars
<1>3. CASE remote'.mine = FALSE
  BY <1>3 DEF Contract!ContractNext, Contract!Clear
<1>4. CASE remote'.mine = TRUE /\ cr.finalizer = TRUE
  BY <1>4 DEF Contract!ContractNext, Contract!Make
<1> QED
  BY <1>1, <1>2, <1>3, <1>4

\* The operator sends a secret only for a resource that holds its finalizer, and with the
\* policy Revoke drops the finalizer only when the secret is gone (reconcileDelete).
THEOREM Refinement == Spec => ImplementsContract
<1>1. Init => Contract!ContractInit
  <2>1. Init => /\ cr.phase = "live" /\ cr.policy \in Policies /\ cr.finalizer = FALSE
                /\ remote.mine = FALSE
    BY RemoteType DEF Init, ValueInit, ManagedInit
  <2> QED
    BY <2>1 DEF Contract!ContractInit
<1>2. IInv /\ IInv' /\ [Next]_vars => [Contract!ContractNext]_(Contract!contractVars)
  <2> SUFFICES ASSUME IInv, IInv', [Next]_vars
               PROVE  [Contract!ContractNext]_(Contract!contractVars)
    OBVIOUS
  <2>1. CASE (Common("resolve") \/ EditSpec \/ EditPolicy \/ DeleteObject) /\ Elsewhere
    <3>1. cr' = cr \/ Edited \/ Guarded \/ Written(report) \/ Gone
      BY <2>1, CommonStep, UserStep DEF IInv, Outcome, UserOutcome
    <3> QED
      BY <2>1, <3>1, ContractResource DEF Elsewhere
  <2>2. CASE UpsertActionsSecret
    <3>1. cr.finalizer /\ UNCHANGED cr
      BY <2>2 DEF UpsertActionsSecret, CallsGitHub, clusterVars, IInv, WorkInv, Knowing, HoldInv
    <3> QED
      BY <3>1, ContractRemote
  <2>3. CASE DeleteActionsSecret
    <3>1. UNCHANGED cr /\ remote' \in {remote, Absent}
      BY <2>3 DEF DeleteActionsSecret, DeleteFromGitHub, CallsGitHub, clusterVars
    <3> QED
      BY <3>1, RemoteType, ContractRemote
  <2>4. CASE People
    <3>1. UNCHANGED cr /\ remote \in Remotes
      BY <2>4 DEF People, clusterVars, IInv, WorldInv
    <3> QED
      BY <2>4, <3>1, PeopleWrite, ContractRemote DEF People
  <2>5. CASE ResolveActionsTarget \/ ResolveSource \/ GetActionsSecret \/ ReadBack
    <3>1. UNCHANGED <<cr, remote>>
      BY <2>5 DEF ResolveActionsTarget, ResolveTarget, Resolve, ResolveSource,
         ResolveActionsValueSource, GetActionsSecret, ReadBack, Elsewhere, CallsGitHub,
         clusterVars
    <3> QED
      BY <3>1, ContractRemote
  <2>6. CASE (Rotate /\ UNCHANGED remote) \/ UNCHANGED vars
    <3>1. UNCHANGED <<cr, remote>>
      BY <2>6 DEF Rotate, clusterVars, vars, managedVars
    <3> QED
      BY <3>1, ContractRemote
  <2> QED
    BY <2>1, <2>2, <2>3, <2>4, <2>5, <2>6
    DEF Next, Reconcile, WorkerStep, AddSecretFinalizer, SetReadyCondition,
        RemoveSecretFinalizer, Manager, Users, Common
<1> QED
  BY <1>1, <1>2, Invariance, PTL DEF Spec, ImplementsContract, Contract!ContractSpec
=============================================================================
