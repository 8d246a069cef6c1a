-------------------------- MODULE LazySidecarProofs --------------------------
(***************************************************************************)
(* Proofs about LazySidecar, for any set of threads, sidecars and plans and *)
(* for any bound: its type invariant, the discipline of its mutexes, that   *)
(* every client of a sidecar holds one and the same Arc, that no failure is *)
(* remembered, and that the accessors implement OnceCells.                  *)
(***************************************************************************)
EXTENDS LazySidecar, TLAPS

USE PlanAssumption, OwnerAssumption, BoundAssumption

\* The accessor call a thread is at is one of its plan.
LEMMA TargetType ==
    ASSUME TypeOK, NEW t \in Threads
    PROVE  Current(t) \in AccessorCall /\ Target(t) \in Sidecars
<1>1. /\ Plan[op[t]] \in Seq(AccessorCall)
      /\ step[t] \in 1..Len(Plan[op[t]])
  BY DEF TypeOK
<1>2. Current(t) \in AccessorCall
  BY <1>1 DEF Current
<1>3. QED
  BY <1>2 DEF Target, AccessorCall

\* The return of an accessor keeps the types of what it changes.
LEMMA ReturnType ==
    ASSUME TypeOK, NEW t \in Threads, NEW s \in Sidecars, NEW a \in Answer,
           Return(t, s, a),
           cache' \in [Sidecars -> Nat], loads' \in [Sidecars -> Nat],
           owner' \in [Sidecars -> Threads \cup {NoOwner}]
    PROVE  TypeOK'
<1>1. answer' \in [Threads -> [Sidecars -> Answer]]
  BY DEF TypeOK, Return
<1>2. pc' \in [Threads -> Location]
  BY DEF TypeOK, Return, Location
<1>3. step' \in [Threads -> Nat \ {0}]
  BY DEF TypeOK, Return
<1>4. ASSUME NEW u \in Threads
      PROVE  step'[u] <= Len(Plan[op'[u]])
  <2>1. Len(Plan[op[t]]) \in Nat /\ op' = op /\ step[t] \in Nat
    BY DEF TypeOK, Return
  <2>2. step'[u] = step[u] \/ (u = t /\ step'[u] = step[t] + 1
                                /\ step[t] # Len(Plan[op[t]]))
    BY DEF TypeOK, Return
  <2>3. QED
    BY <2>1, <2>2 DEF TypeOK
<1>5. QED
  BY <1>1, <1>2, <1>3, <1>4 DEF TypeOK, Return

LEMMA AnswerTypes ==
    /\ Absent \in Answer /\ Failed \in Answer /\ Unasked \in Answer
    /\ \A id \in Nat : Shared(id) \in Answer
BY DEF Absent, Failed, Unasked, Shared, Answer, NoArc

-----------------------------------------------------------------------------
\* The variables keep their types and no thread runs past its plan, whatever
\* the accessors return and however the file system changes.
THEOREM TypeCorrect == Spec => []TypeOK
<1>1. Init => TypeOK
  BY DEF Init, TypeOK, NoArc, FileKind, Location, Answer, Unasked
<1>2. TypeOK /\ [Next]_vars => TypeOK'
  <2> SUFFICES ASSUME TypeOK, [Next]_vars
               PROVE  TypeOK'
    OBVIOUS
  <2>1. ASSUME NEW s \in Sidecars, ChangeFile(s)
        PROVE  TypeOK'
    BY <2>1 DEF TypeOK, ChangeFile, FileKind
  <2>2. ASSUME NEW t \in Threads, NEW o \in Operations, Begin(t, o)
        PROVE  TypeOK'
    <3>1. Len(Plan[o]) \in Nat \ {0}
      OBVIOUS
    <3>2. QED
      BY <2>2, <3>1, AnswerTypes DEF TypeOK, Begin, Location
  <2>3. ASSUME NEW t \in Threads, Finish(t)
        PROVE  TypeOK'
    BY <2>3 DEF TypeOK, Finish, Location
  <2>4. ASSUME NEW t \in Threads, NEW s \in Sidecars, Access(t, s)
        PROVE  TypeOK'
    <3>1. CASE CheckAbsent(t, s)
      <4>1. Return(t, s, Absent)
        BY <3>1 DEF CheckAbsent
      <4>2. QED
        BY <3>1, <4>1, ReturnType, AnswerTypes DEF TypeOK, CheckAbsent
    <3>2. CASE CheckPresent(t, s)
      BY <3>2 DEF TypeOK, CheckPresent, Location
    <3>3. CASE Lock(t, s)
      BY <3>3 DEF TypeOK, Lock, Location
    <3>4. CASE ServeCached(t, s)
      <4>1. Return(t, s, Shared(cache[s])) /\ Shared(cache[s]) \in Answer
        BY <3>4, AnswerTypes DEF ServeCached, TypeOK
      <4>2. QED
        BY <3>4, <4>1, ReturnType DEF TypeOK, ServeCached
    <3>5. CASE OpenFile(t, s)
      BY <3>5 DEF TypeOK, OpenFile, Location
    <3>6. CASE OpenFails(t, s)
      <4>1. Return(t, s, Failed)
        BY <3>6 DEF OpenFails
      <4>2. QED
        BY <3>6, <4>1, ReturnType, AnswerTypes DEF TypeOK, OpenFails
    <3>7. CASE ReadFails(t, s)
      <4>1. Return(t, s, Failed)
        BY <3>7 DEF ReadFails
      <4>2. QED
        BY <3>7, <4>1, ReturnType, AnswerTypes DEF TypeOK, ReadFails
    <3>8. CASE Publish(t, s)
      <4>1. Return(t, s, Shared(loads[s] + 1)) /\ Shared(loads[s] + 1) \in Answer
        BY <3>8, AnswerTypes DEF Publish, TypeOK
      <4>2. /\ cache' \in [Sidecars -> Nat] /\ loads' \in [Sidecars -> Nat]
            /\ owner' \in [Sidecars -> Threads \cup {NoOwner}]
        BY <3>8 DEF TypeOK, Publish
      <4>3. QED
        BY <4>1, <4>2, ReturnType
    <3>9. QED
      BY <2>4, <3>1, <3>2, <3>3, <3>4, <3>5, <3>6, <3>7, <3>8 DEF Access
  <2>5. CASE UNCHANGED vars
    BY <2>5 DEF TypeOK, vars
  <2>6. QED
    BY <2>1, <2>2, <2>3, <2>4, <2>5 DEF Next, Progress
<1>3. QED
  BY <1>1, <1>2, PTL DEF Spec

-----------------------------------------------------------------------------
\* A returning thread is out of the mutex and the other threads stay where
\* they are.
LEMMA ReturnMoves ==
    ASSUME TypeOK, NEW t \in Threads, NEW s \in Sidecars, NEW a,
           Return(t, s, a)
    PROVE  /\ ~InMutex(t)' /\ pc'[t] \in {"check", "done"}
           /\ \A u \in Threads \ {t} :
                 /\ pc'[u] = pc[u] /\ InMutex(u)' = InMutex(u)
                 /\ Target(u)' = Target(u)
<1>1. pc'[t] \in {"check", "done"}
  BY DEF TypeOK, Return
<1>2. ~InMutex(t)'
  BY <1>1 DEF InMutex
<1>3. ASSUME NEW u \in Threads \ {t}
      PROVE  /\ pc'[u] = pc[u] /\ InMutex(u)' = InMutex(u)
             /\ Target(u)' = Target(u)
  BY DEF TypeOK, Return, InMutex, Target, Current
<1>4. QED
  BY <1>1, <1>2, <1>3

\* A step that only moves t inside its accessor leaves every target alone.
LEMMA TargetKept ==
    ASSUME UNCHANGED <<op, step>>
    PROVE  \A u \in Threads : Target(u)' = Target(u)
BY DEF Target, Current

\* A returning thread that was in the mutex of s and released it keeps the
\* mutexes in order.
LEMMA ReleaseKeepsDiscipline ==
    ASSUME TypeOK, MutexDiscipline, NEW t \in Threads, NEW s \in Sidecars, NEW a,
           InMutex(t), s = Target(t), Return(t, s, a),
           owner' = [owner EXCEPT ![s] = NoOwner]
    PROVE  MutexDiscipline'
<1> SUFFICES ASSUME NEW u \in Threads, NEW x \in Sidecars
             PROVE  (owner'[x] = u) <=> (InMutex(u)' /\ Target(u)' = x)
  BY DEF MutexDiscipline
<1>1. CASE u = t
  BY <1>1, ReturnMoves DEF MutexDiscipline, TypeOK
<1>2. CASE u # t
  <2>1. /\ InMutex(u)' = InMutex(u) /\ Target(u)' = Target(u)
    BY <1>2, ReturnMoves
  <2>2. owner[s] = t
    BY DEF MutexDiscipline
  <2>3. (owner'[x] = u) <=> (owner[x] = u)
    BY <1>2, <2>2 DEF TypeOK
  <2>4. QED
    BY <2>1, <2>3 DEF MutexDiscipline
<1>3. QED
  BY <1>1, <1>2

LEMMA DisciplineStep ==
    ASSUME TypeOK, MutexDiscipline, [Next]_vars
    PROVE  MutexDiscipline'
<1>1. ASSUME NEW s \in Sidecars, ChangeFile(s)
      PROVE  MutexDiscipline'
  BY <1>1, TargetKept DEF MutexDiscipline, ChangeFile, InMutex
<1>2. ASSUME NEW t \in Threads, NEW o \in Operations, Begin(t, o)
      PROVE  MutexDiscipline'
  <2>1. ~InMutex(t) /\ ~InMutex(t)' /\ UNCHANGED owner
    BY <1>2 DEF Begin, InMutex, TypeOK
  <2>2. \A u \in Threads \ {t} : Target(u)' = Target(u) /\ InMutex(u)' = InMutex(u)
    BY <1>2 DEF Begin, Target, Current, TypeOK, InMutex
  <2>3. QED
    BY <2>1, <2>2 DEF MutexDiscipline
<1>3. ASSUME NEW t \in Threads, Finish(t)
      PROVE  MutexDiscipline'
  <2>1. ~InMutex(t) /\ ~InMutex(t)' /\ UNCHANGED <<owner, op, step>>
    BY <1>3 DEF Finish, InMutex, TypeOK
  <2>2. \A u \in Threads \ {t} : InMutex(u)' = InMutex(u)
    BY <1>3 DEF Finish, TypeOK, InMutex
  <2>3. QED
    BY <2>1, <2>2, TargetKept DEF MutexDiscipline
<1>4. ASSUME NEW t \in Threads, NEW s \in Sidecars, Access(t, s)
      PROVE  MutexDiscipline'
  <2>1. CASE CheckAbsent(t, s)
    <3>1. ~InMutex(t) /\ UNCHANGED owner /\ Return(t, s, Absent)
      BY <2>1 DEF CheckAbsent, InMutex
    <3>2. QED
      BY <3>1, ReturnMoves DEF MutexDiscipline
  <2>2. CASE CheckPresent(t, s)
    <3>1. \A u \in Threads : InMutex(u)' = InMutex(u)
      BY <2>2 DEF CheckPresent, InMutex, TypeOK
    <3>2. UNCHANGED <<owner, op, step>>
      BY <2>2 DEF CheckPresent
    <3>3. QED
      BY <3>1, <3>2, TargetKept DEF MutexDiscipline
  <2>3. CASE Lock(t, s)
    <3>1. /\ ~InMutex(t) /\ InMutex(t)' /\ Target(t) = s
          /\ \A u \in Threads \ {t} : InMutex(u)' = InMutex(u)
      BY <2>3 DEF Lock, InMutex, TypeOK
    <3>2. /\ owner[s] = NoOwner /\ owner' = [owner EXCEPT ![s] = t]
          /\ UNCHANGED <<op, step>>
      BY <2>3 DEF Lock
    <3>3. \A u \in Threads : Target(u)' = Target(u)
      BY <3>2, TargetKept
    <3>4. \A u \in Threads, x \in Sidecars : (owner'[x] = u) <=>
              ((owner[x] = u /\ x # s) \/ (x = s /\ u = t))
      BY <3>2 DEF TypeOK
    <3>5. \A u \in Threads : owner[s] # u
      BY <3>2
    <3>6. QED
      BY <3>1, <3>3, <3>4, <3>5 DEF MutexDiscipline
  <2>4. CASE ServeCached(t, s)
    <3>1. InMutex(t) /\ s = Target(t)
      BY <2>4 DEF ServeCached, InMutex
    <3>2. Return(t, s, Shared(cache[s])) /\ owner' = [owner EXCEPT ![s] = NoOwner]
      BY <2>4 DEF ServeCached
    <3>3. QED
      BY <3>1, <3>2, ReleaseKeepsDiscipline
  <2>5. CASE OpenFile(t, s)
    <3>1. \A u \in Threads : InMutex(u)' = InMutex(u)
      BY <2>5 DEF OpenFile, InMutex, TypeOK
    <3>2. UNCHANGED <<owner, op, step>>
      BY <2>5 DEF OpenFile
    <3>3. QED
      BY <3>1, <3>2, TargetKept DEF MutexDiscipline
  <2>6. CASE OpenFails(t, s)
    <3>1. InMutex(t) /\ s = Target(t)
      BY <2>6 DEF OpenFails, InMutex
    <3>2. Return(t, s, Failed) /\ owner' = [owner EXCEPT ![s] = NoOwner]
      BY <2>6 DEF OpenFails
    <3>3. QED
      BY <3>1, <3>2, ReleaseKeepsDiscipline
  <2>7. CASE ReadFails(t, s)
    <3>1. InMutex(t) /\ s = Target(t)
      BY <2>7 DEF ReadFails, InMutex
    <3>2. Return(t, s, Failed) /\ owner' = [owner EXCEPT ![s] = NoOwner]
      BY <2>7 DEF ReadFails
    <3>3. QED
      BY <3>1, <3>2, ReleaseKeepsDiscipline
  <2>8. CASE Publish(t, s)
    <3>1. InMutex(t) /\ s = Target(t)
      BY <2>8 DEF Publish, InMutex
    <3>2. Return(t, s, Shared(loads[s] + 1)) /\ owner' = [owner EXCEPT ![s] = NoOwner]
      BY <2>8 DEF Publish
    <3>3. QED
      BY <3>1, <3>2, ReleaseKeepsDiscipline
  <2>9. QED
    BY <1>4, <2>1, <2>2, <2>3, <2>4, <2>5, <2>6, <2>7, <2>8 DEF Access
<1>5. CASE UNCHANGED vars
  BY <1>5, TargetKept DEF vars, MutexDiscipline, InMutex
<1>6. QED
  BY <1>1, <1>2, <1>3, <1>4, <1>5 DEF Next, Progress

\* For any number of threads: a mutex is held by exactly the thread between
\* lock() and the drop of its guard, on the error returns too.  No two threads
\* load one sidecar at a time, and no thread waits while it holds a mutex.
THEOREM MutexesDisciplined == Spec => []MutexDiscipline
<1>1. Init => MutexDiscipline
  BY DEF Init, MutexDiscipline, InMutex
<1>2. TypeOK /\ MutexDiscipline /\ [Next]_vars => MutexDiscipline'
  BY DisciplineStep
<1>3. QED
  BY <1>1, <1>2, TypeCorrect, PTL DEF Spec

-----------------------------------------------------------------------------
(* One Arc per sidecar.  OneArcPerSidecar is not inductive alone: it needs   *)
(* that a thread that loads a sidecar found the cache empty and is the only  *)
(* one in the mutex, so that its Publish replaces nothing.                   *)

LoaderIsFirst ==
    \A t \in Threads : pc[t] = "loading" => cache[Target(t)] = NoArc

SharingInv == LoadedOnce /\ OneArcPerSidecar /\ LoaderIsFirst

\* A return that fills no cache keeps the invariant when what it returns is
\* the cached Arc or no Arc.
LEMMA ReturnKeepsSharing ==
    ASSUME TypeOK, SharingInv, NEW t \in Threads, NEW s \in Sidecars, NEW a,
           Return(t, s, a), UNCHANGED <<cache, loads>>,
           a.state = "shared" => a.arc = cache[s] /\ cache[s] # NoArc
    PROVE  SharingInv'
<1>1. LoadedOnce'
  BY DEF SharingInv, LoadedOnce
<1>2. \A u \in Threads, x \in Sidecars :
          answer'[u][x] = IF u = t /\ x = s THEN a ELSE answer[u][x]
  BY DEF TypeOK, Return
<1>3. OneArcPerSidecar'
  BY <1>2 DEF SharingInv, OneArcPerSidecar
<1>4. LoaderIsFirst'
  BY ReturnMoves DEF SharingInv, LoaderIsFirst
<1>5. QED
  BY <1>1, <1>3, <1>4 DEF SharingInv

LEMMA SharingStep ==
    ASSUME TypeOK, MutexDiscipline, SharingInv, [Next]_vars
    PROVE  SharingInv'
<1>1. ASSUME NEW s \in Sidecars, ChangeFile(s)
      PROVE  SharingInv'
  BY <1>1, TargetKept DEF ChangeFile, SharingInv, LoadedOnce, OneArcPerSidecar,
                          LoaderIsFirst
<1>2. ASSUME NEW t \in Threads, NEW o \in Operations, Begin(t, o)
      PROVE  SharingInv'
  <2>1. UNCHANGED <<cache, loads>>
    BY <1>2 DEF Begin
  <2>2. \A u \in Threads, x \in Sidecars :
            answer'[u][x] = IF u = t THEN Unasked ELSE answer[u][x]
    BY <1>2 DEF Begin, TypeOK
  <2>3. OneArcPerSidecar'
    BY <2>1, <2>2 DEF SharingInv, OneArcPerSidecar, Unasked
  <2>4. pc'[t] # "loading"
    BY <1>2 DEF Begin, TypeOK
  <2>5. \A u \in Threads \ {t} : pc'[u] = pc[u] /\ Target(u)' = Target(u)
    BY <1>2 DEF Begin, TypeOK, Target, Current
  <2>6. LoaderIsFirst'
    BY <2>1, <2>4, <2>5 DEF SharingInv, LoaderIsFirst
  <2>7. QED
    BY <2>1, <2>3, <2>6 DEF SharingInv, LoadedOnce
<1>3. ASSUME NEW t \in Threads, Finish(t)
      PROVE  SharingInv'
  <2>1. /\ UNCHANGED <<cache, loads, answer, op, step>>
        /\ \A u \in Threads : pc'[u] = "loading" => pc[u] = "loading"
    BY <1>3 DEF Finish, TypeOK
  <2>2. QED
    BY <2>1, TargetKept DEF SharingInv, LoadedOnce, OneArcPerSidecar, LoaderIsFirst
<1>4. ASSUME NEW t \in Threads, NEW s \in Sidecars, Access(t, s)
      PROVE  SharingInv'
  <2>1. CASE CheckAbsent(t, s)
    <3>1. Return(t, s, Absent) /\ UNCHANGED <<cache, loads>>
      BY <2>1 DEF CheckAbsent
    <3>2. QED
      BY <3>1, ReturnKeepsSharing DEF Absent
  <2>2. CASE CheckPresent(t, s) \/ Lock(t, s)
    <3>1. /\ UNCHANGED <<cache, loads, answer, op, step>>
          /\ \A u \in Threads : pc'[u] = "loading" => pc[u] = "loading"
      BY <2>2 DEF CheckPresent, Lock, TypeOK
    <3>2. QED
      BY <3>1, TargetKept DEF SharingInv, LoadedOnce, OneArcPerSidecar, LoaderIsFirst
  <2>3. CASE ServeCached(t, s)
    <3>1. Return(t, s, Shared(cache[s])) /\ UNCHANGED <<cache, loads>>
      BY <2>3 DEF ServeCached
    <3>2. QED
      BY <2>3, <3>1, ReturnKeepsSharing DEF Shared, ServeCached
  <2>4. CASE OpenFile(t, s)
    <3>1. /\ UNCHANGED <<cache, loads, answer, op, step>>
          /\ s = Target(t) /\ cache[s] = NoArc
          /\ \A u \in Threads \ {t} : pc'[u] = pc[u]
      BY <2>4 DEF OpenFile, TypeOK
    <3>2. QED
      BY <3>1, TargetKept DEF SharingInv, LoadedOnce, OneArcPerSidecar, LoaderIsFirst
  <2>5. CASE OpenFails(t, s) \/ ReadFails(t, s)
    <3>1. Return(t, s, Failed) /\ UNCHANGED <<cache, loads>>
      BY <2>5 DEF OpenFails, ReadFails
    <3>2. QED
      BY <3>1, ReturnKeepsSharing DEF Failed
  <2>6. CASE Publish(t, s)
    <3>1. /\ pc[t] = "loading" /\ s = Target(t) /\ Return(t, s, Shared(loads[s] + 1))
          /\ loads' = [loads EXCEPT ![s] = @ + 1]
          /\ cache' = [cache EXCEPT ![s] = loads[s] + 1]
      BY <2>6 DEF Publish
    <3>2. cache[s] = NoArc /\ loads[s] = 0
      BY <3>1 DEF SharingInv, LoaderIsFirst, LoadedOnce, NoArc
    <3>3. LoadedOnce'
      BY <3>1, <3>2 DEF SharingInv, LoadedOnce, TypeOK
    <3>4. \A u \in Threads, x \in Sidecars :
              answer'[u][x] = IF u = t /\ x = s THEN Shared(1) ELSE answer[u][x]
      BY <3>1, <3>2 DEF TypeOK, Return
    <3>5. \A x \in Sidecars : cache'[x] = IF x = s THEN 1 ELSE cache[x]
      BY <3>1, <3>2 DEF TypeOK
    <3>6. OneArcPerSidecar'
      BY <3>2, <3>4, <3>5 DEF SharingInv, OneArcPerSidecar, Shared, NoArc
    <3>7. \A u \in Threads \ {t} : pc[u] = "loading" => Target(u) # s
      BY <3>1 DEF MutexDiscipline, InMutex
    <3>8. LoaderIsFirst'
      <4>1. /\ pc'[t] # "loading"
            /\ \A u \in Threads \ {t} : pc'[u] = pc[u] /\ Target(u)' = Target(u)
        BY <3>1, ReturnMoves
      <4>2. QED
        BY <3>5, <3>7, <4>1, TargetType DEF SharingInv, LoaderIsFirst
    <3>9. QED
      BY <3>3, <3>6, <3>8 DEF SharingInv
  <2>7. QED
    BY <1>4, <2>1, <2>2, <2>3, <2>4, <2>5, <2>6 DEF Access
<1>5. CASE UNCHANGED vars
  BY <1>5, TargetKept DEF vars, SharingInv, LoadedOnce, OneArcPerSidecar, LoaderIsFirst
<1>6. QED
  BY <1>1, <1>2, <1>3, <1>4, <1>5 DEF Next, Progress

LEMMA SharingCorrect == Spec => []SharingInv
<1>1. Init => SharingInv
  BY DEF Init, SharingInv, LoadedOnce, OneArcPerSidecar, LoaderIsFirst, NoArc, Unasked
<1>2. TypeOK /\ MutexDiscipline /\ SharingInv /\ [Next]_vars => SharingInv'
  BY SharingStep
<1>3. QED
  BY <1>1, <1>2, TypeCorrect, MutexesDisciplined, PTL DEF Spec

\* Whoever was handed a sidecar holds the Arc in the cache: concurrent first
\* callers never end up with two copies of one dataset.
THEOREM OneArc == Spec => []OneArcPerSidecar
<1>1. SharingInv => OneArcPerSidecar
  BY DEF SharingInv
<1>2. QED
  BY <1>1, SharingCorrect, PTL

\* A sidecar is loaded at most once in the life of the CallBook.
THEOREM LoadsOnce == Spec => []LoadedOnce
<1>1. SharingInv => LoadedOnce
  BY DEF SharingInv
<1>2. QED
  BY <1>1, SharingCorrect, PTL

\* A filled cache is never replaced, emptied or refreshed.
THEOREM ArcStays == Spec => PublishedStays
<1>1. TypeOK /\ SharingInv /\ [Next]_vars
        => [\A s \in Sidecars : cache[s] # NoArc => cache'[s] = cache[s]]_vars
  <2> SUFFICES ASSUME TypeOK, SharingInv, Next, NEW x \in Sidecars, cache[x] # NoArc
               PROVE  cache'[x] = cache[x]
    OBVIOUS
  <2>1. ASSUME NEW t \in Threads, NEW s \in Sidecars, Publish(t, s)
        PROVE  cache'[x] = cache[x]
    <3>1. cache[s] = NoArc
      BY <2>1 DEF Publish, SharingInv, LoaderIsFirst
    <3>2. QED
      BY <2>1, <3>1 DEF Publish, TypeOK
  <2>2. QED
    BY <2>1 DEF Next, Progress, Access, ChangeFile, Begin, Finish, CheckAbsent,
                CheckPresent, Lock, ServeCached, OpenFile, OpenFails, ReadFails
<1>2. QED
  BY <1>1, TypeCorrect, SharingCorrect, PTL DEF Spec, PublishedStays

-----------------------------------------------------------------------------
(* No failure is remembered.  The strengthening: whatever is not readable    *)
(* while a thread performs an operation has been noted as disturbed.         *)

DisturbedNoted ==
    \A t \in Threads, s \in Sidecars :
        pc[t] # "idle" /\ file[s] # "readable" => s \in disturbed[t]

DisturbInv == NoStickyFailure /\ DisturbedNoted

\* A return that reports absence or failure only of an unreadable file keeps
\* the invariant.
LEMMA ReturnKeepsDisturb ==
    ASSUME TypeOK, DisturbInv, NEW t \in Threads, NEW s \in Sidecars, NEW a,
           Return(t, s, a), pc[t] # "idle",
           a.state \in {"none", "error"} => file[s] # "readable"
    PROVE  DisturbInv'
<1>1. \A u \in Threads, x \in Sidecars :
          answer'[u][x] = IF u = t /\ x = s THEN a ELSE answer[u][x]
  BY DEF TypeOK, Return
<1>2. UNCHANGED <<file, disturbed>>
  BY DEF Return
<1>3. NoStickyFailure'
  BY <1>1, <1>2 DEF DisturbInv, NoStickyFailure, DisturbedNoted
<1>4. DisturbedNoted'
  BY <1>2, ReturnMoves DEF DisturbInv, DisturbedNoted
<1>5. QED
  BY <1>3, <1>4 DEF DisturbInv

LEMMA DisturbStep ==
    ASSUME TypeOK, DisturbInv, [Next]_vars
    PROVE  DisturbInv'
<1>1. ASSUME NEW s \in Sidecars, ChangeFile(s)
      PROVE  DisturbInv'
  <2>1. PICK k \in FileKind \ {file[s]} :
            /\ file' = [file EXCEPT ![s] = k]
            /\ disturbed' = [t \in Threads |->
                                IF k = "readable" THEN disturbed[t]
                                ELSE disturbed[t] \cup {s}]
            /\ UNCHANGED <<pc, answer>>
    BY <1>1 DEF ChangeFile
  <2>2. \A t \in Threads : disturbed[t] \subseteq disturbed'[t]
    BY <2>1
  <2>3. \A t \in Threads, x \in Sidecars :
            file'[x] # "readable" => file[x] # "readable" \/ x \in disturbed'[t]
    BY <2>1 DEF TypeOK
  <2>4. QED
    BY <2>1, <2>2, <2>3 DEF DisturbInv, NoStickyFailure, DisturbedNoted
<1>2. ASSUME NEW t \in Threads, NEW o \in Operations, Begin(t, o)
      PROVE  DisturbInv'
  <2>1. \A u \in Threads, x \in Sidecars :
            answer'[u][x] = IF u = t THEN Unasked ELSE answer[u][x]
    BY <1>2 DEF Begin, TypeOK
  <2>2. \A u \in Threads \ {t} : pc'[u] = pc[u] /\ disturbed'[u] = disturbed[u]
    BY <1>2 DEF Begin, TypeOK
  <2>3. UNCHANGED file /\ disturbed'[t] = {s \in Sidecars : file[s] # "readable"}
    BY <1>2 DEF Begin, TypeOK
  <2>4. QED
    BY <2>1, <2>2, <2>3 DEF DisturbInv, NoStickyFailure, DisturbedNoted, Unasked
<1>3. ASSUME NEW t \in Threads, Finish(t)
      PROVE  DisturbInv'
  BY <1>3 DEF Finish, TypeOK, DisturbInv, NoStickyFailure, DisturbedNoted
<1>4. ASSUME NEW t \in Threads, NEW s \in Sidecars, Access(t, s)
      PROVE  DisturbInv'
  <2>1. CASE CheckAbsent(t, s)
    <3>1. Return(t, s, Absent) /\ pc[t] # "idle" /\ file[s] # "readable"
      BY <2>1 DEF CheckAbsent
    <3>2. QED
      BY <3>1, ReturnKeepsDisturb
  <2>2. CASE CheckPresent(t, s) \/ Lock(t, s) \/ OpenFile(t, s)
    <3>1. /\ UNCHANGED <<file, disturbed, answer>>
          /\ \A u \in Threads : pc'[u] # "idle" => pc[u] # "idle"
      BY <2>2 DEF CheckPresent, Lock, OpenFile, TypeOK
    <3>2. QED
      BY <3>1 DEF DisturbInv, NoStickyFailure, DisturbedNoted
  <2>3. CASE ServeCached(t, s)
    <3>1. Return(t, s, Shared(cache[s])) /\ pc[t] # "idle"
      BY <2>3 DEF ServeCached
    <3>2. QED
      BY <3>1, ReturnKeepsDisturb DEF Shared
  <2>4. CASE OpenFails(t, s) \/ ReadFails(t, s)
    <3>1. Return(t, s, Failed) /\ pc[t] # "idle" /\ file[s] # "readable"
      BY <2>4 DEF OpenFails, ReadFails
    <3>2. QED
      BY <3>1, ReturnKeepsDisturb
  <2>5. CASE Publish(t, s)
    <3>1. Return(t, s, Shared(loads[s] + 1)) /\ pc[t] # "idle"
      BY <2>5 DEF Publish
    <3>2. QED
      BY <3>1, ReturnKeepsDisturb DEF Shared
  <2>6. QED
    BY <1>4, <2>1, <2>2, <2>3, <2>4, <2>5 DEF Access
<1>5. CASE UNCHANGED vars
  BY <1>5 DEF vars, DisturbInv, NoStickyFailure, DisturbedNoted
<1>6. QED
  BY <1>1, <1>2, <1>3, <1>4, <1>5 DEF Next, Progress

\* An accessor reports a missing or unreadable sidecar only when the file was
\* so during the caller's own operation: no earlier failure is remembered.
THEOREM FailuresForgotten == Spec => []NoStickyFailure
<1>1. Init => DisturbInv
  BY DEF Init, DisturbInv, NoStickyFailure, DisturbedNoted, Unasked
<1>2. TypeOK /\ DisturbInv /\ [Next]_vars => DisturbInv'
  BY DisturbStep
<1>3. DisturbInv => NoStickyFailure
  BY DEF DisturbInv
<1>4. QED
  BY <1>1, <1>2, <1>3, TypeCorrect, PTL DEF Spec

-----------------------------------------------------------------------------
(* The accessors implement write-once cells.                                 *)

\* What a client holds, as OnceCells sees it.
Held == [t \in Threads |-> [s \in Sidecars |-> answer[t][s].arc]]

\* What a return does to what the clients hold.
LEMMA ReturnHeld ==
    ASSUME TypeOK, NEW t \in Threads, NEW s \in Sidecars, NEW a, Return(t, s, a)
    PROVE  Held' = [Held EXCEPT ![t][s] = a.arc]
<1>1. answer' = [answer EXCEPT ![t][s] = a]
  BY DEF Return
<1>2. \A u \in Threads, x \in Sidecars :
          answer'[u][x].arc = IF u = t /\ x = s THEN a.arc ELSE answer[u][x].arc
  BY <1>1 DEF TypeOK
<1>3. Held' = [u \in Threads |-> [x \in Sidecars |->
                   IF u = t /\ x = s THEN a.arc ELSE answer[u][x].arc]]
  BY <1>2 DEF Held
<1>4. [Held EXCEPT ![t][s] = a.arc] = [u \in Threads |-> [x \in Sidecars |->
                   IF u = t /\ x = s THEN a.arc ELSE answer[u][x].arc]]
  BY DEF Held
<1>5. QED
  BY <1>3, <1>4

\* A step of LazySidecar is a step of OnceCells or changes neither variable.
LEMMA CellsStep ==
    ASSUME TypeOK, SharingInv, [Next]_vars
    PROVE  [Cells!CellsNext]_(Cells!cellVars)
<1> DEFINE Quiet == UNCHANGED <<cache, Held>>
<1>0. Quiet => [Cells!CellsNext]_(Cells!cellVars)
  BY DEF Cells!cellVars, Held
<1>1. ASSUME NEW t \in Threads, NEW o \in Operations, Begin(t, o)
      PROVE  Cells!CellsNext
  <2>1. /\ UNCHANGED cache
        /\ answer' = [answer EXCEPT ![t] = [s \in Sidecars |-> Unasked]]
    BY <1>1 DEF Begin
  <2>2. Held' = [Held EXCEPT ![t] = [s \in Sidecars |-> NoArc]]
    BY <2>1 DEF Held, TypeOK, Unasked
  <2>3. Cells!Restart(t)
    BY <2>1, <2>2 DEF Cells!Restart, Cells!Empty, NoArc, Held
  <2>4. QED
    BY <2>3 DEF Cells!CellsNext
<1>2. ASSUME NEW t \in Threads, NEW s \in Sidecars, NEW a, Return(t, s, a),
             a.arc = NoArc, UNCHANGED cache
      PROVE  Cells!CellsNext
  <2>1. Held' = [Held EXCEPT ![t][s] = NoArc]
    BY <1>2, ReturnHeld
  <2>2. Cells!Withhold(t, s)
    BY <1>2, <2>1 DEF Cells!Withhold, Cells!Empty, NoArc, Held
  <2>3. QED
    BY <2>2 DEF Cells!CellsNext
<1>3. ASSUME NEW t \in Threads, NEW s \in Sidecars, ServeCached(t, s)
      PROVE  Cells!CellsNext
  <2>1. /\ cache[s] # NoArc /\ UNCHANGED cache
        /\ Return(t, s, Shared(cache[s]))
    BY <1>3 DEF ServeCached
  <2>2. Held' = [Held EXCEPT ![t][s] = cache[s]]
    BY <2>1, ReturnHeld DEF Shared
  <2>3. Cells!Hand(t, s)
    BY <2>1, <2>2 DEF Cells!Hand, Cells!Empty, NoArc, Held
  <2>4. QED
    BY <2>3 DEF Cells!CellsNext
<1>4. ASSUME NEW t \in Threads, NEW s \in Sidecars, Publish(t, s)
      PROVE  Cells!CellsNext
  <2>1. /\ pc[t] = "loading" /\ s = Target(t)
        /\ cache' = [cache EXCEPT ![s] = loads[s] + 1]
        /\ Return(t, s, Shared(loads[s] + 1))
    BY <1>4 DEF Publish
  <2>2. cache[s] = NoArc /\ cache'[s] = loads[s] + 1 /\ loads[s] \in Nat
    BY <2>1 DEF SharingInv, LoaderIsFirst, TypeOK
  <2>3. Held' = [Held EXCEPT ![t][s] = cache'[s]]
    BY <2>1, <2>2, ReturnHeld DEF Shared
  <2>4. /\ cache'[s] \in Nat /\ cache'[s] # NoArc
        /\ cache' = [cache EXCEPT ![s] = cache'[s]]
    <3>1. loads[s] + 1 \in Nat /\ loads[s] + 1 # NoArc
      BY <2>2 DEF NoArc
    <3>2. cache' = [cache EXCEPT ![s] = cache'[s]]
      BY <2>1, <2>2
    <3>3. QED
      BY <2>2, <3>1, <3>2
  <2>5. Cells!Fill(t, s)
    BY <2>2, <2>3, <2>4 DEF Cells!Fill, Cells!Empty, NoArc, Held
  <2>6. QED
    BY <2>5 DEF Cells!CellsNext
<1>5. ASSUME NEW t \in Threads, NEW s \in Sidecars, Access(t, s)
      PROVE  [Cells!CellsNext]_(Cells!cellVars)
  <2>1. CASE CheckAbsent(t, s)
    <3>1. Return(t, s, Absent) /\ UNCHANGED cache
      BY <2>1 DEF CheckAbsent
    <3>2. QED
      BY <3>1, <1>2 DEF Absent
  <2>2. CASE OpenFails(t, s) \/ ReadFails(t, s)
    <3>1. Return(t, s, Failed) /\ UNCHANGED cache
      BY <2>2 DEF OpenFails, ReadFails
    <3>2. QED
      BY <3>1, <1>2 DEF Failed
  <2>3. CASE CheckPresent(t, s) \/ Lock(t, s) \/ OpenFile(t, s)
    <3>1. UNCHANGED <<cache, answer>>
      BY <2>3 DEF CheckPresent, Lock, OpenFile
    <3>2. QED
      BY <3>1, <1>0 DEF Held
  <2>4. QED
    BY <1>3, <1>4, <1>5, <2>1, <2>2, <2>3 DEF Access
<1>6. CASE \/ \E s \in Sidecars : ChangeFile(s)
           \/ \E t \in Threads : Finish(t)
           \/ UNCHANGED vars
  <2>1. UNCHANGED <<cache, answer>>
    BY <1>6 DEF ChangeFile, Finish, vars
  <2>2. QED
    BY <2>1, <1>0 DEF Held
<1>7. QED
  BY <1>1, <1>5, <1>6 DEF Next, Progress

\* The accessors, with their files, mutexes and interleavings, implement cells
\* that are filled at most once and handed out as they are.
THEOREM Refinement == Spec => ImplementsOnceCells
<1>1. Init => Cells!CellsInit
  BY DEF Init, Cells!CellsInit, Cells!Empty, NoArc, Unasked
<1>2. TypeOK /\ SharingInv /\ [Next]_vars => [Cells!CellsNext]_(Cells!cellVars)
  BY CellsStep
<1>3. QED
  BY <1>1, <1>2, TypeCorrect, SharingCorrect, PTL
     DEF Spec, ImplementsOnceCells, Cells!CellsSpec

-----------------------------------------------------------------------------
(* The outcome of a plan.  PlanOutcome speaks of an operation that is done;    *)
(* the strengthening speaks of one in progress too: it has asked the accessors *)
(* before its present step, and none of them failed that it depends on.        *)

\* What is known of place i of thread t's plan: the answer to its accessor call,
\* whether the operation depends on it, and whether the operation ended there.
AnswerAt(t, i) == answer[t][Plan[op[t]][i].sidecar].state
RequiredAt(t, i) == Plan[op[t]][i].required
EndedAt(t, i) == i = step[t] /\ pc[t] = "done"

\* A place is answered once the operation is past it or ended at it; an error it
\* depends on ends it, and nothing else ends it before its last place.
PlaceKept(t, i) ==
    /\ (AnswerAt(t, i) # "unasked") <=> (i < step[t] \/ EndedAt(t, i))
    /\ (AnswerAt(t, i) = "error" /\ RequiredAt(t, i)) => EndedAt(t, i)
    /\ (EndedAt(t, i) /\ i < Len(Plan[op[t]])) =>
           (AnswerAt(t, i) = "error" /\ RequiredAt(t, i))

PlanKept(t) == pc[t] # "idle" => \A i \in 1..Len(Plan[op[t]]) : PlaceKept(t, i)

PlanInv == \A t \in Threads : PlanKept(t)

\* A thread that keeps its operation, its place and its answers keeps its plan.
LEMMA PlanUntouched ==
    ASSUME NEW t \in Threads, PlanKept(t),
           op'[t] = op[t], step'[t] = step[t], answer'[t] = answer[t],
           pc'[t] = pc[t] \/ pc'[t] = "idle"
                          \/ (pc[t] \notin {"idle", "done"} /\ pc'[t] # "done")
    PROVE  PlanKept(t)'
<1>1. CASE pc'[t] = "idle"
  BY <1>1 DEF PlanKept
<1>2. CASE pc'[t] # "idle"
  <2>1. pc[t] # "idle" /\ ((pc'[t] = "done") <=> (pc[t] = "done"))
    BY <1>2
  <2>2. ASSUME NEW i \in 1..Len(Plan[op[t]])
        PROVE  PlaceKept(t, i)'
    <3>1. /\ AnswerAt(t, i)' = AnswerAt(t, i)
          /\ RequiredAt(t, i)' = RequiredAt(t, i)
      BY DEF AnswerAt, RequiredAt
    <3>2. EndedAt(t, i)' <=> EndedAt(t, i)
      BY <2>1 DEF EndedAt
    <3>3. PlaceKept(t, i)
      BY <2>1 DEF PlanKept
    <3>4. QED
      BY <3>1, <3>2, <3>3 DEF PlaceKept
  <2>3. QED
    BY <2>2 DEF PlanKept
<1>3. QED
  BY <1>1, <1>2

\* A return moves its thread one place on, or ends it there, and touches the
\* answer of one sidecar, which no other place of the plan asks for.
LEMMA ReturnKeepsPlan ==
    ASSUME TypeOK, PlanInv, NEW t \in Threads, NEW s \in Sidecars, NEW a \in Answer,
           pc[t] \notin {"idle", "done"}, s = Target(t), Return(t, s, a),
           a.state # "unasked", (a.state = "error") <=> (a = Failed)
    PROVE  PlanInv'
<1>1. ASSUME NEW u \in Threads, u # t
      PROVE  PlanKept(u)'
  <2>1. /\ op'[u] = op[u] /\ step'[u] = step[u] /\ answer'[u] = answer[u]
        /\ pc'[u] = pc[u]
    BY <1>1 DEF TypeOK, Return
  <2>2. QED
    BY <2>1, PlanUntouched DEF PlanInv
<1>2. PlanKept(t)'
  <2>1. /\ Plan[op[t]] \in Seq(AccessorCall) /\ Len(Plan[op[t]]) \in Nat
        /\ step[t] \in 1..Len(Plan[op[t]])
        /\ op[t] \in Operations /\ op' = op
    BY DEF TypeOK, Return
  <2>2. \A x \in Sidecars : answer'[t][x] = IF x = s THEN a ELSE answer[t][x]
    BY DEF TypeOK, Return
  <2>3. ASSUME NEW i \in 1..Len(Plan[op[t]])
        PROVE  /\ Plan[op[t]][i].sidecar \in Sidecars
               /\ (Plan[op[t]][i].sidecar = s) <=> (i = step[t])
    <3>1. \A j \in 1..Len(Plan[op[t]]) : Plan[op[t]][j] \in AccessorCall
      BY <2>1
    <3>2. s = Plan[op[t]][step[t]].sidecar
      BY DEF Target, Current
    <3>3. QED
      BY <2>1, <3>1, <3>2, DistinctAssumption DEF AccessorCall
  <2>4. \/ /\ step[t] = Len(Plan[op[t]]) \/ (a.state = "error" /\ RequiredAt(t, step[t]))
           /\ pc'[t] = "done" /\ step'[t] = step[t]
        \/ /\ step[t] # Len(Plan[op[t]])
           /\ ~(a.state = "error" /\ RequiredAt(t, step[t]))
           /\ pc'[t] = "check" /\ step'[t] = step[t] + 1
    BY DEF TypeOK, Return, Current, RequiredAt
  <2>5. ASSUME NEW i \in 1..Len(Plan[op[t]])
        PROVE  PlaceKept(t, i)'
    <3>1. /\ i \in Nat /\ i <= Len(Plan[op[t]])
          /\ step[t] \in Nat /\ step[t] <= Len(Plan[op[t]])
          /\ Len(Plan[op[t]]) \in Nat
      BY <2>1
    <3>2. PlaceKept(t, i) /\ ~EndedAt(t, i)
      BY DEF PlanInv, PlanKept, EndedAt
    <3>3. /\ (AnswerAt(t, i) # "unasked") <=> (i < step[t])
          /\ ~(AnswerAt(t, i) = "error" /\ RequiredAt(t, i))
      BY <3>2 DEF PlaceKept
    <3>4. RequiredAt(t, i)' = RequiredAt(t, i)
      BY <2>1 DEF RequiredAt
    <3>5. CASE i = step[t]
      <4>1. AnswerAt(t, i)' = a.state
        BY <2>1, <2>2, <2>3, <3>5 DEF AnswerAt
      <4>2. AnswerAt(t, i)' # "unasked"
        BY <4>1
      <4>3. CASE i = Len(Plan[op[t]]) \/ (a.state = "error" /\ RequiredAt(t, i))
        <5>1. EndedAt(t, i)'
          BY <2>4, <3>5, <4>3 DEF EndedAt
        <5>2. (i < Len(Plan[op[t]])) => (AnswerAt(t, i)' = "error" /\ RequiredAt(t, i)')
          BY <3>1, <3>4, <4>1, <4>3
        <5>3. QED
          BY <2>1, <4>2, <5>1, <5>2 DEF PlaceKept
      <4>4. CASE ~(i = Len(Plan[op[t]]) \/ (a.state = "error" /\ RequiredAt(t, i)))
        <5>1. step'[t] = step[t] + 1 /\ pc'[t] = "check"
          BY <2>4, <3>5, <4>4
        <5>2. i < step'[t] /\ ~EndedAt(t, i)'
          BY <3>1, <3>5, <5>1 DEF EndedAt
        <5>3. ~(AnswerAt(t, i)' = "error" /\ RequiredAt(t, i)')
          BY <3>4, <4>1, <4>4
        <5>4. QED
          BY <4>2, <5>2, <5>3 DEF PlaceKept
      <4>5. QED
        BY <4>3, <4>4
    <3>6. CASE i # step[t]
      <4>1. AnswerAt(t, i)' = AnswerAt(t, i)
        BY <2>1, <2>2, <2>3, <3>6 DEF AnswerAt
      <4>2. ~EndedAt(t, i)' /\ ((i < step'[t]) <=> (i < step[t]))
        BY <2>4, <3>1, <3>6 DEF EndedAt
      <4>3. QED
        BY <3>3, <3>4, <4>1, <4>2 DEF PlaceKept
    <3>7. QED
      BY <3>5, <3>6
  <2>6. QED
    BY <2>1, <2>5 DEF PlanKept
<1>3. QED
  BY <1>1, <1>2 DEF PlanInv

LEMMA PlanStep ==
    ASSUME TypeOK, PlanInv, [Next]_vars
    PROVE  PlanInv'
<1>0. /\ Absent.state = "none" /\ Failed.state = "error" /\ Absent # Failed
      /\ \A id \in Nat : Shared(id).state = "shared" /\ Shared(id) # Failed
  BY DEF Absent, Failed, Shared
<1>1. ASSUME NEW s \in Sidecars, ChangeFile(s)
      PROVE  PlanInv'
  BY <1>1, PlanUntouched DEF ChangeFile, PlanInv
<1>2. ASSUME NEW t \in Threads, NEW o \in Operations, Begin(t, o)
      PROVE  PlanInv'
  <2>1. ASSUME NEW u \in Threads, u # t
        PROVE  PlanKept(u)'
    <3>1. /\ op'[u] = op[u] /\ step'[u] = step[u] /\ answer'[u] = answer[u]
          /\ pc'[u] = pc[u]
      BY <1>2, <2>1 DEF TypeOK, Begin
    <3>2. QED
      BY <3>1, PlanUntouched DEF PlanInv
  <2>2. /\ pc'[t] = "check" /\ op'[t] = o /\ step'[t] = 1
        /\ answer'[t] = [s \in Sidecars |-> Unasked]
    BY <1>2 DEF TypeOK, Begin
  <2>3. /\ Plan[o] \in Seq(AccessorCall)
        /\ \A i \in 1..Len(Plan[o]) : Plan[o][i].sidecar \in Sidecars
    <3>1. Plan[o] \in Seq(AccessorCall)
      OBVIOUS
    <3>2. \A i \in 1..Len(Plan[o]) : Plan[o][i] \in AccessorCall
      BY <3>1
    <3>3. QED
      BY <3>1, <3>2 DEF AccessorCall
  <2>4. \A i \in 1..Len(Plan[o]) : answer'[t][Plan[o][i].sidecar].state = "unasked"
    BY <2>2, <2>3 DEF Unasked
  <2>5. ASSUME NEW i \in 1..Len(Plan[o])
        PROVE  PlaceKept(t, i)'
    <3>1. AnswerAt(t, i)' = "unasked"
      BY <2>2, <2>4 DEF AnswerAt
    <3>2. ~(i < step'[t]) /\ ~EndedAt(t, i)'
      BY <2>2 DEF EndedAt
    <3>3. QED
      BY <3>1, <3>2 DEF PlaceKept
  <2>6. PlanKept(t)'
    BY <2>2, <2>5 DEF PlanKept
  <2>7. QED
    BY <2>1, <2>6 DEF PlanInv
<1>3. ASSUME NEW t \in Threads, Finish(t)
      PROVE  PlanInv'
  <2>1. /\ UNCHANGED <<op, step, answer>>
        /\ \A u \in Threads : pc'[u] = pc[u] \/ pc'[u] = "idle"
    BY <1>3 DEF TypeOK, Finish
  <2>2. QED
    BY <2>1, PlanUntouched DEF PlanInv
<1>4. ASSUME NEW t \in Threads, NEW s \in Sidecars, Access(t, s)
      PROVE  PlanInv'
  <2>1. CASE CheckAbsent(t, s)
    <3>1. pc[t] = "check" /\ s = Target(t) /\ Return(t, s, Absent)
      BY <2>1 DEF CheckAbsent
    <3>2. QED
      BY <1>0, <3>1, ReturnKeepsPlan, AnswerTypes
  <2>2. CASE CheckPresent(t, s) \/ Lock(t, s) \/ OpenFile(t, s)
    <3>1. /\ UNCHANGED <<op, step, answer>>
          /\ \A u \in Threads : \/ pc'[u] = pc[u]
                                \/ pc[u] \notin {"idle", "done"} /\ pc'[u] # "done"
      BY <2>2 DEF TypeOK, CheckPresent, Lock, OpenFile
    <3>2. QED
      BY <3>1, PlanUntouched DEF PlanInv
  <2>3. CASE ServeCached(t, s)
    <3>1. /\ pc[t] = "locked" /\ s = Target(t) /\ Return(t, s, Shared(cache[s]))
          /\ cache[s] \in Nat
      BY <2>3 DEF ServeCached, TypeOK
    <3>2. QED
      BY <1>0, <3>1, ReturnKeepsPlan, AnswerTypes
  <2>4. CASE OpenFails(t, s) \/ ReadFails(t, s)
    <3>1. /\ pc[t] \in {"locked", "loading"} /\ s = Target(t) /\ Return(t, s, Failed)
      BY <2>4 DEF OpenFails, ReadFails
    <3>2. QED
      BY <1>0, <3>1, ReturnKeepsPlan, AnswerTypes
  <2>5. CASE Publish(t, s)
    <3>1. /\ pc[t] = "loading" /\ s = Target(t) /\ Return(t, s, Shared(loads[s] + 1))
          /\ loads[s] + 1 \in Nat
      BY <2>5 DEF Publish, TypeOK
    <3>2. QED
      BY <1>0, <3>1, ReturnKeepsPlan, AnswerTypes
  <2>6. QED
    BY <1>4, <2>1, <2>2, <2>3, <2>4, <2>5 DEF Access
<1>5. CASE UNCHANGED vars
  BY <1>5, PlanUntouched DEF vars, PlanInv
<1>6. QED
  BY <1>1, <1>2, <1>3, <1>4, <1>5 DEF Next, Progress

LEMMA PlanInvOutcome ==
    ASSUME TypeOK, PlanInv
    PROVE  PlanOutcome
<1> SUFFICES ASSUME NEW t \in Threads, pc[t] = "done",
                    NEW i \in 1..Len(Plan[op[t]])
             PROVE  LET c == Plan[op[t]][i]
                        a == answer[t][c.sidecar].state
                    IN  /\ (a = "unasked") <=> (i > step[t])
                        /\ (a = "error" /\ c.required) => i = step[t]
                        /\ (i = step[t] /\ i < Len(Plan[op[t]])) =>
                               (a = "error" /\ c.required)
  BY DEF PlanOutcome
<1>1. i \in Nat /\ step[t] \in Nat
  BY DEF TypeOK
<1> DEFINE a == answer[t][Plan[op[t]][i].sidecar].state
           required == Plan[op[t]][i].required
           k == step[t]
<1>2. /\ (a # "unasked") <=> (i < k \/ i = k)
      /\ (a = "error" /\ required) => i = k
      /\ (i = k /\ i < Len(Plan[op[t]])) => (a = "error" /\ required)
  <2>1. PlaceKept(t, i)
    BY DEF PlanInv, PlanKept
  <2>2. QED
    BY <2>1 DEF PlaceKept, AnswerAt, RequiredAt, EndedAt
<1>3. (a = "unasked") <=> (i > k)
  <2> HIDE DEF a
  <2> QED
    BY <1>1, <1>2
<1>4. QED
  BY <1>2, <1>3

\* For any plans: an operation ends at the first error it depends on or when all
\* its accessors have answered, and asks for nothing after that.
THEOREM OperationsEndAsPlanned == Spec => []PlanOutcome
<1>1. Init => PlanInv
  BY DEF Init, PlanInv, PlanKept
<1>2. TypeOK /\ PlanInv /\ [Next]_vars => PlanInv'
  BY PlanStep
<1>3. TypeOK /\ PlanInv => PlanOutcome
  BY PlanInvOutcome
<1>4. QED
  BY <1>1, <1>2, <1>3, TypeCorrect, PTL DEF Spec
=============================================================================
