----------------------------- MODULE LazySidecar -----------------------------
(***************************************************************************)
(* The six lazily opened sidecars of one shared CallBook, each a            *)
(* Mutex<Option<Arc<_>>> (db.rs, struct CallBook), used by several threads. *)
(*                                                                          *)
(* An accessor first asks the file system whether the sidecar is a file,    *)
(* with no lock held, then takes the mutex of that sidecar, opens the file  *)
(* if the cache is still empty, and clones the Arc.  A client operation is  *)
(* a plan: the accessors it calls one after the other, and for each whether *)
(* an error ends the operation (`?`) or counts as absent (`.ok()`).         *)
(* Files appear, vanish and turn unreadable at any time.                    *)
(***************************************************************************)
EXTENDS Naturals, Sequences

CONSTANTS
    Threads,
    Sidecars,
    Operations,     \* the client operations the threads may call
    Plan,           \* Plan[o]: the sequence of accessor calls of operation o
    NoOwner,        \* the owner of a mutex nobody holds
    MaxCalls        \* bound: operations one thread performs

AccessorCall == [sidecar : Sidecars, required : BOOLEAN]

ASSUME PlanAssumption ==
    /\ Plan \in [Operations -> Seq(AccessorCall)]
    /\ \A o \in Operations : Len(Plan[o]) > 0
\* No operation goes to one sidecar twice.
ASSUME DistinctAssumption ==
    \A o \in Operations : \A i, j \in 1..Len(Plan[o]) :
        i # j => Plan[o][i].sidecar # Plan[o][j].sidecar
ASSUME OwnerAssumption == NoOwner \notin Threads
ASSUME BoundAssumption == MaxCalls \in Nat

VARIABLES
    file,       \* file[s]: what the file system holds at the sidecar's path
    cache,      \* cache[s]: identity of the cached Arc, or NoArc
    owner,      \* owner[s]: the thread inside the mutex of s, or NoOwner
    loads,      \* loads[s]: how often s was opened and parsed with success
    pc,         \* pc[t]: where thread t is inside the accessor
    op,         \* op[t]: the operation t performs
    step,       \* step[t]: which accessor call of the plan t is at
    answer,     \* answer[t][s]: what the accessor of s returned to t
    calls,      \* calls[t]: operations t has completed
    disturbed   \* disturbed[t]: sidecars not readable at some time of t's
                \* present operation (history, read by properties only)

vars == <<file, cache, owner, loads, pc, op, step, answer, calls, disturbed>>

NoArc == 0
FileKind == {"absent", "readable", "broken"}
Location == {"idle", "check", "lock", "locked", "loading", "done"}
Unasked == [state |-> "unasked", arc |-> NoArc]
Absent == [state |-> "none", arc |-> NoArc]
Failed == [state |-> "error", arc |-> NoArc]
Shared(id) == [state |-> "shared", arc |-> id]
Answer == [state : {"unasked", "none", "error", "shared"}, arc : Nat]

TypeOK ==
    /\ file \in [Sidecars -> FileKind]
    /\ cache \in [Sidecars -> Nat]
    /\ owner \in [Sidecars -> Threads \cup {NoOwner}]
    /\ loads \in [Sidecars -> Nat]
    /\ pc \in [Threads -> Location]
    /\ op \in [Threads -> Operations]
    /\ step \in [Threads -> Nat \ {0}]
    /\ \A t \in Threads : step[t] <= Len(Plan[op[t]])
    /\ answer \in [Threads -> [Sidecars -> Answer]]
    /\ calls \in [Threads -> Nat]
    /\ disturbed \in [Threads -> SUBSET Sidecars]

Init ==
    /\ file \in [Sidecars -> FileKind]
    /\ cache = [s \in Sidecars |-> NoArc]
    /\ owner = [s \in Sidecars |-> NoOwner]
    /\ loads = [s \in Sidecars |-> 0]
    /\ pc = [t \in Threads |-> "idle"]
    /\ op \in [Threads -> Operations]
    /\ step = [t \in Threads |-> 1]
    /\ answer = [t \in Threads |-> [s \in Sidecars |-> Unasked]]
    /\ calls = [t \in Threads |-> 0]
    /\ disturbed = [t \in Threads |-> {}]

\* The accessor call thread t is performing, and its sidecar.
Current(t) == Plan[op[t]][step[t]]
Target(t) == Current(t).sidecar

-----------------------------------------------------------------------------
(* The file system, outside the program.                                    *)

ChangeFile(s) ==
    \E k \in FileKind \ {file[s]} :
        /\ file' = [file EXCEPT ![s] = k]
        /\ disturbed' = [t \in Threads |->
                            IF k = "readable" THEN disturbed[t]
                            ELSE disturbed[t] \cup {s}]
        /\ UNCHANGED <<cache, owner, loads, pc, op, step, answer, calls>>

-----------------------------------------------------------------------------
(* A thread and its operation.                                              *)

Begin(t, o) ==
    /\ pc[t] = "idle"
    /\ calls[t] < MaxCalls
    /\ pc' = [pc EXCEPT ![t] = "check"]
    /\ op' = [op EXCEPT ![t] = o]
    /\ step' = [step EXCEPT ![t] = 1]
    /\ answer' = [answer EXCEPT ![t] = [s \in Sidecars |-> Unasked]]
    /\ disturbed' = [disturbed EXCEPT ![t] =
                        {s \in Sidecars : file[s] # "readable"}]
    /\ UNCHANGED <<file, cache, owner, loads, calls>>

Finish(t) ==
    /\ pc[t] = "done"
    /\ pc' = [pc EXCEPT ![t] = "idle"]
    /\ calls' = [calls EXCEPT ![t] = @ + 1]
    /\ UNCHANGED <<file, cache, owner, loads, op, step, answer, disturbed>>

\* Deviation: every error ends the operation, tolerated or not.
ReturnIntolerant(t, s, a) ==
    LET stops == step[t] = Len(Plan[op[t]]) \/ a = Failed
    IN  /\ answer' = [answer EXCEPT ![t][s] = a]
        /\ pc' = [pc EXCEPT ![t] = IF stops THEN "done" ELSE "check"]
        /\ step' = [step EXCEPT ![t] = IF stops THEN @ ELSE @ + 1]
        /\ UNCHANGED <<file, op, calls, disturbed>>

\* Deviation: no error ends the operation.
ReturnTolerant(t, s, a) ==
    LET stops == step[t] = Len(Plan[op[t]])
    IN  /\ answer' = [answer EXCEPT ![t][s] = a]
        /\ pc' = [pc EXCEPT ![t] = IF stops THEN "done" ELSE "check"]
        /\ step' = [step EXCEPT ![t] = IF stops THEN @ ELSE @ + 1]
        /\ UNCHANGED <<file, op, calls, disturbed>>

\* The accessor of s returns a to t.  The caller goes on with its plan
\* unless it is complete or a is an error it does not tolerate.
Return(t, s, a) ==
    LET stops == \/ step[t] = Len(Plan[op[t]])
                 \/ a = Failed /\ Current(t).required
    IN  /\ answer' = [answer EXCEPT ![t][s] = a]
        /\ pc' = [pc EXCEPT ![t] = IF stops THEN "done" ELSE "check"]
        /\ step' = [step EXCEPT ![t] = IF stops THEN @ ELSE @ + 1]
        /\ UNCHANGED <<file, op, calls, disturbed>>

\* Deviation: the cache is not looked at again under the mutex.
OpenFileUnchecked(t, s) ==
    /\ pc[t] = "locked" /\ s = Target(t)
    /\ file[s] # "absent"
    /\ pc' = [pc EXCEPT ![t] = "loading"]
    /\ UNCHANGED <<file, cache, owner, loads, op, step, answer, calls, disturbed>>

\* Deviation: the error return leaves the mutex locked.
ReadFailsKeepingMutex(t, s) ==
    /\ pc[t] = "loading" /\ s = Target(t)
    /\ file[s] = "broken"
    /\ Return(t, s, Failed)
    /\ UNCHANGED <<cache, owner, loads>>

\* `if !path.is_file() { return Ok(None) }`, before the mutex and even when
\* the cache is filled.
CheckAbsent(t, s) ==
    /\ pc[t] = "check" /\ s = Target(t)
    /\ file[s] = "absent"
    /\ Return(t, s, Absent)
    /\ UNCHANGED <<cache, owner, loads>>

CheckPresent(t, s) ==
    /\ pc[t] = "check" /\ s = Target(t)
    /\ file[s] # "absent"
    /\ pc' = [pc EXCEPT ![t] = "lock"]
    /\ UNCHANGED <<file, cache, owner, loads, op, step, answer, calls, disturbed>>

Lock(t, s) ==
    /\ pc[t] = "lock" /\ s = Target(t)
    /\ owner[s] = NoOwner
    /\ owner' = [owner EXCEPT ![s] = t]
    /\ pc' = [pc EXCEPT ![t] = "locked"]
    /\ UNCHANGED <<file, cache, loads, op, step, answer, calls, disturbed>>

\* The guard goes out of scope and the clone of the Arc is returned.
ServeCached(t, s) ==
    /\ pc[t] = "locked" /\ s = Target(t)
    /\ cache[s] # NoArc
    /\ owner' = [owner EXCEPT ![s] = NoOwner]
    /\ Return(t, s, Shared(cache[s]))
    /\ UNCHANGED <<cache, loads>>

\* The cache is empty: the file is opened with the mutex held.
OpenFile(t, s) ==
    /\ pc[t] = "locked" /\ s = Target(t)
    /\ cache[s] = NoArc
    /\ file[s] # "absent"
    /\ pc' = [pc EXCEPT ![t] = "loading"]
    /\ UNCHANGED <<file, cache, owner, loads, op, step, answer, calls, disturbed>>

\* The file vanished after is_file(): open fails, `?` returns the error, the
\* guard is dropped and the cache stays empty.
OpenFails(t, s) ==
    /\ pc[t] = "locked" /\ s = Target(t)
    /\ cache[s] = NoArc
    /\ file[s] = "absent"
    /\ owner' = [owner EXCEPT ![s] = NoOwner]
    /\ Return(t, s, Failed)
    /\ UNCHANGED <<cache, loads>>

\* Reading the opened file fails: the same way out.
ReadFails(t, s) ==
    /\ pc[t] = "loading" /\ s = Target(t)
    /\ file[s] = "broken"
    /\ owner' = [owner EXCEPT ![s] = NoOwner]
    /\ Return(t, s, Failed)
    /\ UNCHANGED <<cache, loads>>

\* The parsed sidecar becomes the cached Arc; a file unlinked meanwhile is
\* still readable through the open descriptor.
Publish(t, s) ==
    /\ pc[t] = "loading" /\ s = Target(t)
    /\ file[s] # "broken"
    /\ loads' = [loads EXCEPT ![s] = @ + 1]
    /\ cache' = [cache EXCEPT ![s] = loads[s] + 1]
    /\ owner' = [owner EXCEPT ![s] = NoOwner]
    /\ Return(t, s, Shared(loads[s] + 1))

\* Deviation: the cache keeps a failed load, as it would if the mutex held an
\* Option<Result<_>>, and hands it to every later caller as an absence.
RememberedFailure == 2

FailRemembered(t, s) ==
    /\ \/ pc[t] = "locked" /\ cache[s] = NoArc /\ file[s] = "absent"
       \/ pc[t] = "loading" /\ file[s] = "broken"
    /\ s = Target(t)
    /\ cache' = [cache EXCEPT ![s] = RememberedFailure]
    /\ owner' = [owner EXCEPT ![s] = NoOwner]
    /\ Return(t, s, Failed)
    /\ UNCHANGED loads

ServeFailure(t, s) ==
    /\ pc[t] = "locked" /\ s = Target(t)
    /\ cache[s] = RememberedFailure
    /\ owner' = [owner EXCEPT ![s] = NoOwner]
    /\ Return(t, s, Absent)
    /\ UNCHANGED <<cache, loads>>

AccessRememberingFailure(t, s) ==
    \/ CheckAbsent(t, s)
    \/ CheckPresent(t, s)
    \/ Lock(t, s)
    \/ cache[s] # RememberedFailure /\ ServeCached(t, s)
    \/ ServeFailure(t, s)
    \/ OpenFile(t, s)
    \/ FailRemembered(t, s)
    \/ Publish(t, s)

Access(t, s) ==
    \/ CheckAbsent(t, s)
    \/ CheckPresent(t, s)
    \/ Lock(t, s)
    \/ ServeCached(t, s)
    \/ OpenFile(t, s)
    \/ OpenFails(t, s)
    \/ ReadFails(t, s)
    \/ Publish(t, s)

\* What thread t does once it has entered an operation.
Progress(t) == Finish(t) \/ \E s \in Sidecars : Access(t, s)

Next ==
    \/ \E s \in Sidecars : ChangeFile(s)
    \/ \E t \in Threads : Progress(t) \/ \E o \in Operations : Begin(t, o)

Spec == Init /\ [][Next]_vars

\* The operating system keeps running every thread that can run.  Nothing is
\* assumed of the files, nor that a thread ever starts another operation.
FairSpec == Spec /\ \A t \in Threads : WF_vars(Progress(t))

-----------------------------------------------------------------------------
(* Properties.                                                              *)

InMutex(t) == pc[t] \in {"locked", "loading"}

\* A mutex is owned by exactly the thread that is between lock() and the drop
\* of its guard, on every way out of the accessor, the error returns of `?`
\* included (db.rs, lookup_counts and its five siblings).
MutexDiscipline ==
    \A t \in Threads, s \in Sidecars :
        (owner[s] = t) <=> (InMutex(t) /\ Target(t) = s)

\* Every thread that was handed a sidecar holds the Arc that is in the cache:
\* no two threads race the same file into two datasets, and no client keeps an
\* Arc the cache has replaced (Arc::ptr_eq in the tests of real_db.rs).
OneArcPerSidecar ==
    \A t \in Threads, s \in Sidecars :
        answer[t][s].state = "shared" => /\ answer[t][s].arc = cache[s]
                                         /\ cache[s] # NoArc

\* A sidecar is opened and parsed with success at most once in the life of the
\* CallBook, and an empty cache means that it never was.
LoadedOnce ==
    \A s \in Sidecars : /\ loads[s] <= 1
                        /\ cache[s] = loads[s]

\* A client is told "no such sidecar" or gets an error only if the file was
\* missing or unreadable at some time of its own operation: a failure of an
\* earlier load is not remembered and the next caller opens the file again.
NoStickyFailure ==
    \A t \in Threads, s \in Sidecars :
        answer[t][s].state \in {"none", "error"} => s \in disturbed[t]

\* An operation ends exactly when its plan is answered or when an accessor it
\* depends on failed, and in that case it asked for nothing further: an
\* unreadable photo manifest never costs a profile its lookup count or map.
PlanOutcome ==
    \A t \in Threads : pc[t] = "done" =>
        \A i \in 1..Len(Plan[op[t]]) :
            LET c == Plan[op[t]][i]
                a == answer[t][c.sidecar].state
            IN  /\ (a = "unasked") <=> (i > step[t])
                /\ (a = "error" /\ c.required) => i = step[t]
                /\ (i = step[t] /\ i < Len(Plan[op[t]])) =>
                       (a = "error" /\ c.required)

\* Once filled, a cache is never replaced, emptied or refreshed, whatever
\* happens to the file.
PublishedStays ==
    [][\A s \in Sidecars : cache[s] # NoArc => cache'[s] = cache[s]]_vars

\* Every operation that is begun returns: no thread waits for a mutex that is
\* never released, and no two threads wait for each other.
EveryCallReturns ==
    \A t \in Threads : (pc[t] # "idle") ~> (pc[t] = "idle")

\* What README.md and ffi.rs say of concurrent use: reads after open are
\* lock-free, so no thread ever waits for another one inside an accessor.
LockFreeReads ==
    \A t \in Threads : pc[t] = "lock" => owner[Target(t)] = NoOwner

-----------------------------------------------------------------------------
(* The accessors implement write-once cells.                                *)

Cells == INSTANCE OnceCells WITH
            Clients <- Threads,
            Cells <- Sidecars,
            value <- cache,
            reply <- [t \in Threads |-> [s \in Sidecars |-> answer[t][s].arc]]

\* The accessors behave as cells that are filled once and handed out.
ImplementsOnceCells == Cells!CellsSpec
=============================================================================
