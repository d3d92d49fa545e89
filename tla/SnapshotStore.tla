---------------------------- MODULE SnapshotStore ---------------------------
(***************************************************************************)
(* Snapshots of one stream (services/snapshot/snapshotStore.js).  Every    *)
(* operation has a time, awaits the stored array and then writes back a    *)
(* new one; operations overlap.  A storage backend answers load with a   *)
(* copy, or, as MemoryStorage does, with the stored array itself, which    *)
(* the operations then push onto in place.  Arrays are therefore named.    *)
(***************************************************************************)
EXTENDS Integers, Sequences, SequencesExt

CONSTANTS
    Callers,          \* operations under way at a time
    intervalSecs, retentionLimit,
    MaxOps,           \* bound: operations
    SnapTimes         \* the times operations are given

ASSUME SnapAssumption == retentionLimit \in Nat /\ SnapTimes \subseteq Nat

VARIABLES
    by_reference,     \* the backend is MemoryStorage
    arrays,           \* every array made so far
    stored,           \* the array of the stream, 0 if there is none
    writer,           \* history: the operation that stored it
    caller,           \* the operation of each caller, what it has loaded
    ops

snap_vars == <<by_reference, arrays, stored, writer, caller, ops>>

Resting == [op |-> "none", now |-> 0, array |-> 0]

Kinds == {"checkpoint", "forceCheckpoint", "cleanup"}

\* load is called with the time now of the operation: the clock's, the caller's own
\* nowSecs, or a cleanup's olderThanTs, so that nothing orders the times of two
\* operations.  A missing array becomes a new one, and so does a backend's copy.
load(c, op, now) ==
    LET content == IF stored = 0 THEN <<>> ELSE arrays[stored]
        shared == by_reference /\ stored # 0
    IN  /\ caller[c] = Resting /\ ops < MaxOps
        /\ ops' = ops + 1
        /\ arrays' = IF shared THEN arrays ELSE Append(arrays, content)
        /\ caller' = [caller EXCEPT ![c] =
              [op |-> op, now |-> now, array |-> IF shared THEN stored ELSE Len(arrays) + 1]]
        /\ UNCHANGED <<by_reference, stored, writer>>

\* Mutant: everything is kept.
Trimmed_not(snapshots) == snapshots

\* slice(-retentionLimit), which for 0 is slice(0), the whole array.
Trimmed(snapshots) ==
    IF retentionLimit = 0 \/ Len(snapshots) <= retentionLimit
    THEN snapshots
    ELSE SubSeq(snapshots, Len(snapshots) - retentionLimit + 1, Len(snapshots))

\* save replaces the stored array by a new one; pushed stays what the old one is.
save(c, pushed, kept) ==
    /\ arrays' = Append([arrays EXCEPT ![caller[c].array] = pushed], kept)
    /\ stored' = Len(arrays) + 1
    /\ writer' = caller[c].op
    /\ caller' = [caller EXCEPT ![c] = Resting]
    /\ UNCHANGED <<by_reference, ops>>

Loaded(c) == arrays[caller[c].array]

TooSoon(c) == Loaded(c) # <<>> /\ caller[c].now - Loaded(c)[Len(Loaded(c))] < intervalSecs

push(c) == LET pushed == Append(Loaded(c), caller[c].now) IN save(c, pushed, Trimmed(pushed))

checkpoint(c) ==
    /\ caller[c].op = "checkpoint"
    /\ \/ ~TooSoon(c) /\ push(c)
       \/ /\ TooSoon(c)
          /\ caller' = [caller EXCEPT ![c] = Resting]
          /\ UNCHANGED <<by_reference, arrays, stored, writer, ops>>

forceCheckpoint(c) == caller[c].op = "forceCheckpoint" /\ push(c)

\* filter((s) => s.ts >= olderThanTs).
NotOlder(snapshots, olderThanTs) ==
    LET Filter(kept, ts) == IF ts >= olderThanTs THEN Append(kept, ts) ELSE kept
    IN  FoldLeft(Filter, <<>>, snapshots)

cleanup(c) ==
    /\ caller[c].op = "cleanup"
    /\ save(c, Loaded(c), NotOlder(Loaded(c), caller[c].now))

SnapInit ==
    /\ by_reference \in BOOLEAN
    /\ arrays = <<>> /\ stored = 0 /\ writer = "none" /\ ops = 0
    /\ caller = [c \in Callers |-> Resting]

SnapNext ==
    \E c \in Callers :
        \/ \E op \in Kinds, now \in SnapTimes : load(c, op, now)
        \/ checkpoint(c) \/ forceCheckpoint(c) \/ cleanup(c)

SnapSpec == SnapInit /\ [][SnapNext]_snap_vars
-----------------------------------------------------------------------------
Snapshots == IF stored = 0 THEN <<>> ELSE arrays[stored]

\* The stored list stays within its limit however many operations loaded the same
\* array, pushed onto it and wrote it back late.  The exception is a cleanup of a
\* MemoryStorage array that others have pushed onto meanwhile: it writes back all
\* it finds, until the next snapshot trims the list.
RetentionHolds ==
    \/ retentionLimit = 0 \/ Len(Snapshots) <= retentionLimit
    \/ by_reference /\ writer = "cleanup"

-----------------------------------------------------------------------------
(* What a comment says and the code does not do.                           *)

\* snapshotStore.js:60, forceCheckpoint returns "the new snapshot": with nothing
\* else under way but checkpoints, what was stored is still stored afterwards, up
\* to the limit.  Two operations that overlap lose one of their snapshots.
NothingOverwritten ==
    [][(\A c \in Callers : caller[c].op # "cleanup") /\ Len(Snapshots) < retentionLimit
         => Len(Snapshots') >= Len(Snapshots)
              /\ SubSeq(Snapshots', 1, Len(Snapshots)) = Snapshots]_snap_vars
=============================================================================
