----------------------------- MODULE Operators -----------------------------
(***************************************************************************)
(* The operators of src/operator besides NumericArray_MAX (which module    *)
(* Backup models with the threads around it): arrays and hash maps under   *)
(* the L1, L2 and MAX divergence, the hash map and the set whose           *)
(* divergence counts entries.  One operator of a kind chosen at the start  *)
(* goes through items, divergence tests, backups, windows and crashes.     *)
(*                                                                         *)
(* The backup is one step here: the thread waits for the server's answer   *)
(* (module Worker).  The hash map and set templates are not instantiated   *)
(* anywhere and do not compile as they stand (backup_map.end, it->first    *)
(* for a pair, backup_array for backup_map); they are read for what these  *)
(* lines must mean.                                                        *)
(***************************************************************************)
EXTENDS Integers, Sequences, FiniteSets, FiniteSetsExt

CONSTANTS Keys,        \* indices, or keys; 0 is the zero key
          MaxElement,  \* elements are 0 .. MaxElement
          Thetas,      \* thresholds given to SetDivergenceThresh
          Cap,         \* entries that fit a BackupData
          Garbage,     \* what an uninitialised number may hold
          MaxBackups,  \* bound on backup_time at the end of a window
          MaxLives     \* bound on the processes run one after the other

ASSUME OperatorsAssumption ==
  /\ 0 \in Keys /\ Keys \subseteq Nat /\ IsFiniteSet(Keys)
  /\ MaxElement \in Nat /\ Thetas \subseteq Nat /\ Cap \in Nat \ {0}
  /\ Garbage \subseteq Nat /\ MaxBackups \in Nat /\ MaxLives \in Nat

VARIABLES
  kind, theta,
  length,        \* of the arrays: never assigned by the constructors
  elems, saved,  \* array and backup_array, map and backup_map, set and backup_set
  diff,          \* tot_diff or max_diff
  diff_key,      \* max_diff_key
  backup_time,
  phase,         \* between items, before the divergence test, crashed
  store,         \* the server: entries of the item saved for each meta.key
  lives,         \* history: processes so far,
  cleared,       \*   a window has ended,
  initialised,   \*   diff has been assigned by constructor or Clear,
  outside        \*   an access beyond the allocated elements, or to no entry

OpVars == <<kind, theta, length, elems, saved, diff, diff_key, backup_time, phase,
            store, lives, cleared, initialised, outside>>

\* The classes: what holds the elements, and what the divergence is.  The arrays
\* and the maps of a metric have the same members, written out in each class; the
\* actions below are those members, with the differences as conditions on kind.
NumericArray_L1 == [container |-> "array", metric |-> "l1"]
NumericArray_L2 == [container |-> "array", metric |-> "l2"]
HashMap_L1 == [container |-> "map", metric |-> "l1"]
HashMap_L2 == [container |-> "map", metric |-> "l2"]
HashMap_MAX == [container |-> "map", metric |-> "max"]
HashMap_CNT == [container |-> "map", metric |-> "cnt"]
Set_CNT == [container |-> "set", metric |-> "cnt"]

Kinds == {NumericArray_L1, NumericArray_L2, HashMap_L1, HashMap_L2, HashMap_MAX,
          HashMap_CNT, Set_CNT}

IsArray == kind.container = "array"
IsTotal == kind.metric \in {"l1", "l2"}
IsMax == kind.metric = "max"
IsCount == kind.metric = "cnt"

At(m, x) == IF x \in DOMAIN m THEN m[x] ELSE 0
\* m[x] of a hash map makes an entry.
With(m, x, v) == [y \in DOMAIN m \cup {x} |-> IF y = x THEN v ELSE m[y]]
Touched(m, xs) == [y \in DOMAIN m \cup xs |-> At(m, y)]

abs(n) == IF n < 0 THEN -n ELSE n
sqr(n) == n * n

\* How far an element is from its copy.
Distance(a, b) == IF kind.metric = "l2" THEN sqr(a - b) ELSE abs(a - b)

\* The constructors.  calloc takes `length' elements; the maps of the L1 and
\* L2 kinds leave tot_diff unassigned.
Allocated(n) == IF IsArray THEN [x \in 0 .. n - 1 |-> 0] ELSE <<>>
FirstDiffs == IF kind \in {HashMap_L1, HashMap_L2} THEN Garbage ELSE {0}
Initialised == kind \notin {HashMap_L1, HashMap_L2}

OpStart ==
  /\ kind \in Kinds /\ theta \in Thetas
  /\ length \in Garbage
  /\ elems = Allocated(length) /\ saved = elems
  /\ diff \in FirstDiffs /\ initialised = Initialised
  /\ diff_key = 0 /\ backup_time = 0
  /\ phase = "idle" /\ store = <<>> /\ lives = 1 /\ cleared = FALSE
  /\ outside = FALSE
-----------------------------------------------------------------------------
(* Items.                                                                  *)


\* UpdateValue of the L1 and L2 kinds.
TotalUpdate(x, value) ==
  /\ IsTotal /\ (IsArray => x \in DOMAIN elems)
  /\ diff' = diff - Distance(At(elems, x), At(saved, x)) + Distance(value, At(saved, x))
  /\ elems' = With(elems, x, value)
  /\ saved' = Touched(saved, {x})
  /\ UNCHANGED <<diff_key, outside>>

\* An index beyond what calloc was asked for.
OutsideUpdate(x) ==
  /\ IsArray /\ x \notin DOMAIN elems
  /\ outside' = TRUE
  /\ UNCHANGED <<elems, saved, diff, diff_key>>

\* UpdateValue of HashMap_MAX; counters only grow.
MaxUpdate(x, value) ==
  /\ IsMax /\ value >= At(elems, x)
  /\ elems' = With(elems, x, value)
  /\ saved' = Touched(saved, {x})
  /\ IF value - At(saved, x) > diff
       THEN diff' = value - At(saved, x) /\ diff_key' = x
       ELSE UNCHANGED <<diff, diff_key>>
  /\ UNCHANGED outside

\* UpdateValue of HashMap_CNT.
CountUpdate(x, value) ==
  /\ kind = HashMap_CNT
  /\ elems' = With(elems, x, value)
  /\ UNCHANGED <<saved, diff, diff_key, outside>>

\* Insert of Set_CNT: a member is an entry of value 0.
Insert(x) ==
  /\ kind = Set_CNT
  /\ elems' = With(elems, x, 0)
  /\ UNCHANGED <<saved, diff, diff_key, outside>>

\* GetValue of a hash map: a key that is looked up becomes an entry.
GetValue(x) ==
  /\ kind.container = "map"
  /\ elems' = Touched(elems, {x})
  /\ UNCHANGED <<saved, diff, diff_key, outside>>

\* ProcessData of an application that uses the operator once for an item.
ProcessItem ==
  /\ phase = "idle"
  /\ phase' = "check"
  /\ \E x \in Keys :
       \/ OutsideUpdate(x) \/ Insert(x) \/ GetValue(x)
       \/ \E value \in 0 .. MaxElement :
            TotalUpdate(x, value) \/ MaxUpdate(x, value) \/ CountUpdate(x, value)
  /\ UNCHANGED <<kind, theta, length, backup_time, store, lives, cleared, initialised>>

\* Clear, at the end of a window; backup_time and the server are left alone.
Clear ==
  /\ phase = "idle" /\ backup_time < MaxBackups
  /\ elems' = Allocated(length) /\ saved' = elems'
  /\ diff' = 0 /\ diff_key' = 0 /\ initialised' = TRUE
  /\ cleared' = TRUE
  /\ UNCHANGED <<kind, theta, length, backup_time, phase, store, lives, outside>>
-----------------------------------------------------------------------------
(* The divergence test and the backup.                                     *)

CalculateDivergence ==
  IF IsCount THEN Cardinality(DOMAIN elems) - Cardinality(DOMAIN saved) ELSE diff

\* The thread's turn ends without a backup.
Converged ==
  /\ phase = "check" /\ CalculateDivergence <= theta
  /\ phase' = "idle"
  /\ UNCHANGED <<kind, theta, length, elems, saved, diff, diff_key, backup_time,
                 store, lives, cleared, initialised, outside>>


\* SaveBackup at the server: one slot for each meta.key.
Save(key, entries) ==
  store' = [y \in DOMAIN store \cup {key} |-> IF y = key THEN entries ELSE store[y]]

\* The elements that are furthest from their copies.
Furthest ==
  {x \in DOMAIN elems : \A y \in DOMAIN elems :
     Distance(elems[x], At(saved, x)) >= Distance(elems[y], At(saved, y))}

\* SerializeState of the L1 and L2 kinds: an array yields its first furthest
\* element, a hash map any; with no element, map.begin () is no entry.
SerializeTotal ==
  /\ IsTotal
  /\ \/ \E x \in Furthest :
          /\ IsArray => \A y \in Furthest : x <= y
          /\ Save(x, <<[key |-> x, value |-> elems[x]]>>)
          /\ diff' = diff - Distance(elems[x], At(saved, x))
          /\ saved' = With(Touched(saved, DOMAIN elems), x, elems[x])
          /\ UNCHANGED outside
     \/ /\ Furthest = {} /\ outside' = TRUE /\ UNCHANGED <<diff, saved, store>>
  /\ UNCHANGED <<elems, diff_key, backup_time>>

SerializeMax ==
  /\ IsMax
  /\ Save(diff_key, <<[key |-> diff_key, value |-> At(elems, diff_key)]>>)
  /\ elems' = Touched(elems, {diff_key})
  /\ saved' = With(saved, diff_key, At(elems, diff_key))
  /\ diff' = 0 /\ diff_key' = 0
  /\ UNCHANGED <<backup_time, outside>>

\* SerializeState of the counting kinds: up to Cap entries that were not saved
\* before, in the container's order, under the number of the backup.
SerializeCount ==
  /\ IsCount
  /\ LET unsaved == DOMAIN elems \ DOMAIN saved IN
     \E xs \in SUBSET unsaved : \E order \in [1 .. Cardinality(xs) -> xs] :
       /\ Cardinality(xs) = IF Cardinality(unsaved) < Cap THEN Cardinality(unsaved) ELSE Cap
       /\ {order[i] : i \in DOMAIN order} = xs
       /\ Save(backup_time, [i \in DOMAIN order |-> [key |-> order[i], value |-> elems[order[i]]]])
       /\ saved' = [y \in DOMAIN saved \cup xs |-> IF y \in xs THEN elems[y] ELSE saved[y]]
  /\ backup_time' = backup_time + 1
  /\ UNCHANGED <<elems, diff, diff_key, outside>>

SerializeState ==
  /\ phase = "check" /\ CalculateDivergence > theta
  /\ phase' = "idle"
  /\ SerializeTotal \/ SerializeMax \/ SerializeCount
  /\ UNCHANGED <<kind, theta, length, lives, cleared, initialised>>
-----------------------------------------------------------------------------
(* Crash and recovery.                                                     *)

\* RecoveryState of every item in the order of the server's slots: only the
\* first entry of an item is read.
Restored(m) ==
  LET Slots(x) == {key \in DOMAIN store : store[key][1].key = x}
  IN [x \in DOMAIN m \cup {store[key][1].key : key \in DOMAIN store} |->
        IF Slots(x) = {} THEN m[x] ELSE store[Max(Slots(x))][1].value]

\* The process dies, a new one constructs the operator and recovers it.
CrashAndRecover ==
  /\ lives < MaxLives
  /\ lives' = lives + 1 /\ phase' = "idle"
  /\ \E n \in Garbage :
       /\ length' = n
       /\ elems' = Restored(Allocated(n)) /\ saved' = elems'
       /\ outside' = (outside \/ (IsArray /\ \E key \in DOMAIN store : key >= n))
  /\ diff' \in FirstDiffs /\ initialised' = Initialised
  /\ diff_key' = 0 /\ backup_time' = 0
  /\ UNCHANGED <<kind, theta, store, cleared>>

OpNext == ProcessItem \/ Clear \/ Converged \/ SerializeState \/ CrashAndRecover

OpSpec == OpStart /\ [][OpNext]_OpVars
-----------------------------------------------------------------------------
(* Properties.                                                             *)

Sum(xs, F(_)) == FoldSet(LAMBDA x, total : F(x) + total, 0, xs)

\* What CalculateDivergence stands for: the distances of all elements from
\* their copies, the largest one, or the entries that have no copy.
RealDivergence ==
  LET Gap(x) == Distance(At(elems, x), At(saved, x))
  IN CASE IsTotal -> Sum(DOMAIN elems, Gap)
       [] IsMax -> Max({Gap(x) : x \in DOMAIN elems} \cup {0})
       [] IsCount -> Cardinality(DOMAIN elems \ DOMAIN saved)


=============================================================================
