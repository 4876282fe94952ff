----------------------------- MODULE CloudExport -----------------------------
(***************************************************************************)
(* cloud_export_to_parquet/: a schedule that starts, every hour, a         *)
(* workflow that lists the objects exported some hours ago and writes each *)
(* of them as a Parquet file.  Attempts of activities fail, or succeed     *)
(* without the server hearing of it; a file's name is new in each attempt. *)
(***************************************************************************)
EXTENDS Naturals, Sequences, FiniteSets, Functions

CONSTANTS
  num_delay_hour,
  MaxHours,          \* bound on the time
  MaxObjects,        \* bound on the objects of an hour
  PageSize,          \* how many keys one answer of list_objects_v2 has at most
  maximum_attempts        \* of the retry policy
ExportAssumption ==
  num_delay_hour \in Nat /\ MaxHours \in Nat /\ MaxObjects \in Nat /\ PageSize \in Nat

Hours == 1..(MaxHours - num_delay_hour)

VARIABLES
  objects,           \* the objects exported in each hour, in the order of their keys
  clock,             \* the time in hours
  at,                \* where the open workflow is, "closed" between two of them
  read_time,         \* the hour it reads
  keys,              \* how many keys get_object_keys returned
  key,               \* the one that is transformed
  attempts,          \* attempts of the activity so far
  read,              \* the hours read so far, in order
  landed,            \* how many files there are for each object
  unreported,        \* how often a file was written without the server hearing of it
  done               \* the hours whose workflow has returned
vars == <<objects, clock, at, read_time, keys, key, attempts, read, landed, unreported, done>>
run == <<read_time, keys, key, attempts, read>>

Init ==
  /\ objects \in [Hours -> 0..MaxObjects]
  /\ clock = num_delay_hour
  /\ at = "closed" /\ read_time = 0 /\ keys = 0 /\ key = 0 /\ attempts = 0
  /\ read = <<>>
  /\ landed = [o \in Hours \X (1..MaxObjects) |-> 0]
  /\ unreported = [o \in Hours \X (1..MaxObjects) |-> 0]
  /\ done = {}

\* The schedule has no overlap policy: what is due while a workflow is open is skipped.
Tick ==
  /\ clock < MaxHours /\ clock' = clock + 1
  /\ at' = IF at = "closed" THEN "started" ELSE at
  /\ UNCHANGED <<objects, run, landed, unreported, done>>

\* The run method's first steps.  The time is that of its first task, which may be much
\* later than the time the workflow was due.
FirstTask ==
  /\ at = "started" /\ at' = "get_object_keys"
  /\ read_time' = clock - num_delay_hour /\ read' = Append(read, read_time')
  /\ attempts' = 0 /\ UNCHANGED <<objects, clock, keys, key, landed, unreported, done>>

\* Only the first answer is read.
get_object_keys ==
  /\ at = "get_object_keys" /\ objects[read_time] > 0
  /\ keys' = IF objects[read_time] < PageSize THEN objects[read_time] ELSE PageSize
  /\ key' = 1 /\ attempts' = 0 /\ at' = "data_trans_and_land"
  /\ UNCHANGED <<objects, clock, read_time, read, landed, unreported, done>>

Write ==
  landed' = [landed EXCEPT ![<<read_time, key>>] = @ + 1]
data_trans_and_land ==
  /\ at = "data_trans_and_land" /\ key <= keys
  /\ Write /\ key' = key + 1 /\ attempts' = 0
  /\ UNCHANGED <<objects, clock, at, read_time, keys, read, unreported, done>>

\* An attempt has failed: the next one, or the activity has failed and the workflow too.
RetryOrGoOn ==              \* mutant: the exception is logged and not raised again
  IF attempts + 1 < maximum_attempts THEN attempts' = attempts + 1 /\ UNCHANGED <<at, key>>
  ELSE IF at = "get_object_keys" THEN at' = "closed" /\ UNCHANGED <<attempts, key>>
  ELSE key' = key + 1 /\ attempts' = 0 /\ UNCHANGED at
RetryOrFail ==
  /\ IF attempts + 1 < maximum_attempts THEN attempts' = attempts + 1 /\ UNCHANGED at
     ELSE at' = "closed" /\ UNCHANGED attempts
  /\ UNCHANGED key

\* An attempt fails before it writes; also one that finds no objects.
AttemptFails ==
  /\ at = "get_object_keys" \/ (at = "data_trans_and_land" /\ key <= keys)
  /\ RetryOrFail
  /\ UNCHANGED <<objects, clock, read_time, keys, read, landed, unreported, done>>

\* An attempt writes the file, and is taken for a failed one.
AttemptUnreported ==
  /\ at = "data_trans_and_land" /\ key <= keys
  /\ Write /\ unreported' = [unreported EXCEPT ![<<read_time, key>>] = @ + 1]
  /\ RetryOrFail
  /\ UNCHANGED <<objects, clock, read_time, keys, read, done>>

Return ==
  /\ at = "data_trans_and_land" /\ key > keys
  /\ at' = "closed" /\ done' = done \cup {read_time}
  /\ UNCHANGED <<objects, clock, run, landed, unreported>>

Terminated == clock = MaxHours /\ at = "closed" /\ UNCHANGED vars
Next ==
  \/ Tick \/ FirstTask \/ get_object_keys \/ data_trans_and_land
  \/ AttemptFails \/ AttemptUnreported \/ Return \/ Terminated

Spec == Init /\ [][Next]_vars
-----------------------------------------------------------------------------
\* ProtoToParquet and its schedule: no hour is read by two workflows, however late their
\* first tasks are; when a workflow has returned, every object its hour had, up to one
\* page of them, has its file; and it has a second one only if an attempt that wrote it
\* was retried.
Landed ==
  /\ IsInjective(read)
  /\ \A h \in done : \A k \in 1..objects[h] : k <= PageSize => landed[<<h, k>>] > 0
  /\ \A o \in DOMAIN landed : landed[o] <= 1 + unreported[o]
=============================================================================
