---------------------------- MODULE ServiceProofs ----------------------------
(***************************************************************************)
(* Proofs about the samples of Services: the headers of ContextPropagation,*)
(* the hourly exports of CloudExport, the references of ExternalStorage,   *)
(* the orders of ShoppingCart, each for any number of calls, objects,      *)
(* payloads and requests, the replays of Versioning, for any number of     *)
(* signals, and ClusterManager, about which the proofs are in a module of  *)
(* its own.  Each is proved of the sample alone first, and then, at the    *)
(* end, of Services.                                                       *)
(***************************************************************************)
EXTENDS Services, Integers, FiniteSetTheorems, SequenceTheorems, TLAPS
-----------------------------------------------------------------------------
(* ContextPropagation: the inductive invariant.                            *)

ContextTypes ==
  /\ user_id \in [Context!Tasks \cup {Context!Worker} -> Users \cup {NoUser}]
  /\ headers \in [Context!Tasks -> Users \cup {NoUser}]
  /\ caller \in [Context!Tasks -> Users \cup {NoUser}]
  /\ token \in [Context!Tasks -> {<<>>, <<NoUser>>}]
  /\ task \in [Context!Tasks -> {"none", "queued", "waiting", "executing", "handling",
                                 "running", "done"}]
  /\ logged \in [Context!Tasks -> SUBSET (Users \cup {NoUser})]

Idle(t) == task[t] \in {"none", "queued", "done"}

\* user_id is the user of the header for the time of the handler, and is reset to nobody.
TaskInv ==
  \A t \in Context!Tasks :
    /\ Idle(t) => token[t] = <<>> /\ user_id[t] = NoUser
    /\ ~Idle(t) => user_id[t] = headers[t]
                   /\ token[t] = IF headers[t] = NoUser THEN <<>> ELSE <<NoUser>>

\* The header of a call names its caller, and that of an activity the workflow's; nothing is
\* logged before a task begins.
CallInv ==
  \A w \in Greetings :
    /\ headers[Context!Run(w)] = caller[Context!Run(w)]
    /\ headers[Context!Handler(w)] = caller[Context!Handler(w)]
    /\ task[Context!Activity(w)] # "none" =>
         /\ headers[Context!Activity(w)] = caller[Context!Run(w)]
         /\ task[Context!Run(w)] \in {"executing", "done"}
    /\ task[Context!Activity(w)] = "none" => logged[Context!Activity(w)] = {}
    /\ \A t \in {Context!Run(w), Context!Handler(w)} :
         /\ logged[t] \subseteq {caller[t]}
         /\ task[t] \in {"none", "queued"} => logged[t] = {}
    /\ logged[Context!Activity(w)] \subseteq {caller[Context!Run(w)]}

ContextInv == ContextTypes /\ TaskInv /\ CallInv
-----------------------------------------------------------------------------
(* ContextPropagation: the steps.                                          *)

\* A workflow, its handler and its activity are three tasks, and those of two workflows six.
LEMMA TaskNames ==
  /\ \A w \in Greetings : /\ Context!Run(w) \in Context!Tasks
                          /\ Context!Handler(w) \in Context!Tasks
                          /\ Context!Activity(w) \in Context!Tasks
  /\ \A v, w : /\ Context!Run(v) # Context!Handler(w)
               /\ Context!Run(v) # Context!Activity(w)
               /\ Context!Handler(v) # Context!Activity(w)
               /\ Context!Run(v) = Context!Run(w) => v = w
               /\ Context!Handler(v) = Context!Handler(w) => v = w
               /\ Context!Activity(v) = Context!Activity(w) => v = w
  BY DEF Context!Run, Context!Handler, Context!Activity, Context!Tasks

\* Nobody has called.
LEMMA ContextInit == Context!Init => ContextInv
<1> SUFFICES ASSUME Context!Init PROVE ContextInv
  OBVIOUS
<1>1. ContextTypes /\ TaskInv
  BY DEF Context!Init, ContextTypes, TaskInv, Idle
<1>2. CallInv
  BY TaskNames DEF Context!Init, CallInv
<1> QED
  BY <1>1, <1>2 DEF ContextInv

\* Somebody starts or signals a workflow: task t is queued for user u.
LEMMA CallStep ==
  ASSUME ContextInv, NEW t \in Context!Tasks, NEW u \in Users \cup {NoUser},
         task[t] = "none",
         task' = [task EXCEPT ![t] = "queued"],
         headers' = [headers EXCEPT ![t] = u], caller' = [caller EXCEPT ![t] = u],
         UNCHANGED <<user_id, token, logged>>,
         NEW w \in Greetings, t \in {Context!Run(w), Context!Handler(w)}
  PROVE  ContextInv'
<1>1. ContextTypes'
  BY DEF ContextInv, ContextTypes
<1>2. TaskInv'
  BY DEF ContextInv, ContextTypes, TaskInv, Idle
<1>3. CallInv'
  <2> SUFFICES ASSUME NEW v \in Greetings
               PROVE  /\ headers'[Context!Run(v)] = caller'[Context!Run(v)]
                      /\ headers'[Context!Handler(v)] = caller'[Context!Handler(v)]
                      /\ task'[Context!Activity(v)] # "none" =>
                           /\ headers'[Context!Activity(v)] = caller'[Context!Run(v)]
                           /\ task'[Context!Run(v)] \in {"executing", "done"}
                      /\ task'[Context!Activity(v)] = "none" => logged[Context!Activity(v)] = {}
                      /\ \A s \in {Context!Run(v), Context!Handler(v)} :
                           /\ logged[s] \subseteq {caller'[s]}
                           /\ task'[s] \in {"none", "queued"} => logged[s] = {}
                      /\ logged[Context!Activity(v)] \subseteq {caller'[Context!Run(v)]}
    BY DEF CallInv
  <2>1. CASE t = Context!Run(v)
    BY <2>1, TaskNames DEF ContextInv, ContextTypes, CallInv
  <2>2. CASE t = Context!Handler(v)
    BY <2>2, TaskNames DEF ContextInv, ContextTypes, CallInv
  <2>3. CASE t # Context!Run(v) /\ t # Context!Handler(v)
    BY <2>3, TaskNames DEF ContextInv, ContextTypes, CallInv
  <2> QED
    BY <2>1, <2>2, <2>3
<1> QED
  BY <1>1, <1>2, <1>3 DEF ContextInv

\* A handler begins: user_id becomes the user of the header, and is logged.
LEMMA EnterStep ==
  ASSUME ContextInv, NEW t \in Context!Tasks, NEW s \in {"waiting", "handling", "running"},
         task[t] = "queued", task' = [task EXCEPT ![t] = s],
         Context!Enter(t), Context!Log(t, Context!UserNow(t)),
         UNCHANGED <<headers, caller>>
  PROVE  /\ ContextTypes' /\ TaskInv'
         /\ logged' = [logged EXCEPT ![t] = @ \cup {headers[t]}]
<1> USE DEF ContextInv, Context!Context
<1>1. token[t] = <<>> /\ user_id[t] = NoUser
  BY DEF TaskInv, Idle
<1>2. /\ user_id' = [user_id EXCEPT ![t] = headers[t]]
      /\ token' = [token EXCEPT ![t] = IF headers[t] = NoUser THEN <<>> ELSE <<NoUser>>]
  BY <1>1 DEF Context!Enter, ContextTypes
<1>3. user_id'[t] = headers[t]
  BY <1>2 DEF ContextTypes
<1>4. logged' = [logged EXCEPT ![t] = @ \cup {headers[t]}]
  BY <1>3 DEF Context!Log, Context!UserNow
<1>5. ContextTypes'
  BY <1>2, <1>4 DEF ContextTypes
<1>6. TaskInv'
  BY <1>2 DEF ContextTypes, TaskInv, Idle
<1> QED
  BY <1>4, <1>5, <1>6

\* A handler ends: user_id is nobody's again.
LEMMA LeaveStep ==
  ASSUME ContextInv, NEW t \in Context!Tasks, NEW s \in {"done", "queued"},
         ~Idle(t), task' = [task EXCEPT ![t] = s],
         Context!Leave(t),
         UNCHANGED <<headers, caller, logged>>
  PROVE  ContextTypes' /\ TaskInv'
<1> USE DEF ContextInv, Context!Context
<1>1. user_id[t] = headers[t] /\ token[t] = IF headers[t] = NoUser THEN <<>> ELSE <<NoUser>>
  BY DEF TaskInv
<1>2. /\ user_id' = [user_id EXCEPT ![t] = NoUser]
      /\ token' = [token EXCEPT ![t] = <<>>]
  BY <1>1 DEF Context!Leave, ContextTypes
<1>3. ContextTypes'
  BY <1>2 DEF ContextTypes
<1>4. TaskInv'
  BY <1>2 DEF ContextTypes, TaskInv, Idle
<1> QED
  BY <1>3, <1>4

\* The workflow, its handler and the activity begin.
LEMMA BeginTask ==
  ASSUME ContextInv, NEW w \in Greetings,
         Context!execute_workflow(w) \/ Context!handle_signal(w) \/ Context!execute_activity(w)
  PROVE  ContextInv'
<1> USE DEF ContextInv
<1>1. PICK t \in {Context!Run(w), Context!Handler(w), Context!Activity(w)},
           s \in {"waiting", "handling", "running"} :
        /\ task[t] = "queued" /\ task' = [task EXCEPT ![t] = s]
        /\ Context!Enter(t) /\ Context!Log(t, Context!UserNow(t))
        /\ UNCHANGED <<headers, caller>>
  BY DEF Context!execute_workflow, Context!handle_signal, Context!execute_activity, Context!Become
<1>2. t \in Context!Tasks
  BY TaskNames
<1>3. ContextTypes' /\ TaskInv' /\ logged' = [logged EXCEPT ![t] = @ \cup {headers[t]}]
  BY <1>1, <1>2, EnterStep
<1>4. CallInv'
  <2> SUFFICES ASSUME NEW v \in Greetings
               PROVE  /\ headers[Context!Run(v)] = caller[Context!Run(v)]
                      /\ headers[Context!Handler(v)] = caller[Context!Handler(v)]
                      /\ task'[Context!Activity(v)] # "none" =>
                           /\ headers[Context!Activity(v)] = caller[Context!Run(v)]
                           /\ task'[Context!Run(v)] \in {"executing", "done"}
                      /\ task'[Context!Activity(v)] = "none" => logged'[Context!Activity(v)] = {}
                      /\ \A r \in {Context!Run(v), Context!Handler(v)} :
                           /\ logged'[r] \subseteq {caller[r]}
                           /\ task'[r] \in {"none", "queued"} => logged'[r] = {}
                      /\ logged'[Context!Activity(v)] \subseteq {caller[Context!Run(v)]}
    BY <1>1 DEF CallInv
  <2>1. CASE t \notin {Context!Run(v), Context!Handler(v), Context!Activity(v)}
    BY <1>1, <1>3, <2>1, TaskNames DEF ContextTypes, CallInv
  <2>2. CASE t = Context!Run(v)
    <3>1. task[Context!Activity(v)] = "none"
      BY <1>1, <2>2 DEF CallInv
    <3> QED
      BY <1>1, <1>3, <2>2, <3>1, TaskNames DEF ContextTypes, CallInv
  <2>3. CASE t = Context!Handler(v)
    BY <1>1, <1>3, <2>3, TaskNames DEF ContextTypes, CallInv
  <2>4. CASE t = Context!Activity(v)
    BY <1>1, <1>3, <2>4, TaskNames DEF ContextTypes, CallInv
  <2> QED
    BY <2>1, <2>2, <2>3, <2>4
<1> QED
  BY <1>3, <1>4

\* They end, the activity perhaps to be tried again.
LEMMA EndTask ==
  ASSUME ContextInv, NEW w \in Greetings,
         Context!SignalHandled(w) \/ Context!ActivityEnds(w) \/ Context!Return(w)
  PROVE  ContextInv'
<1> USE DEF ContextInv
<1>1. PICK t \in {Context!Run(w), Context!Handler(w), Context!Activity(w)}, s \in {"done", "queued"} :
        /\ task[t] \in {"handling", "running", "executing"} /\ task' = [task EXCEPT ![t] = s]
        /\ t # Context!Activity(w) => s = "done"
        /\ Context!Leave(t)
        /\ UNCHANGED <<headers, caller, logged>>
  BY DEF Context!SignalHandled, Context!ActivityEnds, Context!Return, Context!Become
<1>2. t \in Context!Tasks /\ ~Idle(t)
  BY <1>1, TaskNames DEF Idle
<1>3. ContextTypes' /\ TaskInv'
  BY <1>1, <1>2, LeaveStep
<1>4. ASSUME NEW v \in Greetings
      PROVE  /\ task'[Context!Activity(v)] # "none" =>
                  task[Context!Activity(v)] # "none" /\ task'[Context!Run(v)] \in {"executing", "done"}
             /\ task'[Context!Activity(v)] = "none" => task[Context!Activity(v)] = "none"
             /\ \A r \in {Context!Run(v), Context!Handler(v)} :
                  task'[r] \in {"none", "queued"} => task[r] \in {"none", "queued"}
  <2>1. CASE t = Context!Activity(v)
    BY <1>1, <1>2, <2>1, TaskNames DEF ContextTypes, CallInv
  <2>2. CASE t # Context!Activity(v)
    <3>1. t \in {Context!Run(v), Context!Handler(v)} => s = "done"
      BY <1>1, <2>2, TaskNames
    <3> QED
      BY <1>1, <1>2, <2>2, <3>1, TaskNames DEF ContextTypes, CallInv
  <2> QED
    BY <2>1, <2>2
<1>5. CallInv'
  BY <1>1, <1>4 DEF CallInv
<1> QED
  BY <1>3, <1>5

\* The workflow starts the activity, for its own user, whoever has signalled it.
LEMMA StartActivity ==
  ASSUME ContextInv, NEW w \in Greetings, Context!start_activity(w)
  PROVE  ContextInv'
<1> USE DEF ContextInv
<1> DEFINE r == Context!Run(w)
           a == Context!Activity(w)
<1>1. /\ task[r] = "waiting" /\ task' = [task EXCEPT ![r] = "executing", ![a] = "queued"]
      /\ headers' = [headers EXCEPT ![a] = user_id[r]]
      /\ UNCHANGED <<user_id, token, caller, logged>>
  BY DEF Context!start_activity, Context!set_header_from_context, Context!Context
<1>2. r \in Context!Tasks /\ a \in Context!Tasks /\ r # a
  BY TaskNames
<1>3. user_id[r] = caller[r] /\ task[a] = "none" /\ user_id[r] \in Users \cup {NoUser}
  BY <1>1, <1>2 DEF TaskInv, CallInv, Idle, ContextTypes
<1>4. ContextTypes'
  BY <1>1, <1>2, <1>3 DEF ContextTypes
<1>5. TaskInv'
  BY <1>1, <1>2, <1>3 DEF ContextTypes, TaskInv, Idle
<1>6. CallInv'
  <2> SUFFICES ASSUME NEW v \in Greetings
               PROVE  /\ headers'[Context!Run(v)] = caller[Context!Run(v)]
                      /\ headers'[Context!Handler(v)] = caller[Context!Handler(v)]
                      /\ task'[Context!Activity(v)] # "none" =>
                           /\ headers'[Context!Activity(v)] = caller[Context!Run(v)]
                           /\ task'[Context!Run(v)] \in {"executing", "done"}
                      /\ task'[Context!Activity(v)] = "none" => logged[Context!Activity(v)] = {}
                      /\ \A t \in {Context!Run(v), Context!Handler(v)} :
                           /\ logged[t] \subseteq {caller[t]}
                           /\ task'[t] \in {"none", "queued"} => logged[t] = {}
                      /\ logged[Context!Activity(v)] \subseteq {caller[Context!Run(v)]}
    BY <1>1 DEF CallInv
  <2>1. CASE v = w
    BY <1>1, <1>2, <1>3, <2>1, TaskNames DEF ContextTypes, CallInv
  <2>2. CASE v # w
    BY <1>1, <1>2, <2>2, TaskNames DEF ContextTypes, CallInv
  <2> QED
    BY <2>1, <2>2
<1> QED
  BY <1>4, <1>5, <1>6

\* Every step preserves the inductive invariant.
LEMMA ContextStep == ContextInv /\ [Context!Next]_Context!vars => ContextInv'
<1> SUFFICES ASSUME ContextInv, [Context!Next]_Context!vars PROVE ContextInv'
  OBVIOUS
<1>1. ASSUME NEW w \in Greetings, NEW u \in Users \cup {NoUser},
             Context!start_workflow(u, w) \/ Context!signal_workflow(u, w)
      PROVE  ContextInv'
  <2>1. PICK t \in {Context!Run(w), Context!Handler(w)} :
          /\ task[t] = "none" /\ task' = [task EXCEPT ![t] = "queued"]
          /\ headers' = [headers EXCEPT ![t] = u] /\ caller' = [caller EXCEPT ![t] = u]
          /\ UNCHANGED <<user_id, token, logged>>
    BY <1>1 DEF Context!start_workflow, Context!signal_workflow, Context!Become,
                Context!set_header_from_context
  <2>2. t \in Context!Tasks
    BY TaskNames
  <2> QED
    BY <2>1, <2>2, CallStep
<1>2. CASE UNCHANGED Context!vars
  BY <1>2 DEF Context!vars, ContextInv, ContextTypes, TaskInv, CallInv, Idle
<1> QED
  BY <1>1, <1>2, BeginTask, EndTask, StartActivity DEF Context!Next, Context!Terminated
-----------------------------------------------------------------------------
\* ContextPropagation: the inductive invariant holds in every reachable state.
THEOREM ContextInvariant == Context!Spec => []ContextInv
  BY ContextInit, ContextStep, PTL DEF Context!Spec

\* The interceptors: whatever runs side by side on a worker, and however often an activity is
\* tried, everything is done and logged as the user of the call it belongs to, and no task
\* leaves its user behind.
LEMMA ContextAlone == Context!Spec => []Context!UserOfCall
<1>1. ContextInv => Context!UserOfCall
  <2> SUFFICES ASSUME ContextInv, NEW w \in Greetings
               PROVE  /\ logged[Context!Run(w)] \subseteq {caller[Context!Run(w)]}
                      /\ logged[Context!Handler(w)] \subseteq {caller[Context!Handler(w)]}
                      /\ logged[Context!Activity(w)] \subseteq {caller[Context!Run(w)]}
                      /\ \A t \in {Context!Run(w), Context!Handler(w), Context!Activity(w)} :
                           task[t] = "done" => user_id[t] = NoUser
    BY DEF Context!UserOfCall, Context!Context
  <2>1. \A t \in {Context!Run(w), Context!Handler(w), Context!Activity(w)} :
          t \in Context!Tasks
    BY TaskNames
  <2> QED
    BY <2>1 DEF ContextInv, CallInv, TaskInv, Idle
<1> QED
  BY <1>1, ContextInvariant, PTL
-----------------------------------------------------------------------------
(* CloudExport: the inductive invariant.                                   *)

Objects == Export!Hours \X (1..MaxObjects)

ExportTypes ==
  /\ objects \in [Export!Hours -> 0..MaxObjects]
  /\ clock \in Nat /\ (clock = num_delay_hour \/ clock \in num_delay_hour..MaxHours)
  /\ at \in {"closed", "started", "get_object_keys", "data_trans_and_land"}
  /\ read \in Seq(Nat)
  /\ landed \in [Objects -> Nat] /\ unreported \in [Objects -> Nat]
  /\ done \subseteq Export!Hours

Unread(h) == \A i \in 1..Len(read) : read[i] # h

\* The hours are read in order, and the one that is due has not been read.
ReadInv ==
  /\ \A i, k \in 1..Len(read) : i < k => read[i] < read[k]
  /\ \A i \in 1..Len(read) : read[i] + num_delay_hour <= clock
  /\ at = "started" => clock > num_delay_hour /\ Unread(clock - num_delay_hour)
  /\ at \in {"get_object_keys", "data_trans_and_land"} =>
       read_time \in Export!Hours /\ ~Unread(read_time)

\* The keys before the current one have their files.
KeysInv ==
  at = "data_trans_and_land" =>
    /\ keys = IF objects[read_time] < PageSize THEN objects[read_time] ELSE PageSize
    /\ key \in 1..keys + 1
    /\ \A k \in 1..key - 1 : landed[<<read_time, k>>] > 0

DoneInv == \A h \in done : \A k \in 1..objects[h] : k <= PageSize => landed[<<h, k>>] > 0

\* An object that the open workflow has still to write, or none has yet read.
Awaited(h, k) ==
  \/ Unread(h)
  \/ h = read_time /\ (at = "get_object_keys" \/ (at = "data_trans_and_land" /\ k >= key))

\* An object that is awaited has only files that were not reported, any other one more.
LandedInv ==
  \A h \in Export!Hours, k \in 1..MaxObjects :
    /\ landed[<<h, k>>] = unreported[<<h, k>>] \/ landed[<<h, k>>] = unreported[<<h, k>>] + 1
    /\ Awaited(h, k) => landed[<<h, k>>] = unreported[<<h, k>>]

ExportInv == ExportTypes /\ ReadInv /\ KeysInv /\ DoneInv /\ LandedInv
-----------------------------------------------------------------------------
(* CloudExport: the steps.                                                 *)

\* One more for one of them.
LEMMA OneMore ==
  ASSUME NEW S, NEW f \in [S -> Nat], NEW o \in S
  PROVE  /\ [f EXCEPT ![o] = @ + 1] \in [S -> Nat]
         /\ \A p \in S : [f EXCEPT ![o] = @ + 1][p] >= f[p]
  OBVIOUS

\* A later hour at the end of those that were read.
LEMMA HourAppended ==
  ASSUME NEW s \in Seq(Nat), NEW h \in Nat,
         \A i, k \in 1..Len(s) : i < k => s[i] < s[k],
         \A i \in 1..Len(s) : s[i] <= h /\ s[i] # h
  PROVE  /\ Append(s, h) \in Seq(Nat)
         /\ \A i, k \in 1..Len(Append(s, h)) : i < k => Append(s, h)[i] < Append(s, h)[k]
         /\ \A i \in 1..Len(Append(s, h)) : Append(s, h)[i] <= h
         /\ \E i \in 1..Len(Append(s, h)) : Append(s, h)[i] = h
         /\ \A i \in 1..Len(s) : i \in 1..Len(Append(s, h)) /\ Append(s, h)[i] = s[i]
<1>1. /\ Append(s, h) \in Seq(Nat) /\ Len(Append(s, h)) = Len(s) + 1 /\ Len(s) \in Nat
      /\ \A i \in 1..Len(s) : Append(s, h)[i] = s[i] /\ s[i] \in Nat /\ s[i] < h
      /\ Append(s, h)[Len(s) + 1] = h
  OBVIOUS
<1> DEFINE u == Append(s, h)
<1> HIDE DEF u
<1>2. \A i \in 1..Len(u) : i \in 1..Len(s) \/ i = Len(s) + 1
  BY <1>1 DEF u
<1>3. ASSUME NEW i \in 1..Len(u), NEW k \in 1..Len(u), i < k PROVE u[i] < u[k]
  <2>1. i \in 1..Len(s)
    BY <1>1, <1>2, <1>3 DEF u
  <2>2. CASE k \in 1..Len(s)
    BY <1>1, <1>3, <2>1, <2>2 DEF u
  <2>3. CASE k = Len(s) + 1
    BY <1>1, <2>1, <2>3 DEF u
  <2> QED
    BY <1>2, <2>2, <2>3
<1>4. \A i \in 1..Len(u) : u[i] <= h
  BY <1>1, <1>2 DEF u
<1>5. Len(s) + 1 \in 1..Len(u)
  BY <1>1 DEF u
<1> QED
  BY <1>1, <1>3, <1>4, <1>5 DEF u

\* Nothing has been read.
LEMMA ExportInit == Export!ExportAssumption /\ Export!Init => ExportInv
<1> SUFFICES ASSUME Export!ExportAssumption, Export!Init PROVE ExportInv
  OBVIOUS
<1> USE DEF Export!Init, Export!ExportAssumption
<1>1. ExportTypes
  BY DEF ExportTypes, Objects
<1>2. ReadInv /\ KeysInv /\ DoneInv
  BY DEF ReadInv, KeysInv, DoneInv, Unread
<1>3. LandedInv
  BY DEF LandedInv
<1> QED
  BY <1>1, <1>2, <1>3 DEF ExportInv

\* An hour passes.
LEMMA TickInv ==
  ASSUME Export!ExportAssumption, ExportInv, Export!Tick
  PROVE  ExportInv'
<1> USE DEF ExportInv, Export!ExportAssumption
<1>1. /\ clock' = clock + 1 /\ clock < MaxHours /\ at' = IF at = "closed" THEN "started" ELSE at
      /\ UNCHANGED <<objects, read_time, keys, key, read, landed, unreported, done>>
  BY DEF Export!Tick, Export!run
<1>2. ExportTypes'
  BY <1>1 DEF ExportTypes
<1>3. clock' - num_delay_hour \in Nat /\ clock' > num_delay_hour
  BY <1>1 DEF ExportTypes
<1>4. \A i \in 1..Len(read) : read[i] \in Nat /\ read[i] + num_delay_hour <= clock
  BY DEF ExportTypes, ReadInv
<1>5. Unread(clock' - num_delay_hour)
  BY <1>1, <1>3, <1>4 DEF Unread, ExportTypes
<1>6. ReadInv'
  BY <1>1, <1>3, <1>4, <1>5 DEF ReadInv, Unread, ExportTypes
<1>7. KeysInv' /\ DoneInv'
  BY <1>1 DEF KeysInv, DoneInv
<1>8. \A h, k : Awaited(h, k)' => Awaited(h, k)
  BY <1>1 DEF Awaited, Unread
<1>9. LandedInv'
  BY <1>1, <1>8 DEF LandedInv
<1> QED
  BY <1>2, <1>6, <1>7, <1>9

\* The workflow begins, and reads an hour that none has read before.
LEMMA FirstTaskInv ==
  ASSUME Export!ExportAssumption, ExportInv, Export!FirstTask
  PROVE  ExportInv'
<1> USE DEF ExportInv, Export!ExportAssumption
<1> DEFINE h == clock - num_delay_hour
<1>1. /\ at = "started" /\ at' = "get_object_keys" /\ read_time' = h /\ read' = Append(read, h)
      /\ UNCHANGED <<objects, clock, landed, unreported, done>>
  BY DEF Export!FirstTask
<1>2. h \in Nat /\ h \in Export!Hours /\ Unread(h)
  BY <1>1 DEF ReadInv, ExportTypes, Export!Hours
<1>3. /\ read \in Seq(Nat)
      /\ \A i, k \in 1..Len(read) : i < k => read[i] < read[k]
      /\ \A i \in 1..Len(read) : read[i] <= h /\ read[i] # h
  <2>1. \A i \in 1..Len(read) : read[i] \in Nat /\ read[i] + num_delay_hour <= clock /\ read[i] # h
    BY <1>2 DEF ReadInv, ExportTypes, Unread
  <2> QED
    BY <2>1 DEF ReadInv, ExportTypes
<1>4. /\ read' \in Seq(Nat)
      /\ \A i, k \in 1..Len(read') : i < k => read'[i] < read'[k]
      /\ \A i \in 1..Len(read') : read'[i] <= h
      /\ \E i \in 1..Len(read') : read'[i] = h
      /\ \A i \in 1..Len(read) : i \in 1..Len(read') /\ read'[i] = read[i]
  <2> HIDE DEF h
  <2> QED
    BY <1>1, <1>2, <1>3, HourAppended
<1>5. ExportTypes'
  BY <1>1, <1>4 DEF ExportTypes
<1>6. ReadInv'
  <2>1. \A i \in 1..Len(read') : read'[i] + num_delay_hour <= clock
    BY <1>2, <1>4 DEF ExportTypes
  <2>2. ~Unread(h)'
    BY <1>1, <1>4 DEF Unread
  <2> QED
    BY <1>1, <1>2, <1>4, <2>1, <2>2 DEF ReadInv
<1>7. KeysInv' /\ DoneInv'
  BY <1>1 DEF KeysInv, DoneInv
<1>8. \A g \in Export!Hours, k \in 1..MaxObjects : Awaited(g, k)' => Awaited(g, k)
  <2>1. \A g : Unread(g)' => Unread(g)
    BY <1>4 DEF Unread
  <2> QED
    BY <1>1, <1>2, <2>1 DEF Awaited
<1>9. LandedInv'
  BY <1>1, <1>8 DEF LandedInv
<1> QED
  BY <1>5, <1>6, <1>7, <1>9

\* The workflow learns the keys, or fails, or returns: nothing is written.
LEMMA NothingWritten ==
  ASSUME Export!ExportAssumption, ExportInv,
         Export!get_object_keys \/ Export!AttemptFails \/ Export!Return
  PROVE  ExportInv'
<1> USE DEF ExportInv, Export!ExportAssumption
<1>1. /\ UNCHANGED <<objects, clock, read_time, read, landed, unreported>>
      /\ at' \in {at, "closed", "data_trans_and_land"} /\ at \in {"get_object_keys", "data_trans_and_land"}
      /\ at' = "data_trans_and_land" =>
           \/ at = at' /\ UNCHANGED <<keys, key>>
           \/ /\ key' = 1 /\ keys' = IF objects[read_time] < PageSize THEN objects[read_time] ELSE PageSize
              /\ at = "get_object_keys"
      /\ done' = done \/ /\ done' = done \cup {read_time} /\ at = "data_trans_and_land" /\ key > keys
                         /\ at' = "closed"
  BY DEF Export!get_object_keys, Export!AttemptFails, Export!RetryOrFail, Export!Return, Export!run
<1>2. read_time \in Export!Hours /\ objects[read_time] \in 0..MaxObjects
  BY <1>1 DEF ReadInv, ExportTypes
<1>3. ExportTypes'
  BY <1>1, <1>2 DEF ExportTypes
<1>4. ReadInv'
  BY <1>1, <1>2 DEF ReadInv, Unread
<1>5. KeysInv'
  BY <1>1, <1>2 DEF KeysInv
<1>6. DoneInv'
  <2>1. CASE done' = done
    BY <1>1, <2>1 DEF DoneInv
  <2>2. CASE done' = done \cup {read_time} /\ at = "data_trans_and_land" /\ key > keys
    <3>1. ASSUME NEW k \in 1..objects[read_time], k <= PageSize PROVE landed[<<read_time, k>>] > 0
      <4>1. keys \in Nat /\ k <= keys /\ k \in 1..key - 1
        BY <1>2, <2>2, <3>1 DEF KeysInv
      <4> QED
        BY <2>2, <4>1 DEF KeysInv
    <3> QED
      BY <1>1, <2>2, <3>1 DEF DoneInv
  <2> QED
    BY <1>1, <2>1, <2>2
<1>7. \A h \in Export!Hours, k \in 1..MaxObjects : Awaited(h, k)' => Awaited(h, k)
  BY <1>1 DEF Awaited, Unread
<1>8. LandedInv'
  BY <1>1, <1>7 DEF LandedInv
<1> QED
  BY <1>3, <1>4, <1>5, <1>6, <1>8

\* A file is written for the current key, and reported or not.
LEMMA FileWritten ==
  ASSUME Export!ExportAssumption, ExportInv,
         Export!data_trans_and_land \/ Export!AttemptUnreported
  PROVE  ExportInv'
<1> USE DEF ExportInv, Export!ExportAssumption
<1> DEFINE o == <<read_time, key>>
<1>1. /\ UNCHANGED <<objects, clock, read_time, read, keys, done>>
      /\ at = "data_trans_and_land" /\ key <= keys /\ at' \in {"closed", "data_trans_and_land"}
      /\ landed' = [landed EXCEPT ![o] = @ + 1]
      /\ \/ key' = key + 1 /\ unreported' = unreported /\ at' = at
         \/ key' = key /\ unreported' = [unreported EXCEPT ![o] = @ + 1]
  BY DEF Export!data_trans_and_land, Export!AttemptUnreported, Export!RetryOrFail, Export!Write
<1>2. /\ read_time \in Export!Hours /\ objects[read_time] \in 0..MaxObjects
      /\ keys \in 0..MaxObjects /\ key \in 1..keys /\ key \in 1..MaxObjects
  BY <1>1 DEF ReadInv, KeysInv, ExportTypes
<1>3. o \in Objects
  BY <1>2 DEF Objects
<1> HIDE DEF o
<1>4. landed' \in [Objects -> Nat] /\ \A p \in Objects : landed'[p] >= landed[p] /\ landed[p] \in Nat
  <2>1. landed \in [Objects -> Nat]
    BY DEF ExportTypes
  <2>2. landed' = [landed EXCEPT ![o] = @ + 1]
    BY <1>1
  <2> QED
    BY <1>3, <2>1, <2>2, OneMore
<1>5. unreported' \in [Objects -> Nat]
  <2>1. unreported \in [Objects -> Nat]
    BY DEF ExportTypes
  <2>2. unreported' = unreported \/ unreported' = [unreported EXCEPT ![o] = @ + 1]
    BY <1>1
  <2> QED
    BY <1>3, <2>1, <2>2, OneMore
<1> USE DEF o
<1>6. ExportTypes'
  BY <1>1, <1>4, <1>5 DEF ExportTypes
<1>7. ReadInv'
  BY <1>1 DEF ReadInv, Unread
<1>8. KeysInv'
  <2>1. ASSUME NEW k \in 1..key' - 1 PROVE landed'[<<read_time, k>>] > 0
    <3>1. k \in 1..MaxObjects /\ <<read_time, k>> \in Objects
      BY <1>1, <1>2 DEF Objects
    <3>2. CASE k = key
      BY <1>1, <1>3, <3>2 DEF ExportTypes
    <3>3. CASE k # key
      <4>1. k \in 1..key - 1
        BY <1>1, <1>2, <3>3
      <4>2. landed[<<read_time, k>>] > 0
        BY <1>1, <4>1 DEF KeysInv
      <4> QED
        BY <1>4, <3>1, <4>2
    <3> QED
      BY <3>2, <3>3
  <2> QED
    BY <1>1, <1>2, <2>1 DEF KeysInv
<1>9. DoneInv'
  <2> SUFFICES ASSUME NEW h \in done, NEW k \in 1..objects[h], k <= PageSize
               PROVE  landed'[<<h, k>>] > 0
    BY <1>1 DEF DoneInv
  <2>1. <<h, k>> \in Objects
    BY DEF Objects, ExportTypes
  <2>2. landed[<<h, k>>] > 0
    BY DEF DoneInv
  <2> QED
    BY <1>4, <2>1, <2>2
<1>10. LandedInv'
  <2> SUFFICES ASSUME NEW h \in Export!Hours, NEW k \in 1..MaxObjects
               PROVE  /\ \/ landed'[<<h, k>>] = unreported'[<<h, k>>]
                         \/ landed'[<<h, k>>] = unreported'[<<h, k>>] + 1
                      /\ Awaited(h, k)' => landed'[<<h, k>>] = unreported'[<<h, k>>]
    BY DEF LandedInv
  <2>1. <<h, k>> \in Objects /\ landed[<<h, k>>] \in Nat /\ unreported[<<h, k>>] \in Nat
    BY DEF Objects, ExportTypes
  <2>2. CASE <<h, k>> # o
    <3>1. landed'[<<h, k>>] = landed[<<h, k>>] /\ unreported'[<<h, k>>] = unreported[<<h, k>>]
      BY <1>1, <2>1, <2>2 DEF ExportTypes
    <3>2. Awaited(h, k)' => Awaited(h, k)
      BY <1>1, <1>2 DEF Awaited, Unread
    <3> QED
      BY <3>1, <3>2 DEF LandedInv
  <2>3. CASE <<h, k>> = o
    <3>1. h = read_time /\ k = key /\ landed[o] = unreported[o]
      BY <1>1, <1>2, <2>3 DEF LandedInv, Awaited
    <3>2. ~Unread(read_time)
      BY <1>1 DEF ReadInv
    <3> QED
      BY <1>1, <1>2, <1>3, <2>1, <2>3, <3>1, <3>2 DEF Awaited, Unread, ExportTypes
  <2> QED
    BY <2>2, <2>3
<1> QED
  BY <1>6, <1>7, <1>8, <1>9, <1>10

\* Every step preserves the inductive invariant.
LEMMA ExportStep ==
  Export!ExportAssumption /\ ExportInv /\ [Export!Next]_Export!vars => ExportInv'
<1> SUFFICES ASSUME Export!ExportAssumption, ExportInv, [Export!Next]_Export!vars PROVE ExportInv'
  OBVIOUS
<1>1. CASE UNCHANGED Export!vars
  BY <1>1 DEF Export!vars, ExportInv, ExportTypes, ReadInv, KeysInv, DoneInv, LandedInv, Awaited,
              Unread
<1> QED
  BY <1>1, TickInv, FirstTaskInv, NothingWritten, FileWritten DEF Export!Next, Export!Terminated
-----------------------------------------------------------------------------
\* CloudExport: the inductive invariant holds in every reachable state.
THEOREM ExportInvariant ==
  ASSUME Export!ExportAssumption PROVE Export!Spec => []ExportInv
  BY ExportInit, ExportStep, PTL DEF Export!Spec

\* ProtoToParquet: however late its runs are, and however their attempts fail, each hour is
\* read at most once, a run that has returned has written all the objects of its page, and a
\* file is written again only after an attempt that was not reported.
LEMMA ExportAlone ==
  ASSUME Export!ExportAssumption PROVE Export!Spec => []Export!Landed
<1>1. ExportInv => Export!Landed
  <2> SUFFICES ASSUME ExportInv PROVE Export!Landed
    OBVIOUS
  <2> USE DEF ExportInv
  <2>1. Export!IsInjective(read)
    <3>1. DOMAIN read = 1..Len(read) /\ \A i \in 1..Len(read) : read[i] \in Nat
      BY DEF ExportTypes
    <3> QED
      BY <3>1 DEF ReadInv, Export!IsInjective
  <2>2. \A o \in DOMAIN landed : landed[o] <= 1 + unreported[o]
    <3> SUFFICES ASSUME NEW o \in Objects PROVE landed[o] <= 1 + unreported[o]
      BY DEF ExportTypes
    <3>1. PICK h \in Export!Hours, k \in 1..MaxObjects : o = <<h, k>>
      BY DEF Objects
    <3>2. landed[o] \in Nat /\ unreported[o] \in Nat
      BY DEF ExportTypes
    <3> QED
      BY <3>1, <3>2 DEF LandedInv
  <2> QED
    BY <2>1, <2>2 DEF DoneInv, Export!Landed
<1> QED
  BY <1>1, ExportInvariant, PTL
-----------------------------------------------------------------------------
(* ExternalStorage: the inductive invariant.                               *)

\* What the codec makes of a payload, before and after it is stored.
Encoded(p) == IF prestorage_codec THEN Storage!Gzip(p) ELSE p
Outer(p) == IF poststorage_codec THEN Storage!Wrapped(p) ELSE p

StorageTypes ==
  /\ prestorage_codec \in BOOLEAN /\ poststorage_codec \in BOOLEAN
  /\ now \in Nat
  /\ call \in [Clients -> {"idle", "storing", "encoded", "preserved", "decoded", "not found"}]
  /\ original \in [Clients -> Storage!Messages]
  /\ DOMAIN payloads = Clients
  /\ \A c \in Clients : DOMAIN payloads[c] = 1..NumPayloads
  /\ payloads = [c \in Clients |-> [i \in 1..NumPayloads |-> payloads[c][i]]]
  /\ storing \in [Clients -> SUBSET (1..NumPayloads)]

\* A key does not expire before the ttl after it was stored the first time.
KeyInv ==
  /\ DOMAIN redis = DOMAIN first_stored
  /\ \A k \in DOMAIN redis :
       redis[k] \in Nat /\ first_stored[k] \in 0..now /\ first_stored[k] + TTL <= redis[k]

\* Payload p of a request stands for b: as it is, or by a reference to what has been stored.
StandsFor(p, b) == p = b \/ (p = Storage!Ref(b) /\ b \in DOMAIN first_stored)

\* How far the payload that was o at first has come when the request is at r.
Progress(r, o, p, waits) ==
  /\ r \in {"idle", "decoded"} => p = o
  /\ r = "storing" => StandsFor(p, Encoded(o)) /\ (waits => p = Encoded(o))
  /\ r = "encoded" => \E q : p = Outer(q) /\ StandsFor(q, Encoded(o))
  /\ r = "preserved" => p = o \/ (p = Storage!Ref(Encoded(o)) /\ Encoded(o) \in DOMAIN first_stored)

PayloadInv ==
  \A c \in Clients, i \in 1..NumPayloads :
    Progress(call[c], original[c][i], payloads[c][i], i \in storing[c])

StorageInv == StorageTypes /\ KeyInv /\ PayloadInv
-----------------------------------------------------------------------------
(* ExternalStorage: the steps.                                             *)

\* The kinds of payloads, and what is in them.
LEMMA Kinds ==
  \A p : /\ Storage!Gzip(p).kind = "gzip" /\ Storage!Gzip(p).of = p
         /\ Storage!Ref(p).kind = "ref" /\ Storage!Ref(p).of = p
         /\ Storage!Wrapped(p).of = p
         /\ Storage!Plain(p).kind = "plain"
  BY DEF Storage!Gzip, Storage!Ref, Storage!Wrapped, Storage!Plain

\* Decoding undoes encoding, and neither takes a payload for a reference.
LEMMA EncodedPayload ==
  ASSUME StorageTypes, NEW c \in Clients, NEW i \in 1..NumPayloads
  PROVE  LET o == original[c][i] IN
         /\ o.kind = "plain" /\ Encoded(o).kind # "ref"
         /\ Storage!decode(o) = o
         /\ prestorage_codec => Storage!decode(Encoded(o)) = o
         /\ ~prestorage_codec => Encoded(o) = o
<1>1. PICK v \in Values : original[c][i] = Storage!Plain(v)
  <2>1. original[c] \in [1..NumPayloads -> {Storage!Plain(v) : v \in Values}]
    BY DEF StorageTypes, Storage!Messages
  <2>2. original[c][i] \in {Storage!Plain(v) : v \in Values}
    BY <2>1
  <2> QED
    BY <2>2
<1> QED
  BY <1>1, Kinds DEF Encoded, Storage!decode

\* One key more, or the same.
LEMMA KeySet ==
  ASSUME Storage!StorageAssumption, StorageInv, NEW k,
         redis' = Storage!set_if_absent(k), first_stored' = Storage!FirstStored(k), now' = now
  PROVE  KeyInv' /\ DOMAIN first_stored' = DOMAIN first_stored \cup {k}
<1> USE DEF StorageInv, KeyInv, Storage!StorageAssumption
<1>1. CASE Storage!Has(k)
  <2>1. redis' = redis /\ first_stored' = first_stored /\ k \in DOMAIN first_stored
    BY <1>1 DEF Storage!Has, Storage!set_if_absent, Storage!FirstStored
  <2> QED
    BY <2>1
<1>2. CASE ~Storage!Has(k)
  <2>1. redis' = [x \in DOMAIN redis \cup {k} |-> IF x = k THEN now + TTL ELSE redis[x]]
    BY <1>2 DEF Storage!set_if_absent, Storage!With
  <2>2. now \in Nat /\ now + TTL \in Nat
    <3>1. now \in Nat
      BY DEF StorageTypes
    <3>2. TTL \in Nat
      OBVIOUS
    <3> QED
      BY <3>1, <3>2
  <2>3. /\ DOMAIN redis' = DOMAIN redis \cup {k} /\ redis'[k] = now + TTL
        /\ \A x \in DOMAIN redis : x # k => redis'[x] = redis[x]
    BY <2>1
  <2>4. /\ DOMAIN first_stored' = DOMAIN first_stored \cup {k} /\ first_stored'[k] \in 0..now
        /\ \A x \in DOMAIN first_stored : x # k => first_stored'[x] = first_stored[x]
    <3>1. CASE k \in DOMAIN first_stored
      BY <3>1 DEF Storage!FirstStored
    <3>2. CASE k \notin DOMAIN first_stored
      <4>1. first_stored' = [x \in DOMAIN first_stored \cup {k} |-> IF x = k THEN now ELSE first_stored[x]]
        BY <3>2 DEF Storage!FirstStored, Storage!With
      <4> QED
        BY <2>2, <4>1
    <3> QED
      BY <3>1, <3>2
  <2>5. ASSUME NEW x \in DOMAIN redis'
        PROVE  redis'[x] \in Nat /\ first_stored'[x] \in 0..now /\ first_stored'[x] + TTL <= redis'[x]
    <3>1. CASE x = k
      BY <2>2, <2>3, <2>4, <3>1
    <3>2. CASE x # k
      BY <2>3, <2>4, <3>2
    <3> QED
      BY <3>1, <3>2
  <2> QED
    BY <2>3, <2>4, <2>5
<1> QED
  BY <1>1, <1>2

\* What stood for a payload goes on to do so.
LEMMA ProgressStays ==
  ASSUME UNCHANGED <<prestorage_codec, poststorage_codec>>,
         DOMAIN first_stored \subseteq DOMAIN first_stored',
         NEW r, NEW o, NEW p, NEW waits \in BOOLEAN, Progress(r, o, p, waits)
  PROVE  Progress(r, o, p, waits)'
  BY DEF Progress, StandsFor, Encoded, Outer

\* A request is answered, and the others stay.
LEMMA AnswerStep ==
  ASSUME StorageInv, NEW c \in Clients,
         NEW r \in {"idle", "storing", "encoded", "preserved", "decoded", "not found"}, NEW ps,
         Storage!Answer(c, r, ps), ps = [i \in 1..NumPayloads |-> ps[i]],
         NEW S \in SUBSET (1..NumPayloads), storing' = [storing EXCEPT ![c] = S],
         UNCHANGED <<prestorage_codec, poststorage_codec, redis, now, original, first_stored>>,
         \A i \in 1..NumPayloads : Progress(r, original[c][i], ps[i], i \in S)
  PROVE  StorageInv'
<1> USE DEF StorageInv
<1>1. call' = [call EXCEPT ![c] = r] /\ payloads' = [payloads EXCEPT ![c] = ps]
  BY DEF Storage!Answer
<1>2. StorageTypes'
  BY <1>1 DEF StorageTypes
<1>3. KeyInv'
  BY DEF KeyInv
<1>4. PayloadInv'
  <2> SUFFICES ASSUME NEW d \in Clients, NEW i \in 1..NumPayloads
               PROVE  Progress(call[d], original[d][i], payloads[d][i], i \in storing[d])'
    BY DEF PayloadInv
  <2>1. CASE d = c
    BY <1>1, <2>1 DEF StorageTypes, Progress, StandsFor, Encoded, Outer
  <2>2. CASE d # c
    <3>1. /\ call'[d] = call[d] /\ payloads'[d] = payloads[d] /\ storing'[d] = storing[d]
          /\ Progress(call[d], original[d][i], payloads[d][i], i \in storing[d])
      BY <1>1, <2>2 DEF StorageTypes, PayloadInv
    <3> QED
      BY <3>1 DEF Progress, StandsFor, Encoded, Outer
  <2> QED
    BY <2>1, <2>2
<1> QED
  BY <1>2, <1>3, <1>4

\* Encoding compresses the payloads.
LEMMA EncodeStep ==
  ASSUME StorageInv, NEW c \in Clients, Storage!EncodeHandler(c)
  PROVE  StorageInv'
<1> USE DEF StorageInv
<1> DEFINE ps == IF prestorage_codec THEN Storage!Each(Storage!encode, payloads[c]) ELSE payloads[c]
           S == {i \in DOMAIN ps : Storage!IsLarge(ps[i])}
<1>1. /\ Storage!Answer(c, "storing", ps) /\ storing' = [storing EXCEPT ![c] = S]
      /\ UNCHANGED <<prestorage_codec, poststorage_codec, redis, now, original, first_stored>>
      /\ call[c] = "idle"
  BY DEF Storage!EncodeHandler
<1>2. payloads[c] = [i \in 1..NumPayloads |-> payloads[c][i]]
  BY DEF StorageTypes
<1>3. ps = [i \in 1..NumPayloads |-> Encoded(payloads[c][i])]
  <2>1. CASE prestorage_codec
    BY <1>2, <2>1 DEF Storage!Each, Storage!encode, Encoded
  <2>2. CASE ~prestorage_codec
    BY <1>2, <2>2 DEF Encoded
  <2> QED
    BY <2>1, <2>2
<1> HIDE DEF ps
<1>4. /\ DOMAIN ps = 1..NumPayloads /\ ps = [i \in 1..NumPayloads |-> ps[i]]
      /\ S \in SUBSET (1..NumPayloads)
  BY <1>3
<1> HIDE DEF S
<1>5. \A i \in 1..NumPayloads : payloads[c][i] = original[c][i]
  BY <1>1 DEF PayloadInv, Progress
<1>6. \A i \in 1..NumPayloads : Progress("storing", original[c][i], ps[i], i \in S)
  BY <1>3, <1>5 DEF Progress, StandsFor
<1> QED
  BY <1>1, <1>4, <1>6, AnswerStep

\* One payload is stored.
LEMMA StoreStep ==
  ASSUME Storage!StorageAssumption, StorageInv, NEW c \in Clients, Storage!StorePayload(c)
  PROVE  StorageInv'
<1> USE DEF StorageInv
<1>1. PICK i \in storing[c] :
        /\ redis' = Storage!set_if_absent(payloads[c][i])
        /\ first_stored' = Storage!FirstStored(payloads[c][i])
        /\ payloads' = [payloads EXCEPT ![c][i] = Storage!Ref(@)]
        /\ storing' = [storing EXCEPT ![c] = @ \ {i}]
  BY DEF Storage!StorePayload
<1>2. call[c] = "storing" /\ UNCHANGED <<prestorage_codec, poststorage_codec, now, call, original>>
  BY DEF Storage!StorePayload
<1>3. KeyInv' /\ DOMAIN first_stored' = DOMAIN first_stored \cup {payloads[c][i]}
  BY <1>1, <1>2, KeySet
<1>4. i \in 1..NumPayloads
  BY DEF StorageTypes
<1>5. StorageTypes'
  BY <1>1, <1>2, <1>4 DEF StorageTypes
<1>6. PayloadInv'
  <2> SUFFICES ASSUME NEW d \in Clients, NEW k \in 1..NumPayloads
               PROVE  Progress(call[d], original[d][k], payloads[d][k], k \in storing[d])'
    BY DEF PayloadInv
  <2>1. Progress(call[d], original[d][k], payloads[d][k], k \in storing[d])
    BY DEF PayloadInv
  <2>2. CASE d = c /\ k = i
    <3>1. payloads[c][i] = Encoded(original[c][i])
      BY <1>2, <2>1, <2>2 DEF Progress
    <3>2. payloads'[d][k] = Storage!Ref(payloads[c][i]) /\ k \notin storing'[d]
      BY <1>1, <1>4, <2>2 DEF StorageTypes
    <3> QED
      BY <1>2, <1>3, <2>2, <3>1, <3>2 DEF Progress, StandsFor, Encoded
  <2>3. CASE ~(d = c /\ k = i)
    <3>1. payloads'[d][k] = payloads[d][k] /\ (k \in storing'[d] <=> k \in storing[d])
      BY <1>1, <1>4, <2>3 DEF StorageTypes
    <3> QED
      BY <1>2, <1>3, <2>1, <3>1 DEF Progress, StandsFor, Encoded, Outer
  <2> QED
    BY <2>2, <2>3
<1> QED
  BY <1>3, <1>5, <1>6

\* A store fails, and the client has what it had at first.
LEMMA FailStep ==
  ASSUME StorageInv, NEW c \in Clients, Storage!StoreFails(c)
  PROVE  StorageInv'
<1> USE DEF StorageInv
<1>1. /\ Storage!Answer(c, "idle", original[c]) /\ storing' = [storing EXCEPT ![c] = {}]
      /\ UNCHANGED <<prestorage_codec, poststorage_codec, redis, now, original, first_stored>>
  BY DEF Storage!StoreFails
<1>2. original[c] = [i \in 1..NumPayloads |-> original[c][i]]
  <2>1. original[c] \in [1..NumPayloads -> {Storage!Plain(v) : v \in Values}]
    BY DEF StorageTypes, Storage!Messages
  <2> QED
    BY <2>1
<1>3. \A i \in 1..NumPayloads : Progress("idle", original[c][i], original[c][i], i \in {})
  BY DEF Progress
<1> QED
  BY <1>1, <1>2, <1>3, AnswerStep

\* All are stored: what is left is wrapped.
LEMMA StoredStep ==
  ASSUME StorageInv, NEW c \in Clients, Storage!Stored(c)
  PROVE  StorageInv'
<1> USE DEF StorageInv
<1> DEFINE ps == IF poststorage_codec THEN Storage!Each(Storage!Wrapped, payloads[c]) ELSE payloads[c]
<1>1. /\ Storage!Answer(c, "encoded", ps) /\ storing' = storing
      /\ UNCHANGED <<prestorage_codec, poststorage_codec, redis, now, original, first_stored>>
      /\ call[c] = "storing"
  BY DEF Storage!Stored
<1>2. payloads[c] = [i \in 1..NumPayloads |-> payloads[c][i]]
  BY DEF StorageTypes
<1>3. ps = [i \in 1..NumPayloads |-> Outer(payloads[c][i])]
  <2>1. CASE poststorage_codec
    BY <1>2, <2>1 DEF Storage!Each, Outer
  <2>2. CASE ~poststorage_codec
    BY <1>2, <2>2 DEF Outer
  <2> QED
    BY <2>1, <2>2
<1> HIDE DEF ps
<1>4. /\ ps = [i \in 1..NumPayloads |-> ps[i]]
      /\ storing[c] \in SUBSET (1..NumPayloads) /\ storing' = [storing EXCEPT ![c] = storing[c]]
  BY <1>1, <1>3 DEF StorageTypes
<1>5. ASSUME NEW i \in 1..NumPayloads
      PROVE  Progress("encoded", original[c][i], ps[i], i \in storing[c])
  <2>1. StandsFor(payloads[c][i], Encoded(original[c][i]))
    BY <1>1 DEF PayloadInv, Progress
  <2> QED
    BY <1>3, <2>1 DEF Progress
<1> QED
  BY <1>1, <1>4, <1>5, AnswerStep

\* Without the outer codec, the payloads stand for what was encoded.
LEMMA UnwrappedPayloads ==
  ASSUME StorageInv, NEW c \in Clients, call[c] = "encoded"
  PROVE  LET ps == Storage!Unwrapped(payloads[c]) IN
         /\ DOMAIN ps = 1..NumPayloads
         /\ \A i \in 1..NumPayloads : StandsFor(ps[i], Encoded(original[c][i]))
<1> USE DEF StorageInv
<1> DEFINE ps == Storage!Unwrapped(payloads[c])
<1>1. DOMAIN payloads[c] = 1..NumPayloads
  BY DEF StorageTypes
<1>2. DOMAIN ps = 1..NumPayloads
  BY <1>1 DEF Storage!Unwrapped
<1>3. ASSUME NEW i \in 1..NumPayloads PROVE StandsFor(ps[i], Encoded(original[c][i]))
  <2>1. PICK q : payloads[c][i] = Outer(q) /\ StandsFor(q, Encoded(original[c][i]))
    BY DEF PayloadInv, Progress
  <2>2. ps[i] = q
    BY <1>1, <2>1, Kinds DEF Storage!Unwrapped, Outer
  <2> QED
    BY <2>1, <2>2
<1> QED
  BY <1>2, <1>3

\* Whatever stands for a payload is decoded to it, once references are resolved.
LEMMA DecodedPayload ==
  ASSUME StorageInv, NEW c \in Clients, NEW i \in 1..NumPayloads, NEW p,
         StandsFor(p, Encoded(original[c][i]))
  PROVE  LET o == original[c][i]
             b == IF Storage!is_storage_reference(p) THEN p.of ELSE p
         IN /\ b = Encoded(o) /\ ~Storage!is_storage_reference(b)
            /\ IF prestorage_codec THEN Storage!decode(b) = o ELSE b = o
  BY EncodedPayload, Kinds DEF StorageInv, StandsFor, Storage!is_storage_reference

\* /decode, with the references resolved.
LEMMA DecodeStep ==
  ASSUME StorageInv, NEW c \in Clients, Storage!DecodeHandler(c)
  PROVE  StorageInv'
<1> USE DEF StorageInv
<1> DEFINE ps == Storage!Unwrapped(payloads[c])
           got == Storage!decode_non_refs(Storage!retrieve(ps))
<1>1. /\ storing' = storing /\ call[c] = "encoded"
      /\ UNCHANGED <<prestorage_codec, poststorage_codec, redis, now, original, first_stored>>
      /\ Storage!Answer(c, "decoded", got) \/ Storage!Answer(c, "not found", payloads[c])
  BY DEF Storage!DecodeHandler
<1>2. /\ DOMAIN ps = 1..NumPayloads
      /\ \A i \in 1..NumPayloads : StandsFor(ps[i], Encoded(original[c][i]))
  BY <1>1, UnwrappedPayloads
<1>3. storing[c] \in SUBSET (1..NumPayloads) /\ storing' = [storing EXCEPT ![c] = storing[c]]
  BY <1>1 DEF StorageTypes
<1> HIDE DEF ps
<1>4. CASE Storage!Answer(c, "decoded", got)
  <2> DEFINE b == Storage!retrieve(ps)
  <2>1. /\ DOMAIN b = 1..NumPayloads
        /\ \A i \in 1..NumPayloads : b[i] = IF Storage!is_storage_reference(ps[i]) THEN ps[i].of ELSE ps[i]
    BY <1>2 DEF Storage!retrieve
  <2>2. b = [i \in 1..NumPayloads |-> b[i]]
    BY <1>2 DEF Storage!retrieve
  <2> HIDE DEF b
  <2>3. got = [i \in 1..NumPayloads |-> got[i]]
    BY <2>1, <2>2 DEF Storage!decode_non_refs, b
  <2>4. ASSUME NEW i \in 1..NumPayloads PROVE got[i] = original[c][i]
    <3>1. StandsFor(ps[i], Encoded(original[c][i]))
      BY <1>2
    <3>2. /\ ~Storage!is_storage_reference(b[i])
          /\ IF prestorage_codec THEN Storage!decode(b[i]) = original[c][i] ELSE b[i] = original[c][i]
      BY <2>1, <3>1, DecodedPayload
    <3> QED
      BY <2>1, <3>2 DEF Storage!decode_non_refs, b
  <2>5. \A i \in 1..NumPayloads : Progress("decoded", original[c][i], got[i], i \in storing[c])
    BY <2>4 DEF Progress
  <2> QED
    BY <1>1, <1>3, <1>4, <2>3, <2>5, AnswerStep
<1>5. CASE Storage!Answer(c, "not found", payloads[c])
  <2>1. payloads[c] = [i \in 1..NumPayloads |-> payloads[c][i]]
    BY DEF StorageTypes
  <2>2. \A i \in 1..NumPayloads : Progress("not found", original[c][i], payloads[c][i], i \in storing[c])
    BY DEF Progress
  <2> QED
    BY <1>1, <1>3, <1>5, <2>1, <2>2, AnswerStep
<1> QED
  BY <1>1, <1>4, <1>5

\* /decode, with the references kept.
LEMMA PreserveStep ==
  ASSUME StorageInv, NEW c \in Clients, Storage!DecodePreserving(c)
  PROVE  StorageInv'
<1> USE DEF StorageInv
<1> DEFINE ps == Storage!Unwrapped(payloads[c])
           kept == Storage!decode_non_refs(ps)
<1>1. /\ storing' = storing /\ call[c] = "encoded"
      /\ UNCHANGED <<prestorage_codec, poststorage_codec, redis, now, original, first_stored>>
      /\ Storage!Answer(c, "preserved", kept)
  BY DEF Storage!DecodePreserving
<1>2. /\ DOMAIN ps = 1..NumPayloads
      /\ \A i \in 1..NumPayloads : StandsFor(ps[i], Encoded(original[c][i]))
  BY <1>1, UnwrappedPayloads
<1>3. storing[c] \in SUBSET (1..NumPayloads) /\ storing' = [storing EXCEPT ![c] = storing[c]]
  BY <1>1 DEF StorageTypes
<1>4. ps = [i \in 1..NumPayloads |-> ps[i]]
  <2>1. payloads[c] = [i \in 1..NumPayloads |-> payloads[c][i]]
    BY DEF StorageTypes
  <2> QED
    BY <2>1 DEF Storage!Unwrapped
<1> HIDE DEF ps
<1>5. kept = [i \in 1..NumPayloads |-> kept[i]]
  BY <1>2, <1>4 DEF Storage!decode_non_refs
<1>6. ASSUME NEW i \in 1..NumPayloads
      PROVE  Progress("preserved", original[c][i], kept[i], i \in storing[c])
  <2>1. StandsFor(ps[i], Encoded(original[c][i]))
    BY <1>2
  <2>2. CASE Storage!is_storage_reference(ps[i])
    <3>1. kept[i] = ps[i]
      BY <1>2, <2>2 DEF Storage!decode_non_refs
    <3>2. ps[i] = Storage!Ref(Encoded(original[c][i])) /\ Encoded(original[c][i]) \in DOMAIN first_stored
      BY <2>1, <2>2, EncodedPayload DEF StandsFor, Storage!is_storage_reference
    <3> QED
      BY <3>1, <3>2 DEF Progress
  <2>3. CASE ~Storage!is_storage_reference(ps[i])
    <3>1. IF prestorage_codec THEN Storage!decode(ps[i]) = original[c][i] ELSE ps[i] = original[c][i]
      BY <2>1, <2>3, DecodedPayload
    <3>2. kept[i] = original[c][i]
      BY <1>2, <2>3, <3>1 DEF Storage!decode_non_refs
    <3> QED
      BY <3>2 DEF Progress
  <2> QED
    BY <2>2, <2>3
<1> QED
  BY <1>1, <1>3, <1>5, <1>6, AnswerStep

\* /download of the references that were kept.
LEMMA DownloadStep ==
  ASSUME StorageInv, NEW c \in Clients, Storage!DownloadHandler(c)
  PROVE  StorageInv'
<1> USE DEF StorageInv
<1> DEFINE refs == {i \in DOMAIN payloads[c] : Storage!is_storage_reference(payloads[c][i])}
           got == Storage!decode_non_refs(Storage!retrieve([i \in refs |-> payloads[c][i]]))
           all == [i \in DOMAIN payloads[c] |-> IF i \in refs THEN got[i] ELSE payloads[c][i]]
<1>1. /\ storing' = storing /\ call[c] = "preserved"
      /\ UNCHANGED <<prestorage_codec, poststorage_codec, redis, now, original, first_stored>>
      /\ Storage!Answer(c, "decoded", all) \/ Storage!Answer(c, "not found", payloads[c])
  BY DEF Storage!DownloadHandler
<1>2. /\ DOMAIN payloads[c] = 1..NumPayloads
      /\ payloads[c] = [i \in 1..NumPayloads |-> payloads[c][i]]
      /\ storing[c] \in SUBSET (1..NumPayloads) /\ storing' = [storing EXCEPT ![c] = storing[c]]
  BY <1>1 DEF StorageTypes
<1>3. CASE Storage!Answer(c, "decoded", all)
  <2>1. ASSUME NEW i \in 1..NumPayloads PROVE all[i] = original[c][i]
    <3>1. \/ payloads[c][i] = original[c][i]
          \/ payloads[c][i] = Storage!Ref(Encoded(original[c][i])) /\ Encoded(original[c][i]) \in DOMAIN first_stored
      BY <1>1 DEF PayloadInv, Progress
    <3>2. CASE i \in refs
      <4>1. Storage!is_storage_reference(payloads[c][i]) /\ StandsFor(payloads[c][i], Encoded(original[c][i]))
        BY <3>1, <3>2, EncodedPayload DEF Storage!is_storage_reference, StandsFor
      <4> DEFINE b == payloads[c][i].of
      <4>2. /\ ~Storage!is_storage_reference(b)
            /\ IF prestorage_codec THEN Storage!decode(b) = original[c][i] ELSE b = original[c][i]
        BY <4>1, DecodedPayload
      <4>3. Storage!retrieve([k \in refs |-> payloads[c][k]])[i] = b
        BY <3>2, <4>1 DEF Storage!retrieve
      <4>4. DOMAIN Storage!retrieve([k \in refs |-> payloads[c][k]]) = refs
        BY DEF Storage!retrieve
      <4> HIDE DEF b
      <4>5. got[i] = original[c][i]
        BY <3>2, <4>2, <4>3, <4>4 DEF Storage!decode_non_refs
      <4> QED
        BY <1>2, <3>2, <4>5
    <3>3. CASE i \notin refs
      <4>1. payloads[c][i] = original[c][i]
        BY <1>2, <3>1, <3>3, Kinds DEF Storage!is_storage_reference
      <4> QED
        BY <1>2, <3>3, <4>1
    <3> QED
      BY <3>2, <3>3
  <2>2. all = [i \in 1..NumPayloads |-> all[i]]
    BY <1>2
  <2> HIDE DEF all
  <2>3. \A i \in 1..NumPayloads : Progress("decoded", original[c][i], all[i], i \in storing[c])
    BY <2>1 DEF Progress
  <2> QED
    BY <1>1, <1>2, <1>3, <2>2, <2>3, AnswerStep
<1>4. CASE Storage!Answer(c, "not found", payloads[c])
  <2>1. \A i \in 1..NumPayloads : Progress("not found", original[c][i], payloads[c][i], i \in storing[c])
    BY DEF Progress
  <2> QED
    BY <1>1, <1>2, <1>4, <2>1, AnswerStep
<1> QED
  BY <1>1, <1>3, <1>4

\* Nothing is stored.
LEMMA StorageInit == Storage!Init => StorageInv
<1> SUFFICES ASSUME Storage!Init PROVE StorageInv
  OBVIOUS
<1> USE DEF Storage!Init
<1>1. ASSUME NEW c \in Clients
      PROVE  DOMAIN original[c] = 1..NumPayloads /\ original[c] = [i \in 1..NumPayloads |-> original[c][i]]
  <2>1. original[c] \in [1..NumPayloads -> {Storage!Plain(v) : v \in Values}]
    BY DEF Storage!Messages
  <2> QED
    BY <2>1
<1>2. StorageTypes
  BY <1>1 DEF StorageTypes
<1>3. KeyInv
  BY DEF KeyInv
<1>4. PayloadInv
  BY DEF PayloadInv, Progress
<1> QED
  BY <1>2, <1>3, <1>4 DEF StorageInv

\* Every step preserves the inductive invariant.
LEMMA StorageStep ==
  Storage!StorageAssumption /\ StorageInv /\ [Storage!Next]_Storage!vars => StorageInv'
<1> SUFFICES ASSUME Storage!StorageAssumption, StorageInv, [Storage!Next]_Storage!vars
             PROVE  StorageInv'
  OBVIOUS
<1>1. CASE Storage!Tick \/ UNCHANGED Storage!vars
  <2>1. /\ UNCHANGED <<prestorage_codec, poststorage_codec, redis, call, payloads, storing,
                        original, first_stored>>
        /\ now' = now \/ now' = now + 1
    BY <1>1 DEF Storage!Tick, Storage!vars
  <2>2. now \in Nat /\ now' \in Nat /\ now <= now'
    <3>1. now \in Nat
      BY DEF StorageInv, StorageTypes
    <3> QED
      BY <2>1, <3>1
  <2>3. StorageTypes'
    BY <2>1, <2>2 DEF StorageInv, StorageTypes
  <2>4. ASSUME NEW k \in DOMAIN redis
        PROVE  redis[k] \in Nat /\ first_stored[k] \in 0..now' /\ first_stored[k] + TTL <= redis[k]
    <3>1. redis[k] \in Nat /\ first_stored[k] \in 0..now /\ first_stored[k] + TTL <= redis[k]
      BY DEF StorageInv, KeyInv
    <3> QED
      BY <2>2, <3>1
  <2>5. KeyInv'
    BY <2>1, <2>4 DEF StorageInv, KeyInv
  <2>6. PayloadInv'
    BY <2>1 DEF StorageInv, PayloadInv, Progress, StandsFor, Encoded, Outer
  <2> QED
    BY <2>3, <2>5, <2>6 DEF StorageInv
<1> QED
  BY <1>1, EncodeStep, StoreStep, FailStep, StoredStep, DecodeStep, PreserveStep, DownloadStep
     DEF Storage!Next, Storage!Serve, Storage!Ended
-----------------------------------------------------------------------------
\* ExternalStorage: the inductive invariant holds in every reachable state.
THEOREM StorageInvariant ==
  ASSUME Storage!StorageAssumption PROVE Storage!Spec => []StorageInv
  BY StorageInit, StorageStep, PTL DEF Storage!Spec

\* The codec server and the driver, for any payloads, clients and expiry: whichever of them go
\* into the storage, and whichever way they are decoded, a client that has decoded its request
\* has what it sent, every payload in its place.
LEMMA StorageAlone ==
  ASSUME Storage!StorageAssumption PROVE Storage!Spec => []Storage!RoundTrip
<1>1. StorageInv => Storage!RoundTrip
  <2> SUFFICES ASSUME StorageInv, NEW c \in Clients, call[c] = "decoded"
               PROVE  payloads[c] = original[c]
    BY DEF Storage!RoundTrip
  <2>1. original[c] \in [1..NumPayloads -> {Storage!Plain(v) : v \in Values}]
    BY DEF StorageInv, StorageTypes, Storage!Messages
  <2>2. payloads[c] = [i \in 1..NumPayloads |-> payloads[c][i]]
    BY DEF StorageInv, StorageTypes
  <2>3. \A i \in 1..NumPayloads : payloads[c][i] = original[c][i]
    BY DEF StorageInv, PayloadInv, Progress
  <2> QED
    BY <2>1, <2>2, <2>3
<1> QED
  BY <1>1, StorageInvariant, PTL

\* A reference that does not resolve was made at least the ttl before: the same holds when other
\* clients store the same payload, and when a request fails and is made again.
LEMMA StorageStepsAlone ==
  ASSUME Storage!StorageAssumption PROVE Storage!Spec => Storage!LostOnlyByTTL
<1>1. ASSUME StorageInv, NEW k \in DOMAIN first_stored, ~Storage!Has(k)
      PROVE  first_stored[k] + TTL <= now
  <2>1. k \in DOMAIN redis /\ redis[k] \in Nat /\ first_stored[k] \in Nat /\ first_stored[k] + TTL <= redis[k]
    BY <1>1 DEF StorageInv, KeyInv
  <2>2. now \in Nat
    BY <1>1 DEF StorageInv, StorageTypes
  <2>3. redis[k] <= now
    BY <1>1, <2>1, <2>2 DEF Storage!Has
  <2> QED
    BY <2>1, <2>2, <2>3 DEF Storage!StorageAssumption
<1>2. ASSUME StorageInv, NEW c \in Clients, Storage!DecodeHandler(c), call'[c] = "not found"
      PROVE  Storage!Expired(c)
  <2> DEFINE ps == Storage!Unwrapped(payloads[c])
  <2>1. /\ DOMAIN ps = 1..NumPayloads
        /\ \A i \in 1..NumPayloads : StandsFor(ps[i], Encoded(original[c][i]))
    BY <1>2, UnwrappedPayloads DEF Storage!DecodeHandler
  <2>2. ~Storage!AllFound(ps)
    <3>1. call \in [Clients -> {"idle", "storing", "encoded", "preserved", "decoded", "not found"}]
      BY <1>2 DEF StorageInv, StorageTypes
    <3> QED
      BY <1>2, <3>1 DEF Storage!DecodeHandler, Storage!Answer
  <2>3. PICK i \in 1..NumPayloads : Storage!is_storage_reference(ps[i]) /\ ~Storage!Has(ps[i].of)
    BY <2>1, <2>2 DEF Storage!AllFound
  <2> DEFINE k == Encoded(original[c][i])
  <2>4. ps[i] = Storage!Ref(k) /\ k \in DOMAIN first_stored
    BY <1>2, <2>1, <2>3, EncodedPayload DEF StandsFor, Storage!is_storage_reference, StorageInv
  <2>5. first_stored[k] + TTL <= now
    <3>1. ~Storage!Has(k)
      BY <2>3, <2>4, Kinds
    <3> HIDE DEF k
    <3> QED
      BY <1>1, <1>2, <2>4, <3>1
  <2>6. Storage!Ref(k) \in Storage!Range(ps)
    BY <2>1, <2>4 DEF Storage!Range
  <2> HIDE DEF k
  <2> QED
    BY <2>4, <2>5, <2>6 DEF Storage!Expired
<1>3. ASSUME StorageInv, NEW c \in Clients, Storage!DownloadHandler(c), call'[c] = "not found"
      PROVE  Storage!Expired(c)
  <2> DEFINE refs == {i \in DOMAIN payloads[c] : Storage!is_storage_reference(payloads[c][i])}
             ps == [i \in refs |-> payloads[c][i]]
  <2>1. call[c] = "preserved" /\ ~Storage!AllFound(ps)
    <3>1. call \in [Clients -> {"idle", "storing", "encoded", "preserved", "decoded", "not found"}]
      BY <1>3 DEF StorageInv, StorageTypes
    <3> QED
      BY <1>3, <3>1 DEF Storage!DownloadHandler, Storage!Answer
  <2>2. PICK i \in refs : ~Storage!Has(payloads[c][i].of)
    BY <2>1 DEF Storage!AllFound
  <2>3. i \in 1..NumPayloads /\ i \in DOMAIN payloads[c] /\ payloads[c][i].kind = "ref"
    BY <1>3 DEF StorageInv, StorageTypes, Storage!is_storage_reference
  <2> DEFINE k == Encoded(original[c][i])
  <2>4. payloads[c][i] = Storage!Ref(k) /\ k \in DOMAIN first_stored
    <3>1. \/ payloads[c][i] = original[c][i]
          \/ payloads[c][i] = Storage!Ref(k) /\ k \in DOMAIN first_stored
      BY <1>3, <2>1, <2>3 DEF StorageInv, PayloadInv, Progress
    <3>2. original[c][i].kind = "plain"
      BY <1>3, <2>3, EncodedPayload DEF StorageInv
    <3> QED
      BY <2>3, <3>1, <3>2
  <2>5. first_stored[k] + TTL <= now
    <3>1. ~Storage!Has(k)
      BY <2>2, <2>4, Kinds
    <3> HIDE DEF k
    <3> QED
      BY <1>1, <1>3, <2>4, <3>1
  <2>6. Storage!Ref(k) \in Storage!Range(payloads[c])
    BY <2>3, <2>4 DEF Storage!Range
  <2> HIDE DEF k
  <2> QED
    BY <2>4, <2>5, <2>6 DEF Storage!Expired
<1>4. ASSUME StorageInv, [Storage!Next]_Storage!vars, NEW c \in Clients,
             call[c] # "not found", call'[c] = "not found"
      PROVE  Storage!Expired(c)
  <2>1. call \in [Clients -> {"idle", "storing", "encoded", "preserved", "decoded", "not found"}]
    BY <1>4 DEF StorageInv, StorageTypes
  <2>2. ASSUME NEW d \in Clients, Storage!Serve(d)
        PROVE  Storage!DecodeHandler(c) \/ Storage!DownloadHandler(c)
    <3>1. ASSUME NEW r, call' = [call EXCEPT ![d] = r]
          PROVE  d = c /\ r = "not found"
      BY <1>4, <2>1, <3>1
    <3>2. CASE Storage!DecodeHandler(d) \/ Storage!DownloadHandler(d)
      BY <3>1, <3>2, ZenonT(30) DEF Storage!DecodeHandler, Storage!DownloadHandler, Storage!Answer
    <3>3. CASE \/ Storage!EncodeHandler(d) \/ Storage!StoreFails(d) \/ Storage!Stored(d)
               \/ Storage!DecodePreserving(d)
      BY <3>1, <3>3 DEF Storage!EncodeHandler, Storage!StoreFails, Storage!Stored,
                        Storage!DecodePreserving, Storage!Answer
    <3>4. CASE Storage!StorePayload(d)
      BY <1>4, <3>4 DEF Storage!StorePayload
    <3> QED
      BY <2>2, <3>2, <3>3, <3>4 DEF Storage!Serve
  <2>3. ~Storage!Tick /\ ~Storage!Ended /\ ~UNCHANGED Storage!vars
    BY <1>4 DEF Storage!Tick, Storage!Ended, Storage!vars
  <2> QED
    BY <1>2, <1>3, <1>4, <2>2, <2>3 DEF Storage!Next
<1>5. StorageInv /\ [Storage!Next]_Storage!vars => [Storage!LostAfterTTL]_Storage!vars
  BY <1>4 DEF Storage!LostAfterTTL, Storage!NotFoundAnswered
<1> QED
  BY <1>5, StorageInvariant, PTL DEF Storage!Spec, Storage!LostOnlyByTTL
-----------------------------------------------------------------------------
(* ShoppingCart: the inductive invariant.                                  *)

CartTypes ==
  /\ cart \in Nat /\ items \in Seq(Additions)
  /\ request \in [Additions -> {"unsent", "pricing", "rejected", "unavailable", "added"}]
  /\ in \in [Additions -> Nat] /\ subtotal \in [Additions -> Nat]
  /\ orders \in Seq([items : Seq(Additions), total : Nat])

\* The requests q that were acknowledged as added to cart k; taken is the cart of each.
AddedTo(q, taken, k) == {r \in Additions : q[r] = "added" /\ taken[r] = k}

\* s are the items of the additions A, in the order in which they were acknowledged, and
\* t is what the last acknowledgement said, told being what each said.
Accounted(A, told, s, t) ==
  /\ \A r \in A : \E i \in 1..Len(s) : s[i] = r
  /\ \A i \in 1..Len(s) : s[i] \in A
  /\ \A i, j \in 1..Len(s) : s[i] = s[j] => i = j
  /\ \A r \in A : told[r] <= t
  /\ t = IF s = <<>> THEN 0 ELSE told[s[Len(s)]]

CartInv ==
  /\ CartTypes
  /\ Len(orders) = (IF open THEN cart - 1 ELSE cart) /\ (open => cart > 0)
  /\ \A r \in Additions : /\ in[r] <= cart
                          /\ request[r] = "pricing" => open /\ in[r] = cart
  /\ \A k \in 1..Len(orders) :
       Accounted(AddedTo(request, in, k), subtotal, orders[k].items, orders[k].total)
  /\ open => Accounted(AddedTo(request, in, cart), subtotal, items, Cart!Total(items))

\* The total is that of the items: its definition by recursion has one solution.
RunningTotal(g, s) == g = [i \in 0..Len(s) |-> IF i = 0 THEN 0 ELSE g[i - 1] + Price[s[i]]]
Summed(s) == /\ \E g : RunningTotal(g, s)
             /\ \A g, h : RunningTotal(g, s) /\ RunningTotal(h, s) => g = h

CartSummed == CartInv /\ (open => Summed(items))
-----------------------------------------------------------------------------
(* ShoppingCart: totals.                                                   *)

LEMMA TotalIs ==
  ASSUME NEW s, NEW g, Summed(s), RunningTotal(g, s)
  PROVE  Cart!Total(s) = g[Len(s)]
<1> DEFINE h == CHOOSE f : f = [i \in 0..Len(s) |-> IF i = 0 THEN 0 ELSE f[i - 1] + Price[s[i]]]
<1>1. RunningTotal(h, s)
  BY Zenon DEF RunningTotal
<1>2. h = g
  <2> HIDE DEF h
  <2> QED
    BY <1>1, Zenon DEF Summed
<1>3. Cart!Total(s) = h[Len(s)]
  BY Zenon DEF Cart!Total
<1> QED
  BY <1>2, <1>3, Zenon

LEMMA TotalNone == Summed(<<>>) /\ Cart!Total(<<>>) = 0
<1> DEFINE g == [i \in 0..0 |-> 0]
<1>1. RunningTotal(g, <<>>)
  BY DEF RunningTotal
<1>2. ASSUME NEW f, RunningTotal(f, <<>>) PROVE f = g
  BY <1>2 DEF RunningTotal
<1>3. Summed(<<>>)
  BY <1>1, <1>2 DEF Summed
<1>4. Cart!Total(<<>>) = g[Len(<<>>)]
  <2> HIDE DEF g
  <2> QED
    BY <1>1, <1>3, TotalIs
<1> QED
  BY <1>3, <1>4

\* What an append does to a sequence.
LEMMA AppendLast ==
  ASSUME NEW S, NEW s \in Seq(S), NEW e \in S
  PROVE  /\ Append(s, e) \in Seq(S) /\ Append(s, e) # <<>>
         /\ Len(Append(s, e)) = Len(s) + 1 /\ Len(s) \in Nat
         /\ \A i \in 1..Len(s) : Append(s, e)[i] = s[i] /\ s[i] \in S
         /\ Append(s, e)[Len(s) + 1] = e
  OBVIOUS

\* An item more costs as much more.
LEMMA TotalAppend ==
  ASSUME NEW s \in Seq(Additions), NEW r \in Additions, Summed(s)
  PROVE  /\ Summed(Append(s, r))
         /\ Cart!Total(Append(s, r)) = Cart!Total(s) + Price[r]
<1> DEFINE n == Len(s)
           z == Append(s, r)
<1>1. n \in Nat /\ Len(z) = n + 1 /\ z[n + 1] = r /\ \A i \in 1..n : z[i] = s[i]
  BY AppendLast
<1>2. PICK g : RunningTotal(g, s)
  BY DEF Summed
<1> DEFINE h == [i \in 0..n + 1 |-> IF i = n + 1 THEN g[n] + Price[r] ELSE g[i]]
<1> HIDE DEF z
<1>3. \A i \in 0..n : g[i] = IF i = 0 THEN 0 ELSE g[i - 1] + Price[s[i]]
  BY <1>2 DEF RunningTotal
<1>4. RunningTotal(h, z)
  <2>1. ASSUME NEW i \in 0..n + 1
        PROVE  h[i] = IF i = 0 THEN 0 ELSE h[i - 1] + Price[z[i]]
    <3>1. CASE i = n + 1
      BY <1>1, <3>1
    <3>2. CASE i = 0
      BY <1>1, <1>3, <3>2
    <3>3. CASE i \in 1..n
      <4>1. i \in 0..n /\ i # 0 /\ i # n + 1 /\ i - 1 \in 0..n + 1 /\ i - 1 # n + 1
        BY <1>1, <3>3
      <4>2. h[i] = g[i] /\ h[i - 1] = g[i - 1] /\ z[i] = s[i]
        BY <1>1, <3>3, <4>1
      <4> QED
        BY <1>3, <4>1, <4>2
    <3> QED
      BY <1>1, <3>1, <3>2, <3>3
  <2>2. h = [i \in 0..n + 1 |-> h[i]]
    OBVIOUS
  <2> HIDE DEF h
  <2> QED
    BY <1>1, <2>1, <2>2 DEF RunningTotal
<1>5. ASSUME NEW f, RunningTotal(f, z) PROVE f = h
  <2>1. /\ f = [i \in 0..n + 1 |-> f[i]]
        /\ \A i \in 0..n + 1 : f[i] = IF i = 0 THEN 0 ELSE f[i - 1] + Price[z[i]]
    BY <1>1, <1>5 DEF RunningTotal
  <2> DEFINE c == [i \in 0..n |-> f[i]]
  <2>2. ASSUME NEW i \in 0..n PROVE c[i] = IF i = 0 THEN 0 ELSE c[i - 1] + Price[s[i]]
    <3>1. CASE i = 0
      BY <1>1, <2>1, <3>1
    <3>2. CASE i # 0
      <4>1. i \in 0..n + 1 /\ i \in 1..n /\ i - 1 \in 0..n
        BY <1>1, <3>2
      <4>2. f[i] = f[i - 1] + Price[z[i]] /\ z[i] = s[i]
        BY <1>1, <2>1, <3>2, <4>1
      <4> QED
        BY <3>2, <4>1, <4>2
    <3> QED
      BY <3>1, <3>2
  <2>3. RunningTotal(c, s)
    <3>1. c = [i \in 0..n |-> c[i]]
      OBVIOUS
    <3> HIDE DEF c
    <3> QED
      BY <2>2, <3>1 DEF RunningTotal
  <2>4. c = g
    <3> HIDE DEF c
    <3> QED
      BY <1>2, <2>3 DEF Summed
  <2>5. \A i \in 0..n : f[i] = g[i]
    BY <2>4
  <2>6. f[n + 1] = g[n] + Price[r]
    <3>1. n + 1 \in 0..n + 1 /\ n + 1 # 0 /\ (n + 1) - 1 = n /\ n \in 0..n
      BY <1>1
    <3> QED
      BY <1>1, <2>1, <2>5, <3>1
  <2>7. \A i \in 0..n + 1 : f[i] = h[i]
    BY <1>1, <2>5, <2>6
  <2> QED
    BY <2>1, <2>7
<1>6. Summed(z)
  <2> HIDE DEF h
  <2> QED
    BY <1>4, <1>5 DEF Summed
<1>7. Cart!Total(s) = g[n]
  BY <1>2, TotalIs
<1>8. Cart!Total(z) = h[n + 1]
  <2> HIDE DEF h
  <2> QED
    BY <1>1, <1>4, <1>6, TotalIs
<1>9. h[n + 1] = g[n] + Price[r]
  BY <1>1
<1> QED
  BY <1>6, <1>7, <1>8, <1>9 DEF z
-----------------------------------------------------------------------------
(* ShoppingCart: accounts.                                                 *)

LEMMA ElementOf ==
  ASSUME NEW S, NEW s \in Seq(S), NEW k \in 1..Len(s) PROVE s[k] \in S
  OBVIOUS

\* An account depends on what the acknowledgements of its additions said only.
LEMMA AccountKept ==
  ASSUME NEW A, NEW told, NEW new, NEW s, NEW t, Len(s) \in Nat,
         Accounted(A, told, s, t), \A r \in A : new[r] = told[r]
  PROVE  Accounted(A, new, s, t)
<1>1. CASE s = <<>>
  BY <1>1 DEF Accounted
<1>2. CASE s # <<>> /\ Len(s) > 0
  <2>1. s[Len(s)] \in A
    BY <1>2 DEF Accounted
  <2> QED
    BY <1>2, <2>1 DEF Accounted
<1>3. CASE s # <<>> /\ Len(s) = 0
  BY <1>3 DEF Accounted
<1> QED
  BY <1>1, <1>2, <1>3

\* An addition more: its item is the last, and its acknowledgement says the new total.
LEMMA AccountMore ==
  ASSUME NEW A \in SUBSET Additions, NEW r \in Additions \ A, NEW told, NEW new,
         NEW s \in Seq(Additions), NEW t \in Nat, NEW p \in Nat, Accounted(A, told, s, t),
         \A q \in A : new[q] = told[q] /\ told[q] \in Nat, new[r] = t + p
  PROVE  Accounted(A \cup {r}, new, Append(s, r), t + p)
<1> DEFINE n == Len(s)
           z == Append(s, r)
<1>1. /\ z # <<>> /\ Len(z) = n + 1 /\ n \in Nat /\ z[n + 1] = r
      /\ \A i \in 1..n : z[i] = s[i]
  BY AppendLast
<1>2. /\ \A q \in A : \E i \in 1..n : s[i] = q
      /\ \A i \in 1..n : s[i] \in A
      /\ \A i, j \in 1..n : s[i] = s[j] => i = j
      /\ \A q \in A : told[q] <= t
  BY DEF Accounted
<1> HIDE DEF z, n
<1>3. \A i \in 1..n + 1 : i = n + 1 \/ i \in 1..n
  BY <1>1
<1>4. \A q \in A \cup {r} : \E i \in 1..n + 1 : z[i] = q
  <2>1. n + 1 \in 1..n + 1 /\ \A i \in 1..n : i \in 1..n + 1
    BY <1>1
  <2> QED
    BY <1>1, <1>2, <2>1
<1>5. \A i \in 1..n + 1 : z[i] \in A \cup {r}
  BY <1>1, <1>2, <1>3
<1>6. \A i, j \in 1..n + 1 : z[i] = z[j] => i = j
  BY <1>1, <1>2, <1>3
<1>7. \A q \in A \cup {r} : new[q] <= t + p
  BY <1>2
<1>8. t + p = new[z[Len(z)]]
  BY <1>1
<1> QED
  BY <1>1, <1>4, <1>5, <1>6, <1>7, <1>8 DEF Accounted, z

\* The accounts of the orders depend on the requests that were added to them only.
LEMMA OrdersKept ==
  ASSUME CartInv, NEW q, NEW taken, NEW told,
         \A k \in 1..Len(orders) : AddedTo(q, taken, k) = AddedTo(request, in, k),
         \A r \in Additions : request[r] = "added" => told[r] = subtotal[r]
  PROVE  \A k \in 1..Len(orders) :
           Accounted(AddedTo(q, taken, k), told, orders[k].items, orders[k].total)
<1> SUFFICES ASSUME NEW k \in 1..Len(orders)
             PROVE  Accounted(AddedTo(request, in, k), told, orders[k].items, orders[k].total)
  OBVIOUS
<1>1. orders[k] \in [items : Seq(Additions), total : Nat]
  BY ElementOf DEF CartInv, CartTypes
<1>2. Len(orders[k].items) \in Nat
  <2>1. orders[k].items \in Seq(Additions)
    BY <1>1
  <2> QED
    BY <2>1
<1>3. Accounted(AddedTo(request, in, k), subtotal, orders[k].items, orders[k].total)
  BY DEF CartInv
<1>4. \A r \in AddedTo(request, in, k) : told[r] = subtotal[r]
  BY DEF AddedTo
<1> QED
  BY <1>2, <1>3, <1>4, AccountKept
-----------------------------------------------------------------------------
(* ShoppingCart: the steps.                                                *)

LEMMA CartInit == Cart!Init => CartSummed
<1> SUFFICES ASSUME Cart!Init PROVE CartSummed
  OBVIOUS
<1>1. CartTypes /\ ~open /\ cart = 0 /\ Len(orders) = 0
  BY DEF Cart!Init, CartTypes
<1>2. \A r \in Additions : in[r] <= cart /\ request[r] # "pricing"
  BY DEF Cart!Init
<1> QED
  BY <1>1, <1>2 DEF CartSummed, CartInv

\* The state before a step, in the parts that the steps need.
LEMMA CartParts ==
  ASSUME CartSummed
  PROVE  /\ cart \in Nat /\ items \in Seq(Additions) /\ Len(items) \in Nat
         /\ request \in [Additions -> {"unsent", "pricing", "rejected", "unavailable", "added"}]
         /\ in \in [Additions -> Nat] /\ subtotal \in [Additions -> Nat]
         /\ orders \in Seq([items : Seq(Additions), total : Nat]) /\ Len(orders) \in Nat
         /\ Len(orders) = IF open THEN cart - 1 ELSE cart
         /\ \A r \in Additions : in[r] <= cart
         /\ \A r \in Additions : request[r] = "pricing" => open /\ in[r] = cart
         /\ open => cart > 0 /\ Summed(items)
         /\ open => Accounted(AddedTo(request, in, cart), subtotal, items, Cart!Total(items))
  BY DEF CartSummed, CartInv, CartTypes

\* A request that moves without being added changes no account.
LEMMA AccountsKept ==
  ASSUME CartSummed, open, UNCHANGED <<cart, open, items, subtotal, orders>>, CartTypes',
         \A r \in Additions : (request'[r] = "added" <=> request[r] = "added"),
         \A r \in Additions : request[r] = "added" => in'[r] = in[r],
         \A r \in Additions : in'[r] <= cart /\ (request'[r] = "pricing" => in'[r] = cart)
  PROVE  CartSummed'
<1>1. \A k : AddedTo(request', in', k) = AddedTo(request, in, k)
  BY DEF AddedTo
<1>2. \A k \in 1..Len(orders) :
        Accounted(AddedTo(request', in', k), subtotal', orders[k].items, orders[k].total)
  BY <1>1, OrdersKept DEF CartSummed
<1>3. Accounted(AddedTo(request', in', cart), subtotal', items, Cart!Total(items))
  BY <1>1, CartParts
<1>4. Len(orders') = (IF open' THEN cart' - 1 ELSE cart') /\ cart' > 0 /\ Summed(items')
  BY CartParts
<1>5. \A r \in Additions : /\ in'[r] <= cart'
                          /\ request'[r] = "pricing" => open' /\ in'[r] = cart'
  OBVIOUS
<1> QED
  BY <1>2, <1>3, <1>4, <1>5 DEF CartSummed, CartInv

\* A request is taken by the open cart.
LEMMA AddToOpenInv ==
  ASSUME CartSummed, NEW r \in Additions, Cart!AddToOpen(r) PROVE CartSummed'
<1>1. /\ open /\ request[r] = "unsent" /\ in' = [in EXCEPT ![r] = cart]
      /\ UNCHANGED <<cart, open, items, subtotal, orders>>
  BY DEF Cart!AddToOpen, Cart!object
<1>2. PICK x \in {"pricing", "rejected"} : request' = [request EXCEPT ![r] = x]
  BY DEF Cart!AddToOpen
<1>3. CartTypes'
  BY <1>1, <1>2, CartParts DEF CartTypes
<1>4. /\ request'[r] # "added" /\ in'[r] = cart
      /\ \A q \in Additions : q # r => request'[q] = request[q] /\ in'[q] = in[q]
  BY <1>1, <1>2, CartParts
<1> QED
  BY <1>1, <1>3, <1>4, CartParts, AccountsKept

\* A request starts a new cart, to which nothing was added.
LEMMA AddToNewInv ==
  ASSUME CartSummed, NEW r \in Additions, Cart!AddToNew(r) PROVE CartSummed'
<1>1. /\ ~open /\ open' /\ cart' = cart + 1 /\ items' = <<>> /\ request[r] = "unsent"
      /\ request' = [request EXCEPT ![r] = "pricing"] /\ in' = [in EXCEPT ![r] = cart + 1]
      /\ UNCHANGED <<subtotal, orders>>
  BY DEF Cart!AddToNew
<1>2. CartTypes'
  BY <1>1, CartParts DEF CartTypes
<1>3. /\ request'[r] = "pricing" /\ in'[r] = cart + 1
      /\ \A q \in Additions : q # r => request'[q] = request[q] /\ in'[q] = in[q]
  BY <1>1, CartParts
<1>4. \A k : AddedTo(request', in', k) = AddedTo(request, in, k)
  BY <1>1, <1>3 DEF AddedTo
<1>5. \A k \in 1..Len(orders) :
        Accounted(AddedTo(request', in', k), subtotal', orders[k].items, orders[k].total)
  BY <1>1, <1>4, OrdersKept DEF CartSummed
<1>6. AddedTo(request', in', cart + 1) = {}
  <2>1. \A q \in Additions : in[q] \in Nat /\ in[q] <= cart /\ cart \in Nat
    BY CartParts
  <2>2. \A q \in Additions : in[q] # cart + 1
    BY <2>1
  <2> QED
    BY <1>4, <2>2 DEF AddedTo
<1>7. Accounted({}, subtotal', <<>>, 0)
  BY DEF Accounted
<1>8. Accounted(AddedTo(request', in', cart'), subtotal', items', Cart!Total(items'))
  BY <1>1, <1>6, <1>7, TotalNone
<1>9. \A q \in Additions : in'[q] <= cart' /\ (request'[q] = "pricing" => in'[q] = cart')
  BY <1>1, <1>3, CartParts
<1>10. Len(orders') = cart' - 1 /\ cart' > 0
  BY <1>1, CartParts
<1> QED
  BY <1>1, <1>2, <1>5, <1>8, <1>9, <1>10, TotalNone DEF CartSummed, CartInv

\* The item is not available.
LEMMA UnavailableInv ==
  ASSUME CartSummed, NEW r \in Additions, Cart!Priced(r), Price[r] = 0 PROVE CartSummed'
<1>1. /\ open /\ request[r] = "pricing" /\ request' = [request EXCEPT ![r] = "unavailable"]
      /\ UNCHANGED <<cart, open, items, in, subtotal, orders>>
  BY DEF Cart!Priced
<1>2. CartTypes'
  BY <1>1, CartParts DEF CartTypes
<1>3. \A q \in Additions : IF q = r THEN request'[q] = "unavailable" ELSE request'[q] = request[q]
  BY <1>1, CartParts
<1> QED
  BY <1>1, <1>2, <1>3, CartParts, AccountsKept

\* The item is in the cart, and its price in the total.
LEMMA AddedInv ==
  ASSUME Cart!CartAssumption, CartSummed, NEW r \in Additions, Cart!Priced(r), Price[r] > 0
  PROVE  CartSummed'
<1> DEFINE t == Cart!Total(items)
           A == AddedTo(request, in, cart)
<1>1. /\ open /\ request[r] = "pricing" /\ items' = Append(items, r)
      /\ request' = [request EXCEPT ![r] = "added"]
      /\ subtotal' = [subtotal EXCEPT ![r] = Cart!Total(items')]
      /\ UNCHANGED <<cart, open, in, orders>>
  BY DEF Cart!Priced, Cart!WithItem
<1>2. Price[r] \in Nat
  BY DEF Cart!CartAssumption
<1>3. Summed(items') /\ Cart!Total(items') = t + Price[r]
  BY <1>1, CartParts, TotalAppend
<1>4. Accounted(A, subtotal, items, t) /\ A \in SUBSET Additions /\ r \in Additions \ A
  BY <1>1, CartParts DEF AddedTo
<1>5. t \in Nat
  <2>1. CASE items = <<>>
    BY <1>4, <2>1 DEF Accounted
  <2>2. CASE items # <<>>
    <3>1. items[Len(items)] \in Additions
      BY <2>2, CartParts
    <3>2. t = subtotal[items[Len(items)]]
      BY <1>4, <2>2 DEF Accounted
    <3> QED
      BY <3>1, <3>2, CartParts
  <2> QED
    BY <2>1, <2>2
<1> HIDE DEF t
<1>6. /\ request'[r] = "added" /\ subtotal'[r] = t + Price[r]
      /\ \A q \in Additions : q # r => request'[q] = request[q] /\ subtotal'[q] = subtotal[q]
  BY <1>1, <1>3, CartParts
<1>7. CartTypes'
  <2>1. items' \in Seq(Additions)
    BY <1>1, CartParts, AppendLast
  <2>2. subtotal' \in [Additions -> Nat]
    BY <1>1, <1>2, <1>3, <1>5, CartParts
  <2> QED
    BY <1>1, <2>1, <2>2, CartParts DEF CartTypes
<1>8. in[r] = cart
  BY <1>1, CartParts
<1>9. AddedTo(request', in', cart) = A \cup {r}
  BY <1>1, <1>6, <1>8 DEF AddedTo
<1>10. \A k \in 1..Len(orders) : AddedTo(request', in', k) = AddedTo(request, in, k)
  <2>1. \A k \in 1..Len(orders) : k # cart
    BY <1>1, CartParts
  <2> QED
    BY <1>1, <1>6, <1>8, <2>1 DEF AddedTo
<1>11. \A k \in 1..Len(orders) :
         Accounted(AddedTo(request', in', k), subtotal', orders[k].items, orders[k].total)
  BY <1>1, <1>6, <1>10, OrdersKept DEF CartSummed
<1>12. Accounted(A \cup {r}, subtotal', items', t + Price[r])
  <2>1. \A q \in A : subtotal'[q] = subtotal[q] /\ subtotal[q] \in Nat
    BY <1>4, <1>6, CartParts
  <2> HIDE DEF A
  <2> QED
    BY <1>1, <1>2, <1>4, <1>5, <1>6, <2>1, CartParts, AccountMore
<1>13. Accounted(AddedTo(request', in', cart'), subtotal', items', Cart!Total(items'))
  BY <1>1, <1>3, <1>9, <1>12
<1>14. \A q \in Additions : /\ in'[q] <= cart'
                           /\ request'[q] = "pricing" => open' /\ in'[q] = cart'
  BY <1>1, <1>6, CartParts
<1>15. Len(orders') = (IF open' THEN cart' - 1 ELSE cart') /\ cart' > 0
  BY <1>1, CartParts
<1> QED
  BY <1>1, <1>3, <1>7, <1>11, <1>13, <1>14, <1>15 DEF CartSummed, CartInv

\* The cart becomes an order.
LEMMA FinalizeInv ==
  ASSUME CartSummed, Cart!Finalize PROVE CartSummed'
<1> DEFINE o == [items |-> items, total |-> Cart!Total(items)]
<1>1. /\ open /\ ~open' /\ orders' = Append(orders, o)
      /\ UNCHANGED <<cart, items, request, in, subtotal>>
      /\ \A r \in Additions : request[r] # "pricing"
  BY DEF Cart!Finalize, Cart!Finalizing, Cart!AllHandlersFinished, Cart!object
<1>2. Accounted(AddedTo(request, in, cart), subtotal, items, Cart!Total(items))
  BY <1>1, CartParts
<1>3. Cart!Total(items) \in Nat
  <2>1. CASE items = <<>>
    BY <1>2, <2>1 DEF Accounted
  <2>2. CASE items # <<>>
    <3>1. items[Len(items)] \in Additions
      BY <2>2, CartParts
    <3>2. Cart!Total(items) = subtotal[items[Len(items)]]
      BY <1>2, <2>2 DEF Accounted
    <3> QED
      BY <3>1, <3>2, CartParts
  <2> QED
    BY <2>1, <2>2
<1>4. /\ o \in [items : Seq(Additions), total : Nat]
      /\ o.items = items /\ o.total = Cart!Total(items)
  BY <1>3, CartParts
<1> HIDE DEF o
<1>5. /\ orders' \in Seq([items : Seq(Additions), total : Nat]) /\ Len(orders') = Len(orders) + 1
      /\ \A k \in 1..Len(orders) : orders'[k] = orders[k]
      /\ orders'[Len(orders) + 1] = o
  BY <1>1, <1>4, CartParts, AppendLast
<1>6. Len(orders) + 1 = cart /\ Len(orders') = cart'
  BY <1>1, <1>5, CartParts
<1>7. ASSUME NEW k \in 1..Len(orders')
      PROVE  Accounted(AddedTo(request', in', k), subtotal', orders'[k].items, orders'[k].total)
  <2>1. CASE k = cart
    <3>1. orders'[k].items = items /\ orders'[k].total = Cart!Total(items)
      BY <1>4, <1>5, <1>6, <2>1
    <3>2. request' = request /\ in' = in /\ subtotal' = subtotal
      BY <1>1
    <3> QED
      BY <1>2, <2>1, <3>1, <3>2
  <2>2. CASE k # cart
    <3>1. k \in 1..Len(orders) /\ orders'[k] = orders[k]
      BY <1>1, <1>5, <1>6, <2>2, CartParts
    <3>2. Accounted(AddedTo(request, in, k), subtotal, orders[k].items, orders[k].total)
      BY <3>1 DEF CartSummed, CartInv
    <3> QED
      BY <1>1, <3>1, <3>2
  <2> QED
    BY <2>1, <2>2
<1>8. CartTypes'
  BY <1>1, <1>5, CartParts DEF CartTypes
<1>9. \A r \in Additions : in'[r] <= cart' /\ request'[r] # "pricing"
  BY <1>1, CartParts
<1> QED
  BY <1>1, <1>6, <1>7, <1>8, <1>9 DEF CartSummed, CartInv

LEMMA CartStep ==
  Cart!CartAssumption /\ CartSummed /\ [Cart!Next]_Cart!vars => CartSummed'
<1> SUFFICES ASSUME Cart!CartAssumption, CartSummed, [Cart!Next]_Cart!vars PROVE CartSummed'
  OBVIOUS
<1>1. CASE Cart!Checkout \/ Cart!Stopped \/ UNCHANGED Cart!vars
  <2>1. UNCHANGED <<cart, open, items, request, in, subtotal, orders>>
    BY <1>1 DEF Cart!Checkout, Cart!Stopped, Cart!vars, Cart!object
  <2> QED
    BY <2>1 DEF CartSummed, CartInv, CartTypes
<1>2. ASSUME NEW r \in Additions, Cart!Priced(r) PROVE CartSummed'
  <2>1. Price[r] = 0 \/ Price[r] > 0
    BY <1>2 DEF Cart!Priced
  <2> QED
    BY <1>2, <2>1, UnavailableInv, AddedInv
<1> QED
  BY <1>1, <1>2, AddToOpenInv, AddToNewInv, FinalizeInv DEF Cart!Next

\* ShoppingCart: the inductive invariant holds in every reachable state.
THEOREM CartInvariant ==
  ASSUME Cart!CartAssumption PROVE Cart!Spec => []CartSummed
  BY CartInit, CartStep, PTL DEF Cart!Spec

\* An order has the acknowledged items, each once, and costs what was announced last.
LEMMA CartAlone ==
  ASSUME Cart!CartAssumption PROVE Cart!Spec => []Cart!OrderExact
<1>1. CartSummed => Cart!OrderExact
  <2> SUFFICES ASSUME CartInv, NEW k \in 1..Len(orders)
               PROVE  LET added == {r \in Additions : request[r] = "added" /\ in[r] = k}
                          told  == {subtotal[r] : r \in added}
                      IN /\ Cart!Ordered(k) = added
                         /\ Cart!Cardinality(added) = Len(orders[k].items)
                         /\ \A s \in told : s <= orders[k].total
                         /\ orders[k].total \in told \cup {0}
    BY DEF CartSummed, Cart!OrderExact
  <2> DEFINE added == {r \in Additions : request[r] = "added" /\ in[r] = k}
             s == orders[k].items
             n == Len(s)
  <2>1. s \in Seq(Additions) /\ n \in Nat
    <3>1. orders[k] \in [items : Seq(Additions), total : Nat]
      BY ElementOf DEF CartInv, CartTypes
    <3>2. s \in Seq(Additions)
      BY <3>1
    <3> HIDE DEF s
    <3> QED
      BY <3>2
  <2>2. /\ \A r \in added : \E i \in 1..n : s[i] = r
        /\ \A i \in 1..n : s[i] \in added
        /\ \A i, j \in 1..n : s[i] = s[j] => i = j
        /\ \A r \in added : subtotal[r] <= orders[k].total
        /\ orders[k].total = IF s = <<>> THEN 0 ELSE subtotal[s[n]]
    BY DEF CartInv, Accounted, AddedTo
  <2>3. Cart!Ordered(k) = added
    BY <2>2 DEF Cart!Ordered
  <2>4. Cart!Cardinality(added) = n
    <3> DEFINE f == [i \in 1..n |-> s[i]]
    <3> HIDE DEF s, added, n
    <3>1. f \in Bijection(1..n, added)
      BY <2>1, <2>2 DEF Bijection, Injection, Surjection, IsInjective
    <3>2. ExistsBijection(1..n, added)
      BY <3>1 DEF ExistsBijection
    <3>3. Cardinality(added) = n
      BY <2>1, <3>2, FS_CountingElements
    <3>4. Cart!Cardinality(added) = Cardinality(added)
      BY DEF Cart!Cardinality, Cardinality
    <3> QED
      BY <3>3, <3>4
  <2>5. orders[k].total \in {subtotal[r] : r \in added} \cup {0}
    <3>1. s # <<>> => n \in 1..n
      <4> HIDE DEF s
      <4> QED
        BY <2>1 DEF n
    <3> HIDE DEF s, added, n
    <3> QED
      BY <2>1, <2>2, <3>1
  <2> QED
    BY <2>2, <2>3, <2>4, <2>5
<1> QED
  BY <1>1, CartInvariant, PTL
-----------------------------------------------------------------------------
(* Versioning: the inductive invariant.                                    *)

Message == {"started", "do-activity", "some-signal", "conclude"}
Activity == {"some_activity", "some_incompatible_activity", "pre_patch_activity",
             "post_patch_activity"}

VersionTypes ==
  /\ current \in 0..4 /\ version \in [Version!Workflows -> 0..4]
  /\ inbox \in [Version!Workflows -> Seq(Message)]
  /\ signals \in [Version!Workflows -> Seq(Message)]
  /\ history \in [Version!Workflows -> Seq(Activity)]
  /\ completed \in [Version!Workflows -> Nat]
  /\ marker \in [Version!Workflows -> {"none", "marker", "deprecated"}]
  /\ closed \subseteq Version!Workflows

\* The signals that a workflow has been sent, handled or not.
SentOf(handled, box) == handled \o (IF box = <<>> THEN <<>> ELSE Tail(box))
SentTo(w) == SentOf(signals[w], inbox[w])
Concluding(w) == Version!Concluded(SentTo(w))

\* A workflow begins when it has been started, on a version there is, and does not get
\* ahead of its history.
BegunInv(w) ==
  /\ inbox[w] = <<>> => version[w] = 0
  /\ inbox[w] # <<>> => current > 0
  /\ version[w] <= current /\ completed[w] <= Len(history[w])
  /\ version[w] = 0 => history[w] = <<>> /\ signals[w] = <<>> /\ marker[w] = "none"
  /\ w \in closed => version[w] > 0

\* The auto-upgrading workflow did one activity, at most, for a signal, and the marker tells
\* which.
AutoInv ==
  LET w == "AutoUpgrading"
      n == Len(history[w])
  IN /\ n <= Version!Asked(signals[w])
     /\ Version!Asked(signals[w]) <= Version!Asked(SentTo(w))
     /\ marker[w] \in {"none", "marker"} /\ (marker[w] = "marker" => current > 1)
     /\ \A i \in 1..n : history[w][i] = IF marker[w] = "marker" THEN "some_incompatible_activity"
                                        ELSE "some_activity"
     /\ w \in closed => Concluding(w) /\ n = Version!Asked(SentTo(w))

\* A pinned workflow has a part of what its version's class asks for.
PinnedActivities(v) ==
  IF v = 3 THEN <<"some_activity", "some_incompatible_activity">> ELSE <<"some_activity">>
PinnedInv(w) ==
  LET n == Len(history[w]) IN
  /\ marker[w] = "none" /\ version[w] < 4
  /\ n <= Len(PinnedActivities(version[w]))
  /\ \A i \in 1..n : history[w][i] = PinnedActivities(version[w])[i]
  /\ n > (IF version[w] = 3 THEN 1 ELSE 0) => Version!Concluded(signals[w])
  /\ w \in closed => n = Len(PinnedActivities(version[w]))

\* A workflow of patching/ begins at its stage of the README, did its activity at once, and
\* is seen by that stage and the next only.
Stage(w) == CASE w = "initial" -> 1 [] w = "patched" -> 2 [] w = "patch-deprecated" -> 3
              [] w = "patch-complete" -> 4
PatchInv(w) ==
  /\ inbox[w] # <<>> => current >= Stage(w)
  /\ version[w] > 0 =>
       /\ history[w] = IF w = "initial" THEN <<"pre_patch_activity">> ELSE <<"post_patch_activity">>
       /\ marker[w] = CASE w = "patched" -> "marker" [] w = "patch-deprecated" -> "deprecated"
                        [] OTHER -> "none"
  /\ inbox[w] # <<>> /\ version[w] = 0 => current = Stage(w)
  /\ inbox[w] # <<>> /\ w \notin closed => current <= Stage(w) + 1

\* The script has come to its p-th step.
At(s, p) == p \in 0..Len(s) /\ script = SubSeq(s, p + 1, Len(s))

\* n of the signals that app.py sends first are for activities: every other one.
AskedBy(p, n) ==
  /\ p <= 3 => n = 0
  /\ p \in 3..2 * Rounds + 3 => 2 * n \in {p - 3, p - 2}
  /\ p \in 2 * Rounds + 4..4 * Rounds + 4 => 2 * n \in {p - 4, p - 3}
  /\ p >= 4 * Rounds + 4 => n = 2 * Rounds

AppInv(p) ==
  /\ At(Version!app, p)
  /\ current = IF p = 0 THEN 0 ELSE IF p < 2 * Rounds + 4 THEN 1
               ELSE IF p < 4 * Rounds + 5 THEN 2 ELSE 3
  /\ inbox["AutoUpgrading"] # <<>> <=> p >= 2
  /\ inbox["Pinned"] # <<>> <=> p >= 3
  /\ inbox["Pinned2"] # <<>> <=> p >= 4 * Rounds + 6
  /\ \A w \in Version!Patching : inbox[w] = <<>>
  /\ AskedBy(p, Version!Asked(SentTo("AutoUpgrading")))
  /\ Concluding("AutoUpgrading") => p >= 4 * Rounds + 7

StagesInv(p) ==
  /\ At(Version!stages, p)
  /\ current = IF p = 0 THEN 0 ELSE IF p < 4 THEN 1 ELSE IF p < 9 THEN 2
               ELSE IF p < 14 THEN 3 ELSE 4
  /\ \A w \in Version!Versioned : inbox[w] = <<>>
  /\ inbox["initial"] # <<>> <=> p >= 2
  /\ inbox["patched"] # <<>> <=> p >= 5
  /\ inbox["patch-deprecated"] # <<>> <=> p >= 10
  /\ inbox["patch-complete"] # <<>> <=> p >= 15
  /\ p >= 3 => version["initial"] > 0
  /\ p >= 7 => version["patched"] > 0
  /\ p >= 12 => version["patch-deprecated"] > 0
  /\ p >= 17 => version["patch-complete"] > 0
  /\ p >= 8 => "initial" \in closed
  /\ p >= 13 => "patched" \in closed

VersionInv ==
  /\ VersionTypes /\ mismatched = {}
  /\ \A w \in Version!Workflows : BegunInv(w)
  /\ AutoInv /\ PinnedInv("Pinned") /\ PinnedInv("Pinned2")
  /\ \A w \in Version!Patching : PatchInv(w)
  /\ \E p \in Nat : AppInv(p) \/ StagesInv(p)
-----------------------------------------------------------------------------
(* Versioning: the scripts.                                                *)

Step == [do : {"current"}, version : 1..4]
          \cup [do : {"start", "result", "query"}, on : Version!Workflows]
          \cup [do : {"signal"}, on : Version!Workflows, signal : Message]

LEMMA ConcatIs ==
  ASSUME NEW S, NEW s \in Seq(S), NEW t \in Seq(S), NEW u, u = s \o t
  PROVE  /\ u \in Seq(S) /\ Len(u) = Len(s) + Len(t) /\ Len(s) \in Nat /\ Len(t) \in Nat
         /\ \A i \in 1..Len(s) : u[i] = s[i]
         /\ \A i \in 1..Len(t) : u[i + Len(s)] = t[i]
  OBVIOUS

LEMMA Parity ==
  ASSUME NEW n \in Nat
  PROVE  (2 * n) % 2 = 0 /\ (2 * n + 1) % 2 = 1
  OBVIOUS

\* What is left of a script after one step more.
LEMMA NextStep ==
  ASSUME NEW S, NEW s \in Seq(S), NEW p \in 0..Len(s), At(s, p), script # <<>>,
         script' = Tail(script)
  PROVE  p + 1 \in 1..Len(s) /\ Head(script) = s[p + 1] /\ At(s, p + 1)'
<1>1. p < Len(s) /\ Len(s) \in Nat
  BY DEF At
<1>2. Head(SubSeq(s, p + 1, Len(s))) = s[p + 1]
  BY <1>1
<1>3. Tail(SubSeq(s, p + 1, Len(s))) = SubSeq(s, p + 2, Len(s))
  BY <1>1
<1> QED
  BY <1>1, <1>2, <1>3 DEF At

\* The signals of a round go to the two workflows in turn.
LEMMA Advance ==
  ASSUME Version!VersioningAssumption
  PROVE  /\ Version!advance_workflows \in Seq(Step)
         /\ Len(Version!advance_workflows) = 2 * Rounds
         /\ \A i \in 1..2 * Rounds :
              Version!advance_workflows[i] =
                IF i % 2 = 1 THEN Version!Signal("AutoUpgrading", "do-activity")
                             ELSE Version!Signal("Pinned", "some-signal")
<1>1. 2 * Rounds \in Nat
  BY DEF Version!VersioningAssumption
<1>2. \A i \in 1..2 * Rounds : Version!advance_workflows[i] \in Step
  BY DEF Version!advance_workflows, Version!Signal, Step, Version!Workflows, Version!Versioned,
         Message
<1> QED
  BY <1>1, <1>2 DEF Version!advance_workflows

LEMMA AppSteps ==
  ASSUME Version!VersioningAssumption
  PROVE  /\ Version!app \in Seq(Step) /\ Len(Version!app) = 4 * Rounds + 12
         /\ Version!app[1] = Version!MakeCurrent(1)
         /\ Version!app[2] = Version!Start("AutoUpgrading")
         /\ Version!app[3] = Version!Start("Pinned")
         /\ \A i \in 1..2 * Rounds : Version!app[i + 3] = Version!advance_workflows[i]
         /\ Version!app[2 * Rounds + 4] = Version!MakeCurrent(2)
         /\ \A i \in 1..2 * Rounds :
              Version!app[i + 2 * Rounds + 4] = Version!advance_workflows[i]
         /\ Version!app[4 * Rounds + 5] = Version!MakeCurrent(3)
         /\ Version!app[4 * Rounds + 6] = Version!Start("Pinned2")
         /\ Version!app[4 * Rounds + 7] = Version!Signal("AutoUpgrading", "conclude")
         /\ Version!app[4 * Rounds + 8] = Version!Result("AutoUpgrading")
         /\ Version!app[4 * Rounds + 9] = Version!Signal("Pinned", "conclude")
         /\ Version!app[4 * Rounds + 10] = Version!Result("Pinned")
         /\ Version!app[4 * Rounds + 11] = Version!Signal("Pinned2", "conclude")
         /\ Version!app[4 * Rounds + 12] = Version!Result("Pinned2")
<1> DEFINE a == <<Version!MakeCurrent(1), Version!Start("AutoUpgrading"), Version!Start("Pinned")>>
           adv == Version!advance_workflows
           b == <<Version!MakeCurrent(2)>>
           c == <<Version!MakeCurrent(3), Version!Start("Pinned2")>>
           d1 == Version!Conclude("AutoUpgrading")
           d2 == Version!Conclude("Pinned")
           d3 == Version!Conclude("Pinned2")
           s1 == a \o adv
           s2 == s1 \o b
           s3 == s2 \o adv
           s4 == s3 \o c
           s5 == s4 \o d1
           s6 == s5 \o d2
           s7 == s6 \o d3
<1>1. /\ a \in Seq(Step) /\ Len(a) = 3 /\ a[1] = Version!MakeCurrent(1)
      /\ a[2] = Version!Start("AutoUpgrading") /\ a[3] = Version!Start("Pinned")
  BY DEF Version!MakeCurrent, Version!Start, Step, Version!Workflows, Version!Versioned
<1>2. b \in Seq(Step) /\ Len(b) = 1 /\ b[1] = Version!MakeCurrent(2)
  BY DEF Version!MakeCurrent, Step
<1>3. /\ c \in Seq(Step) /\ Len(c) = 2 /\ c[1] = Version!MakeCurrent(3)
      /\ c[2] = Version!Start("Pinned2")
  BY DEF Version!MakeCurrent, Version!Start, Step, Version!Workflows, Version!Versioned
<1>4a. /\ d1 \in Seq(Step) /\ Len(d1) = 2 /\ d1[1] = Version!Signal("AutoUpgrading", "conclude")
       /\ d1[2] = Version!Result("AutoUpgrading")
  BY DEF Version!Conclude, Version!Signal, Version!Result, Step, Version!Workflows,
         Version!Versioned, Message
<1>4b. /\ d2 \in Seq(Step) /\ Len(d2) = 2 /\ d2[1] = Version!Signal("Pinned", "conclude")
       /\ d2[2] = Version!Result("Pinned")
  BY DEF Version!Conclude, Version!Signal, Version!Result, Step, Version!Workflows,
         Version!Versioned, Message
<1>4c. /\ d3 \in Seq(Step) /\ Len(d3) = 2 /\ d3[1] = Version!Signal("Pinned2", "conclude")
       /\ d3[2] = Version!Result("Pinned2")
  BY DEF Version!Conclude, Version!Signal, Version!Result, Step, Version!Workflows,
         Version!Versioned, Message
<1>5. Version!app = s7
  BY DEF Version!app
<1>7. Rounds \in Nat /\ adv \in Seq(Step) /\ Len(adv) = 2 * Rounds
  BY Advance DEF Version!VersioningAssumption
<1>8a. s1 = a \o adv
  OBVIOUS
<1>8b. s2 = s1 \o b
  OBVIOUS
<1>8c. s3 = s2 \o adv
  OBVIOUS
<1>8d. s4 = s3 \o c
  OBVIOUS
<1>8e. s5 = s4 \o d1
  OBVIOUS
<1>8f. s6 = s5 \o d2
  OBVIOUS
<1>8g. s7 = s6 \o d3
  OBVIOUS
<1> HIDE DEF a, adv, b, c, d1, d2, d3, s1, s2, s3, s4, s5, s6, s7
<1>11. /\ s1 \in Seq(Step) /\ Len(s1) = 2 * Rounds + 3 /\ \A i \in 1..3 : s1[i] = a[i]
       /\ \A i \in 1..2 * Rounds : s1[i + 3] = adv[i]
  <2>1. a \in Seq(Step) /\ adv \in Seq(Step)
    BY <1>1, <1>7
  <2>2. /\ s1 \in Seq(Step) /\ Len(s1) = Len(a) + Len(adv)
        /\ \A i \in 1..Len(a) : s1[i] = a[i]
        /\ \A i \in 1..Len(adv) : s1[i + Len(a)] = adv[i]
    BY <2>1, <1>8a, ConcatIs
  <2> QED
    BY <2>2, <1>1, <1>7
<1>12. /\ s2 \in Seq(Step) /\ Len(s2) = 2 * Rounds + 4
       /\ \A i \in 1..2 * Rounds + 3 : s2[i] = s1[i]
       /\ s2[2 * Rounds + 4] = Version!MakeCurrent(2)
  <2>1. s1 \in Seq(Step) /\ b \in Seq(Step)
    BY <1>2, <1>7, <1>11
  <2>2. /\ s2 \in Seq(Step) /\ Len(s2) = Len(s1) + Len(b)
        /\ \A i \in 1..Len(s1) : s2[i] = s1[i]
        /\ \A i \in 1..Len(b) : s2[i + Len(s1)] = b[i]
    BY <2>1, <1>8b, ConcatIs
  <2> QED
    BY <2>2, <1>2, <1>7, <1>11
<1>13. /\ s3 \in Seq(Step) /\ Len(s3) = 4 * Rounds + 4
       /\ \A i \in 1..2 * Rounds + 4 : s3[i] = s2[i]
       /\ \A i \in 1..2 * Rounds : s3[i + 2 * Rounds + 4] = adv[i]
  <2>1. s2 \in Seq(Step) /\ adv \in Seq(Step)
    BY <1>7, <1>12
  <2>2. /\ s3 \in Seq(Step) /\ Len(s3) = Len(s2) + Len(adv)
        /\ \A i \in 1..Len(s2) : s3[i] = s2[i]
        /\ \A i \in 1..Len(adv) : s3[i + Len(s2)] = adv[i]
    BY <2>1, <1>8c, ConcatIs
  <2>3. /\ Len(s3) = 4 * Rounds + 4
        /\ \A i \in 1..2 * Rounds + 4 : s3[i] = s2[i]
    BY <2>2, <1>7, <1>12
  <2>4. ASSUME NEW i \in 1..2 * Rounds
        PROVE  s3[i + 2 * Rounds + 4] = adv[i]
    <3>1. i + 2 * Rounds + 4 = i + Len(s2)
      BY <1>7, <1>12
    <3> QED
      BY <2>2, <3>1, <1>7
  <2> QED
    BY <2>2, <2>3, <2>4
<1>14. /\ s4 \in Seq(Step) /\ Len(s4) = 4 * Rounds + 6
       /\ \A i \in 1..4 * Rounds + 4 : s4[i] = s3[i]
       /\ s4[4 * Rounds + 5] = Version!MakeCurrent(3)
       /\ s4[4 * Rounds + 6] = Version!Start("Pinned2")
  <2>1. s3 \in Seq(Step) /\ c \in Seq(Step)
    BY <1>3, <1>7, <1>13
  <2>2. /\ s4 \in Seq(Step) /\ Len(s4) = Len(s3) + Len(c)
        /\ \A i \in 1..Len(s3) : s4[i] = s3[i]
        /\ \A i \in 1..Len(c) : s4[i + Len(s3)] = c[i]
    BY <2>1, <1>8d, ConcatIs
  <2> QED
    BY <2>2, <1>3, <1>7, <1>13
<1>15. /\ s5 \in Seq(Step) /\ Len(s5) = 4 * Rounds + 8
       /\ \A i \in 1..4 * Rounds + 6 : s5[i] = s4[i]
       /\ s5[4 * Rounds + 7] = Version!Signal("AutoUpgrading", "conclude")
       /\ s5[4 * Rounds + 8] = Version!Result("AutoUpgrading")
  <2>1. s4 \in Seq(Step) /\ d1 \in Seq(Step)
    BY <1>4a, <1>7, <1>14
  <2>2. /\ s5 \in Seq(Step) /\ Len(s5) = Len(s4) + Len(d1)
        /\ \A i \in 1..Len(s4) : s5[i] = s4[i]
        /\ \A i \in 1..Len(d1) : s5[i + Len(s4)] = d1[i]
    BY <2>1, <1>8e, ConcatIs
  <2> QED
    BY <2>2, <1>4a, <1>7, <1>14
<1>16. /\ s6 \in Seq(Step) /\ Len(s6) = 4 * Rounds + 10
       /\ \A i \in 1..4 * Rounds + 8 : s6[i] = s5[i]
       /\ s6[4 * Rounds + 9] = Version!Signal("Pinned", "conclude")
       /\ s6[4 * Rounds + 10] = Version!Result("Pinned")
  <2>1. s5 \in Seq(Step) /\ d2 \in Seq(Step)
    BY <1>4b, <1>7, <1>15
  <2>2. /\ s6 \in Seq(Step) /\ Len(s6) = Len(s5) + Len(d2)
        /\ \A i \in 1..Len(s5) : s6[i] = s5[i]
        /\ \A i \in 1..Len(d2) : s6[i + Len(s5)] = d2[i]
    BY <2>1, <1>8f, ConcatIs
  <2> QED
    BY <2>2, <1>4b, <1>7, <1>15
<1>17. /\ s7 \in Seq(Step) /\ Len(s7) = 4 * Rounds + 12
       /\ \A i \in 1..4 * Rounds + 10 : s7[i] = s6[i]
       /\ s7[4 * Rounds + 11] = Version!Signal("Pinned2", "conclude")
       /\ s7[4 * Rounds + 12] = Version!Result("Pinned2")
  <2>1. s6 \in Seq(Step) /\ d3 \in Seq(Step)
    BY <1>4c, <1>7, <1>16
  <2>2. /\ s7 \in Seq(Step) /\ Len(s7) = Len(s6) + Len(d3)
        /\ \A i \in 1..Len(s6) : s7[i] = s6[i]
        /\ \A i \in 1..Len(d3) : s7[i + Len(s6)] = d3[i]
    BY <2>1, <1>8g, ConcatIs
  <2> QED
    BY <2>2, <1>4c, <1>7, <1>16
<1>18. \A i \in 1..4 * Rounds + 4 : s7[i] = s3[i]
  <2> TAKE i \in 1..4 * Rounds + 4
  <2>1. s7[i] = s6[i] /\ s6[i] = s5[i]
    BY <1>7, <1>16, <1>17
  <2>2. s5[i] = s4[i] /\ s4[i] = s3[i]
    BY <1>7, <1>14, <1>15
  <2> QED
    BY <2>1, <2>2
<1>19. /\ \A i \in 1..2 * Rounds + 3 : s7[i] = s1[i]
       /\ s7[2 * Rounds + 4] = s2[2 * Rounds + 4]
  <2>1. ASSUME NEW i \in 1..2 * Rounds + 4
        PROVE  s7[i] = s2[i]
    <3>1. i \in 1..4 * Rounds + 4
      BY <1>7
    <3> QED
      BY <3>1, <1>13, <1>18
  <2>2. ASSUME NEW i \in 1..2 * Rounds + 3
        PROVE  s7[i] = s1[i]
    <3>1. i \in 1..2 * Rounds + 4
      BY <1>7
    <3> QED
      BY <3>1, <2>1, <1>12
  <2>3. 2 * Rounds + 4 \in 1..2 * Rounds + 4
    BY <1>7
  <2> QED
    BY <2>1, <2>2, <2>3
<1>20. \A i \in 1..4 * Rounds + 6 : s7[i] = s4[i]
  <2> TAKE i \in 1..4 * Rounds + 6
  <2>1. i \in 1..4 * Rounds + 8 /\ i \in 1..4 * Rounds + 10
    BY <1>7
  <2> QED
    BY <2>1, <1>15, <1>16, <1>17
<1>21. \A i \in 1..4 * Rounds + 8 : s7[i] = s5[i]
  <2> TAKE i \in 1..4 * Rounds + 8
  <2>1. i \in 1..4 * Rounds + 10
    BY <1>7
  <2> QED
    BY <2>1, <1>16, <1>17
<1>22. /\ s7[1] = Version!MakeCurrent(1) /\ s7[2] = Version!Start("AutoUpgrading")
       /\ s7[3] = Version!Start("Pinned")
       /\ \A i \in 1..2 * Rounds : s7[i + 3] = adv[i]
  BY <1>1, <1>7, <1>11, <1>19
<1>23. \A i \in 1..2 * Rounds : s7[i + 2 * Rounds + 4] = adv[i]
  BY <1>7, <1>13, <1>18
<1>24. /\ s7[2 * Rounds + 4] = Version!MakeCurrent(2)
       /\ s7[4 * Rounds + 5] = Version!MakeCurrent(3)
       /\ s7[4 * Rounds + 6] = Version!Start("Pinned2")
  BY <1>7, <1>12, <1>14, <1>19, <1>20
<1>25. /\ s7[4 * Rounds + 7] = Version!Signal("AutoUpgrading", "conclude")
       /\ s7[4 * Rounds + 8] = Version!Result("AutoUpgrading")
  BY <1>7, <1>15, <1>21
<1>26. /\ s7[4 * Rounds + 9] = Version!Signal("Pinned", "conclude")
       /\ s7[4 * Rounds + 10] = Version!Result("Pinned")
  BY <1>7, <1>16, <1>17
<1> QED
  BY <1>5, <1>17, <1>22, <1>23, <1>24, <1>25, <1>26 DEF adv
-----------------------------------------------------------------------------
(* Versioning: signals.                                                    *)

LEMMA VersionCardinality == \A S : Version!Cardinality(S) = Cardinality(S)
  BY DEF Version!Cardinality, Cardinality

LEMMA AskedIs ==
  ASSUME NEW S, NEW T \in Seq(S)
  PROVE  /\ Version!Asked(T) = Cardinality({i \in 1..Len(T) : T[i] = "do-activity"})
         /\ IsFiniteSet({i \in 1..Len(T) : T[i] = "do-activity"}) /\ Version!Asked(T) \in Nat
<1> DEFINE asking == {i \in 1..Len(T) : T[i] = "do-activity"}
<1>1. Version!Asked(T) = Cardinality(asking)
  BY VersionCardinality DEF Version!Asked
<1>2. IsFiniteSet(1..Len(T))
  BY FS_Interval
<1>3. IsFiniteSet(asking)
  BY <1>2, FS_Subset
<1> QED
  BY <1>1, <1>3, FS_CardinalityType

LEMMA AskedNone == Version!Asked(<<>>) = 0
<1>1. 1..Len(<<>>) = {}
  OBVIOUS
<1>2. {i \in 1..Len(<<>>) : <<>>[i] = "do-activity"} = {}
  BY <1>1, Zenon
<1> QED
  BY <1>2, VersionCardinality, FS_EmptySet DEF Version!Asked

LEMMA AskedAppend ==
  ASSUME NEW S, NEW T \in Seq(S), NEW x \in S
  PROVE  Version!Asked(Append(T, x)) = IF x = "do-activity" THEN Version!Asked(T) + 1
                                       ELSE Version!Asked(T)
<1> DEFINE asking(U) == {i \in 1..Len(U) : U[i] = "do-activity"}
           more == Append(T, x)
<1>1. /\ Len(T) \in Nat /\ Len(more) = Len(T) + 1 /\ more[Len(T) + 1] = x /\ more \in Seq(S)
      /\ \A i \in 1..Len(T) : more[i] = T[i]
  OBVIOUS
<1>2. /\ Version!Asked(T) = Cardinality(asking(T)) /\ IsFiniteSet(asking(T))
      /\ Version!Asked(more) = Cardinality(asking(more))
  BY <1>1, AskedIs
<1> HIDE DEF more
<1>3. CASE x = "do-activity"
  <2>1. asking(more) = asking(T) \cup {Len(T) + 1} /\ Len(T) + 1 \notin asking(T)
    BY <1>1, <1>3
  <2> HIDE DEF asking
  <2> QED
    BY <1>2, <1>3, <2>1, FS_AddElement DEF more
<1>4. CASE x # "do-activity"
  <2>1. asking(more) = asking(T)
    BY <1>1, <1>4
  <2> HIDE DEF asking
  <2> QED
    BY <1>2, <1>4, <2>1 DEF more
<1> QED
  BY <1>3, <1>4

LEMMA ConcludedAppend ==
  ASSUME NEW S, NEW T \in Seq(S), NEW x \in S
  PROVE  Version!Concluded(Append(T, x)) <=> Version!Concluded(T) \/ x = "conclude"
  BY DEF Version!Concluded, Version!Contains

LEMMA ConcludedNone == ~Version!Concluded(<<>>)
  BY DEF Version!Concluded, Version!Contains

LEMMA ConcludedMore ==
  ASSUME NEW S, NEW T \in Seq(S), NEW U \in Seq(S), Version!Concluded(T)
  PROVE  Version!Concluded(T \o U)
  BY DEF Version!Concluded, Version!Contains

LEMMA AppendToConcat ==
  ASSUME NEW S, NEW s \in Seq(S), NEW t \in Seq(S), NEW x \in S
  PROVE  s \o Append(t, x) = Append(s \o t, x)
<1>1. /\ Append(t, x) = t \o <<x>> /\ <<x>> \in Seq(S) /\ s \o t \in Seq(S)
      /\ Append(s \o t, x) = (s \o t) \o <<x>>
  BY AppendIsConcat
<1> QED
  BY <1>1, ConcatAssociative

\* What has been sent is more by one signal when one is sent, and is all handled after a task.
LEMMA SentMore ==
  ASSUME NEW S, NEW handled \in Seq(S), NEW box \in Seq(S), NEW x \in S
  PROVE  /\ SentOf(handled, box) \in Seq(S)
         /\ box = <<>> => SentOf(handled, box) = handled
                          /\ SentOf(handled, Append(box, x)) = SentOf(handled, box)
         /\ box # <<>> => SentOf(handled, Append(box, x)) = Append(SentOf(handled, box), x)
<1>1. CASE box = <<>>
  BY <1>1 DEF SentOf
<1>2. CASE box # <<>>
  <2>1. Tail(Append(box, x)) = Append(Tail(box), x) /\ Append(box, x) # <<>> /\ Tail(box) \in Seq(S)
    BY <1>2
  <2>2. handled \o Append(Tail(box), x) = Append(handled \o Tail(box), x)
    BY <2>1, AppendToConcat
  <2>3. SentOf(handled, Append(box, x)) = handled \o Append(Tail(box), x)
    BY <2>1, Zenon DEF SentOf
  <2>4. SentOf(handled, box) = handled \o Tail(box) /\ handled \o Tail(box) \in Seq(S)
    BY <1>2, <2>1 DEF SentOf
  <2> QED
    BY <1>2, <2>2, <2>3, <2>4
<1> QED
  BY <1>1, <1>2

LEMMA SentHandled ==
  ASSUME NEW S, NEW handled \in Seq(S), NEW box \in Seq(S), box # <<>>
  PROVE  SentOf(handled, box) = handled \o Tail(box) /\ handled \o Tail(box) \in Seq(S)
  BY DEF SentOf

LEMMA SentStarted ==
  ASSUME NEW S, NEW T \in Seq(S), NEW x
  PROVE  SentOf(T, <<x>>) = T
<1>1. <<x>> # <<>> /\ Tail(<<x>>) = <<>>
  OBVIOUS
<1>2. T \o <<>> = T
  BY ConcatEmptySeq
<1> QED
  BY <1>1, <1>2 DEF SentOf

\* h is the step of app.py after its first p.
AppStep(p, h) ==
  \/ p = 0 /\ h = Version!MakeCurrent(1)
  \/ p = 1 /\ h = Version!Start("AutoUpgrading")
  \/ p = 2 /\ h = Version!Start("Pinned")
  \/ p \in 3..2 * Rounds + 2 /\ \E k \in Nat :
       \/ p = 2 * k + 3 /\ h = Version!Signal("AutoUpgrading", "do-activity")
       \/ p = 2 * k + 4 /\ h = Version!Signal("Pinned", "some-signal")
  \/ p = 2 * Rounds + 3 /\ h = Version!MakeCurrent(2)
  \/ p \in 2 * Rounds + 4..4 * Rounds + 3 /\ \E k \in Nat :
       \/ p = 2 * k + 4 /\ h = Version!Signal("AutoUpgrading", "do-activity")
       \/ p = 2 * k + 5 /\ h = Version!Signal("Pinned", "some-signal")
  \/ p = 4 * Rounds + 4 /\ h = Version!MakeCurrent(3)
  \/ p = 4 * Rounds + 5 /\ h = Version!Start("Pinned2")
  \/ p = 4 * Rounds + 6 /\ h = Version!Signal("AutoUpgrading", "conclude")
  \/ p = 4 * Rounds + 7 /\ h = Version!Result("AutoUpgrading")
  \/ p = 4 * Rounds + 8 /\ h = Version!Signal("Pinned", "conclude")
  \/ p = 4 * Rounds + 9 /\ h = Version!Result("Pinned")
  \/ p = 4 * Rounds + 10 /\ h = Version!Signal("Pinned2", "conclude")
  \/ p = 4 * Rounds + 11 /\ h = Version!Result("Pinned2")

LEMMA AdvanceStep ==
  ASSUME Version!VersioningAssumption, NEW i \in 1..2 * Rounds
  PROVE  \E k \in Nat :
           \/ i = 2 * k + 1
              /\ Version!advance_workflows[i] = Version!Signal("AutoUpgrading", "do-activity")
           \/ i = 2 * k + 2
              /\ Version!advance_workflows[i] = Version!Signal("Pinned", "some-signal")
<1>1. PICK k \in Nat : i = 2 * k + 1 \/ i = 2 * k + 2
  <2>1. 2 * Rounds \in Nat /\ i \in Nat /\ i >= 1
    BY DEF Version!VersioningAssumption
  <2>2. (i - 1) \div 2 \in Nat /\ i - 1 \in {2 * ((i - 1) \div 2), 2 * ((i - 1) \div 2) + 1}
    BY <2>1
  <2> QED
    BY <2>1, <2>2
<1>2. CASE i = 2 * k + 1
  BY <1>1, <1>2, Parity, Advance
<1>3. CASE i = 2 * k + 2
  <2>1. i = 2 * (k + 1) /\ k + 1 \in Nat
    BY <1>1, <1>3
  <2>2. i % 2 = 0
    BY <2>1, Parity
  <2> QED
    BY <1>1, <1>3, <2>2, Advance
<1> QED
  BY <1>1, <1>2, <1>3

LEMMA AppStepAt ==
  ASSUME Version!VersioningAssumption, NEW p \in 0..4 * Rounds + 11
  PROVE  AppStep(p, Version!app[p + 1])
<1>1. Rounds \in Nat /\ p \in Nat /\ p <= 4 * Rounds + 11
  BY DEF Version!VersioningAssumption
<1>2. CASE p \in 3..2 * Rounds + 2
  <2> DEFINE i == p - 2
  <2>1. i \in 1..2 * Rounds /\ p + 1 = i + 3
    BY <1>1, <1>2
  <2>2. Version!app[p + 1] = Version!advance_workflows[i]
    BY <2>1, AppSteps
  <2>3. PICK k \in Nat :
           \/ i = 2 * k + 1
              /\ Version!advance_workflows[i] = Version!Signal("AutoUpgrading", "do-activity")
           \/ i = 2 * k + 2
              /\ Version!advance_workflows[i] = Version!Signal("Pinned", "some-signal")
    BY <2>1, AdvanceStep
  <2>4. (i = 2 * k + 1 => p = 2 * k + 3) /\ (i = 2 * k + 2 => p = 2 * k + 4)
    BY <1>1, <2>3
  <2> HIDE DEF i
  <2> QED
    BY <1>2, <2>2, <2>3, <2>4, Zenon DEF AppStep
<1>3. CASE p \in 2 * Rounds + 4..4 * Rounds + 3
  <2> DEFINE i == p - 2 * Rounds - 3
  <2>1. i \in 1..2 * Rounds /\ p + 1 = i + 2 * Rounds + 4
    BY <1>1, <1>3
  <2>2. Version!app[p + 1] = Version!advance_workflows[i]
    BY <2>1, AppSteps
  <2>3. PICK k \in Nat :
           \/ i = 2 * k + 1
              /\ Version!advance_workflows[i] = Version!Signal("AutoUpgrading", "do-activity")
           \/ i = 2 * k + 2
              /\ Version!advance_workflows[i] = Version!Signal("Pinned", "some-signal")
    BY <2>1, AdvanceStep
  <2>4. /\ k + Rounds \in Nat
        /\ i = 2 * k + 1 => p = 2 * (k + Rounds) + 4
        /\ i = 2 * k + 2 => p = 2 * (k + Rounds) + 5
    BY <1>1, <2>3
  <2> HIDE DEF i
  <2> QED
    BY <1>3, <2>2, <2>3, <2>4, Zenon DEF AppStep
<1>4. CASE p \notin 3..2 * Rounds + 2 /\ p \notin 2 * Rounds + 4..4 * Rounds + 3
  <2>1. \/ p \in {0, 1, 2, 2 * Rounds + 3, 4 * Rounds + 4, 4 * Rounds + 5, 4 * Rounds + 6}
        \/ p \in {4 * Rounds + 7, 4 * Rounds + 8, 4 * Rounds + 9, 4 * Rounds + 10, 4 * Rounds + 11}
    BY <1>1, <1>4
  <2>2. p = 0 => p + 1 = 1 /\ AppStep(p, Version!app[p + 1])
    <3>1. p = 0 => p + 1 = 1
      BY <1>1
    <3> QED
      BY <3>1, AppSteps, Zenon DEF AppStep
  <2>3. p = 1 => p + 1 = 2 /\ AppStep(p, Version!app[p + 1])
    <3>1. p = 1 => p + 1 = 2
      BY <1>1
    <3> QED
      BY <3>1, AppSteps, Zenon DEF AppStep
  <2>4. p = 2 => p + 1 = 3 /\ AppStep(p, Version!app[p + 1])
    <3>1. p = 2 => p + 1 = 3
      BY <1>1
    <3> QED
      BY <3>1, AppSteps, Zenon DEF AppStep
  <2>5. p = 2 * Rounds + 3 => p + 1 = 2 * Rounds + 4 /\ AppStep(p, Version!app[p + 1])
    <3>1. p = 2 * Rounds + 3 => p + 1 = 2 * Rounds + 4
      BY <1>1
    <3> QED
      BY <3>1, AppSteps, Zenon DEF AppStep
  <2>6. p = 4 * Rounds + 4 => p + 1 = 4 * Rounds + 5 /\ AppStep(p, Version!app[p + 1])
    <3>1. p = 4 * Rounds + 4 => p + 1 = 4 * Rounds + 5
      BY <1>1
    <3> QED
      BY <3>1, AppSteps, Zenon DEF AppStep
  <2>7. p = 4 * Rounds + 5 => p + 1 = 4 * Rounds + 6 /\ AppStep(p, Version!app[p + 1])
    <3>1. p = 4 * Rounds + 5 => p + 1 = 4 * Rounds + 6
      BY <1>1
    <3> QED
      BY <3>1, AppSteps, Zenon DEF AppStep
  <2>8. p = 4 * Rounds + 6 => p + 1 = 4 * Rounds + 7 /\ AppStep(p, Version!app[p + 1])
    <3>1. p = 4 * Rounds + 6 => p + 1 = 4 * Rounds + 7
      BY <1>1
    <3> QED
      BY <3>1, AppSteps, Zenon DEF AppStep
  <2>9. p = 4 * Rounds + 7 => p + 1 = 4 * Rounds + 8 /\ AppStep(p, Version!app[p + 1])
    <3>1. p = 4 * Rounds + 7 => p + 1 = 4 * Rounds + 8
      BY <1>1
    <3> QED
      BY <3>1, AppSteps, Zenon DEF AppStep
  <2>10. p = 4 * Rounds + 8 => p + 1 = 4 * Rounds + 9 /\ AppStep(p, Version!app[p + 1])
    <3>1. p = 4 * Rounds + 8 => p + 1 = 4 * Rounds + 9
      BY <1>1
    <3> QED
      BY <3>1, AppSteps, Zenon DEF AppStep
  <2>11. p = 4 * Rounds + 9 => p + 1 = 4 * Rounds + 10 /\ AppStep(p, Version!app[p + 1])
    <3>1. p = 4 * Rounds + 9 => p + 1 = 4 * Rounds + 10
      BY <1>1
    <3> QED
      BY <3>1, AppSteps, Zenon DEF AppStep
  <2>12. p = 4 * Rounds + 10 => p + 1 = 4 * Rounds + 11 /\ AppStep(p, Version!app[p + 1])
    <3>1. p = 4 * Rounds + 10 => p + 1 = 4 * Rounds + 11
      BY <1>1
    <3> QED
      BY <3>1, AppSteps, Zenon DEF AppStep
  <2>13. p = 4 * Rounds + 11 => p + 1 = 4 * Rounds + 12 /\ AppStep(p, Version!app[p + 1])
    <3>1. p = 4 * Rounds + 11 => p + 1 = 4 * Rounds + 12
      BY <1>1
    <3> QED
      BY <3>1, AppSteps, Zenon DEF AppStep
  <2> QED
    BY <2>1, <2>2, <2>3, <2>4, <2>5, <2>6, <2>7, <2>8, <2>9, <2>10, <2>11, <2>12, <2>13
<1> QED
  BY <1>2, <1>3, <1>4

\* h is the step of the README of patching/ after its first p.
StagesStep(p, h) ==
  \/ p = 0 /\ h = Version!MakeCurrent(1)
  \/ p = 1 /\ h = Version!Start("initial")
  \/ p \in {2, 5} /\ h = Version!Query("initial")
  \/ p = 3 /\ h = Version!MakeCurrent(2)
  \/ p = 4 /\ h = Version!Start("patched")
  \/ p \in {6, 10} /\ h = Version!Query("patched")
  \/ p = 7 /\ h = Version!Result("initial")
  \/ p = 8 /\ h = Version!MakeCurrent(3)
  \/ p = 9 /\ h = Version!Start("patch-deprecated")
  \/ p \in {11, 15} /\ h = Version!Query("patch-deprecated")
  \/ p = 12 /\ h = Version!Result("patched")
  \/ p = 13 /\ h = Version!MakeCurrent(4)
  \/ p = 14 /\ h = Version!Start("patch-complete")
  \/ p = 16 /\ h = Version!Query("patch-complete")

LEMMA StagesSteps ==
  /\ Version!stages \in Seq(Step) /\ Len(Version!stages) = 17
  /\ \A p \in 0..16 : StagesStep(p, Version!stages[p + 1])
<1> DEFINE s == Version!stages
<1>1. s \in Seq(Step) /\ Len(s) = 17
  BY DEF Version!stages, Version!MakeCurrent, Version!Start, Version!Query, Version!Result, Step,
         Version!Workflows, Version!Versioned, Version!Patching
<1>2. /\ s[1] = Version!MakeCurrent(1) /\ s[2] = Version!Start("initial")
      /\ s[3] = Version!Query("initial") /\ s[4] = Version!MakeCurrent(2)
      /\ s[5] = Version!Start("patched") /\ s[6] = Version!Query("initial")
      /\ s[7] = Version!Query("patched") /\ s[8] = Version!Result("initial")
      /\ s[9] = Version!MakeCurrent(3) /\ s[10] = Version!Start("patch-deprecated")
      /\ s[11] = Version!Query("patched") /\ s[12] = Version!Query("patch-deprecated")
      /\ s[13] = Version!Result("patched") /\ s[14] = Version!MakeCurrent(4)
      /\ s[15] = Version!Start("patch-complete") /\ s[16] = Version!Query("patch-deprecated")
      /\ s[17] = Version!Query("patch-complete")
  BY DEF Version!stages
<1> HIDE DEF s
<1>3. ASSUME NEW p \in 0..16 PROVE StagesStep(p, s[p + 1])
  <2>1. p \in {0, 1, 2, 3, 4, 5, 6, 7, 8, 9, 10, 11, 12, 13, 14, 15, 16}
    OBVIOUS
  <2> QED
    BY <1>2, <2>1 DEF StagesStep
<1> QED
  BY <1>1, <1>3 DEF s

\* The steps of each kind, and where they are.
LEMMA StepKinds ==
  /\ \A v : Version!MakeCurrent(v).do = "current" /\ Version!MakeCurrent(v).version = v
  /\ \A w : /\ Version!Start(w).do = "start" /\ Version!Start(w).on = w
            /\ Version!Result(w).do = "result" /\ Version!Result(w).on = w
            /\ Version!Query(w).do = "query" /\ Version!Query(w).on = w
  /\ \A w, m : /\ Version!Signal(w, m).do = "signal" /\ Version!Signal(w, m).on = w
               /\ Version!Signal(w, m).signal = m
  BY DEF Version!MakeCurrent, Version!Start, Version!Result, Version!Query, Version!Signal

LEMMA AppKinds ==
  ASSUME Version!VersioningAssumption, NEW p \in Nat, NEW h, AppStep(p, h)
  PROVE  /\ h.do = "current" => \/ p = 0 /\ h.version = 1
                                \/ p = 2 * Rounds + 3 /\ h.version = 2
                                \/ p = 4 * Rounds + 4 /\ h.version = 3
         /\ h.do = "result" => p \in {4 * Rounds + 7, 4 * Rounds + 9, 4 * Rounds + 11}
         /\ h.do # "query"
         /\ h.do = "start" => \/ p = 1 /\ h.on = "AutoUpgrading"
                              \/ p = 2 /\ h.on = "Pinned"
                              \/ p = 4 * Rounds + 5 /\ h.on = "Pinned2"
         /\ h.do = "signal" =>
              \/ p \in 3..2 * Rounds + 2 /\ \E k \in Nat :
                   \/ p = 2 * k + 3 /\ h.on = "AutoUpgrading" /\ h.signal = "do-activity"
                   \/ p = 2 * k + 4 /\ h.on = "Pinned" /\ h.signal = "some-signal"
              \/ p \in 2 * Rounds + 4..4 * Rounds + 3 /\ \E k \in Nat :
                   \/ p = 2 * k + 4 /\ h.on = "AutoUpgrading" /\ h.signal = "do-activity"
                   \/ p = 2 * k + 5 /\ h.on = "Pinned" /\ h.signal = "some-signal"
              \/ p = 4 * Rounds + 6 /\ h.on = "AutoUpgrading" /\ h.signal = "conclude"
              \/ p = 4 * Rounds + 8 /\ h.on = "Pinned" /\ h.signal = "conclude"
              \/ p = 4 * Rounds + 10 /\ h.on = "Pinned2" /\ h.signal = "conclude"
<1>4. h.do = "current" => \/ p = 0 /\ h.version = 1
                          \/ p = 2 * Rounds + 3 /\ h.version = 2
                          \/ p = 4 * Rounds + 4 /\ h.version = 3
  BY StepKinds DEF AppStep
<1>5. h.do = "result" => p \in {4 * Rounds + 7, 4 * Rounds + 9, 4 * Rounds + 11}
  BY StepKinds DEF AppStep
<1>6. h.do # "query"
  BY StepKinds DEF AppStep
<1>7. h.do = "start" => \/ p = 1 /\ h.on = "AutoUpgrading"
                        \/ p = 2 /\ h.on = "Pinned"
                        \/ p = 4 * Rounds + 5 /\ h.on = "Pinned2"
  BY StepKinds DEF AppStep
<1>8. h.do = "signal" =>
        \/ p \in 3..2 * Rounds + 2 /\ \E k \in Nat :
             \/ p = 2 * k + 3 /\ h.on = "AutoUpgrading" /\ h.signal = "do-activity"
             \/ p = 2 * k + 4 /\ h.on = "Pinned" /\ h.signal = "some-signal"
        \/ p \in 2 * Rounds + 4..4 * Rounds + 3 /\ \E k \in Nat :
             \/ p = 2 * k + 4 /\ h.on = "AutoUpgrading" /\ h.signal = "do-activity"
             \/ p = 2 * k + 5 /\ h.on = "Pinned" /\ h.signal = "some-signal"
        \/ p = 4 * Rounds + 6 /\ h.on = "AutoUpgrading" /\ h.signal = "conclude"
        \/ p = 4 * Rounds + 8 /\ h.on = "Pinned" /\ h.signal = "conclude"
        \/ p = 4 * Rounds + 10 /\ h.on = "Pinned2" /\ h.signal = "conclude"
  BY StepKinds DEF AppStep
<1> QED
  BY <1>4, <1>5, <1>6, <1>7, <1>8

LEMMA StagesKinds ==
  ASSUME NEW p \in Nat, NEW h, StagesStep(p, h)
  PROVE  /\ h.do = "current" => \/ p = 0 /\ h.version = 1
                                \/ p = 3 /\ h.version = 2
                                \/ p = 8 /\ h.version = 3
                                \/ p = 13 /\ h.version = 4
         /\ h.do = "result" => \/ p = 7 /\ h.on = "initial"
                               \/ p = 12 /\ h.on = "patched"
         /\ h.do = "query" => \/ p \in {2, 5} /\ h.on = "initial"
                              \/ p \in {6, 10} /\ h.on = "patched"
                              \/ p \in {11, 15} /\ h.on = "patch-deprecated"
                              \/ p = 16 /\ h.on = "patch-complete"
         /\ h.do = "start" => \/ p = 1 /\ h.on = "initial"
                              \/ p = 4 /\ h.on = "patched"
                              \/ p = 9 /\ h.on = "patch-deprecated"
                              \/ p = 14 /\ h.on = "patch-complete"
         /\ h.do # "signal"
  BY StepKinds DEF StagesStep

LEMMA AppNext ==
  ASSUME Version!VersioningAssumption, NEW p \in Nat, NEW k, At(Version!app, p), Version!Do(k)
  PROVE  /\ p \in 0..4 * Rounds + 11 /\ AppStep(p, Head(script)) /\ Head(script).do = k
         /\ At(Version!app, p + 1)'
<1>1. /\ p + 1 \in 1..Len(Version!app) /\ Head(script) = Version!app[p + 1]
      /\ At(Version!app, p + 1)'
  BY AppSteps, NextStep DEF At, Version!Do
<1>2. p \in 0..4 * Rounds + 11
  BY <1>1, AppSteps DEF Version!VersioningAssumption
<1> QED
  BY <1>1, <1>2, AppStepAt DEF Version!Do

LEMMA StagesNext ==
  ASSUME NEW p \in Nat, NEW k, At(Version!stages, p), Version!Do(k)
  PROVE  /\ p \in 0..16 /\ StagesStep(p, Head(script)) /\ Head(script).do = k
         /\ At(Version!stages, p + 1)'
<1>1. /\ p + 1 \in 1..Len(Version!stages) /\ Head(script) = Version!stages[p + 1]
      /\ At(Version!stages, p + 1)'
  BY StagesSteps, NextStep DEF At, Version!Do
<1>2. p \in 0..16
  BY <1>1, StagesSteps
<1> QED
  BY <1>1, <1>2, StagesSteps DEF Version!Do

LEMMA VersionInit == Version!VersioningAssumption /\ Version!Init => VersionInv
<1> SUFFICES ASSUME Version!VersioningAssumption, Version!Init PROVE VersionInv
  OBVIOUS
<1>1. VersionTypes
  BY DEF VersionTypes, Version!Init
<1>2. /\ \A w \in Version!Workflows : BegunInv(w)
      /\ \A w \in Version!Patching : PatchInv(w)
  BY DEF BegunInv, PatchInv, Version!Init, Version!Workflows
<1>3. /\ "AutoUpgrading" \in Version!Workflows /\ "Pinned" \in Version!Workflows
      /\ "Pinned2" \in Version!Workflows /\ Version!Patching \subseteq Version!Workflows
      /\ Version!Versioned \subseteq Version!Workflows
  BY DEF Version!Workflows, Version!Versioned
<1>4. \A w \in Version!Workflows :
        /\ SentTo(w) = <<>> /\ signals[w] = <<>> /\ history[w] = <<>> /\ marker[w] = "none"
        /\ version[w] = 0 /\ w \notin closed /\ inbox[w] = <<>> /\ current = 0
  BY DEF SentTo, SentOf, Version!Init
<1>5. Len(<<>>) = 0 /\ 1..0 = {} /\ 0 \in Nat
  OBVIOUS
<1>6. AutoInv
  BY <1>3, <1>4, <1>5, AskedNone DEF AutoInv
<1>7. PinnedInv("Pinned") /\ PinnedInv("Pinned2")
  BY <1>3, <1>4, <1>5 DEF PinnedInv, PinnedActivities
<1>8. script = Version!app => AppInv(0)
  <2>1. SubSeq(Version!app, 1, Len(Version!app)) = Version!app /\ Len(Version!app) \in Nat
    BY AppSteps, SubSeqFull DEF Version!VersioningAssumption
  <2>2. script = Version!app => At(Version!app, 0)
    BY <2>1 DEF At
  <2>3. AskedBy(0, Version!Asked(SentTo("AutoUpgrading")))
    BY <1>3, <1>4, AskedNone DEF AskedBy, Version!VersioningAssumption
  <2> QED
    BY <1>3, <1>4, <2>2, <2>3, ConcludedNone DEF AppInv, Concluding, Version!VersioningAssumption
<1>9. script = Version!stages => StagesInv(0)
  <2>1. SubSeq(Version!stages, 1, Len(Version!stages)) = Version!stages
    BY StagesSteps, SubSeqFull
  <2>2. script = Version!stages => At(Version!stages, 0)
    BY <2>1, StagesSteps DEF At
  <2> QED
    BY <1>3, <1>4, <2>2 DEF StagesInv, Version!Patching
<1>10. \E p \in Nat : AppInv(p) \/ StagesInv(p)
  BY <1>5, <1>8, <1>9 DEF Version!Init
<1> QED
  BY <1>1, <1>2, <1>6, <1>7, <1>10 DEF VersionInv, Version!Init
-----------------------------------------------------------------------------
(* Versioning: the steps of the scripts.                                   *)

LEMMA AskedByMore ==
  ASSUME Version!VersioningAssumption, NEW p \in Nat, NEW n \in Nat, AskedBy(p, n), NEW k \in Nat,
         \/ p \in 3..2 * Rounds + 2 /\ p = 2 * k + 3
         \/ p \in 2 * Rounds + 4..4 * Rounds + 3 /\ p = 2 * k + 4
  PROVE  AskedBy(p + 1, n + 1)
  BY DEF AskedBy, Version!VersioningAssumption

LEMMA AskedByOther ==
  ASSUME Version!VersioningAssumption, NEW p \in Nat, NEW n \in Nat, AskedBy(p, n), NEW k \in Nat,
         \/ p \in 3..2 * Rounds + 2 /\ p = 2 * k + 4
         \/ p \in 2 * Rounds + 4..4 * Rounds + 3 /\ p = 2 * k + 5
  PROVE  AskedBy(p + 1, n)
  BY DEF AskedBy, Version!VersioningAssumption

LEMMA AskedByKept ==
  ASSUME Version!VersioningAssumption, NEW p \in Nat, NEW n \in Nat, AskedBy(p, n),
         p \in {0, 1, 2, 2 * Rounds + 3} \/ p >= 4 * Rounds + 4
  PROVE  AskedBy(p + 1, n)
  BY DEF AskedBy, Version!VersioningAssumption

LEMMA WorkflowNames ==
  /\ \A w \in Version!Patching :
       w \in Version!Workflows /\ w \notin {"AutoUpgrading", "Pinned", "Pinned2"}
  /\ \A w \in Version!Versioned :
       w \in Version!Workflows /\ w \notin Version!Patching
  /\ Version!Versioned = {"AutoUpgrading", "Pinned", "Pinned2"}
  /\ Version!Patching = {"initial", "patched", "patch-deprecated", "patch-complete"}
  /\ Version!Workflows = Version!Versioned \cup Version!Patching
  BY DEF Version!Workflows, Version!Versioned, Version!Patching

LEMMA SentTypes ==
  ASSUME VersionTypes
  PROVE  /\ \A w \in Version!Workflows : SentTo(w) \in Seq(Message)
         /\ Version!Asked(SentTo("AutoUpgrading")) \in Nat
<1>1. ASSUME NEW w \in Version!Workflows PROVE SentTo(w) \in Seq(Message)
  <2>1. signals[w] \in Seq(Message) /\ inbox[w] \in Seq(Message)
    BY DEF VersionTypes
  <2>2. inbox[w] # <<>> => Tail(inbox[w]) \in Seq(Message)
    BY <2>1
  <2> QED
    BY <2>1, <2>2 DEF SentTo, SentOf
<1> QED
  BY <1>1, WorkflowNames, AskedIs

\* The invariant again, where nothing has happened to the workflows.
LEMMA WorkflowsKept ==
  ASSUME VersionInv, UNCHANGED Version!workflows, current' \in 1..4, current <= current',
         \A w \in Version!Patching : inbox[w] # <<>> /\ current' # current =>
           version[w] > 0 /\ (w \notin closed => current' <= Stage(w) + 1),
         \E p \in Nat : (AppInv(p) \/ StagesInv(p))'
  PROVE  VersionInv'
<1> USE DEF Version!workflows
<1>1. VersionTypes' /\ (mismatched = {})'
  BY DEF VersionInv, VersionTypes
<1>2. current \in 0..4 /\ current' \in 0..4 /\ \A w \in Version!Workflows : version[w] \in 0..4
  BY DEF VersionInv, VersionTypes
<1>3. ASSUME NEW w \in Version!Workflows PROVE BegunInv(w)'
  BY <1>2 DEF VersionInv, BegunInv
<1>4. AutoInv'
  BY <1>2 DEF VersionInv, AutoInv, Concluding, SentTo
<1>5. PinnedInv("Pinned")' /\ PinnedInv("Pinned2")'
  BY DEF VersionInv, PinnedInv, PinnedActivities
<1>6. ASSUME NEW w \in Version!Patching PROVE PatchInv(w)'
  <2>1. Stage(w) \in 1..4
    BY WorkflowNames DEF Stage
  <2>2. PatchInv(w)
    BY DEF VersionInv
  <2>3. version[w] \in 0..4
    BY <1>2, WorkflowNames
  <2> QED
    BY <1>2, <2>1, <2>2, <2>3 DEF PatchInv
<1> QED
  BY <1>1, <1>3, <1>4, <1>5, <1>6 DEF VersionInv

LEMMA MakeCurrentInv ==
  ASSUME Version!VersioningAssumption, VersionInv, Version!wait_for_worker_and_make_current
  PROVE  VersionInv'
<1> USE DEF Version!wait_for_worker_and_make_current
<1>1. VersionTypes /\ UNCHANGED Version!workflows /\ Version!Do("current")
  BY DEF VersionInv
<1>2. PICK p \in Nat : AppInv(p) \/ StagesInv(p)
  BY DEF VersionInv
<1>3. /\ SentTo("AutoUpgrading")' = SentTo("AutoUpgrading")
      /\ Concluding("AutoUpgrading")' <=> Concluding("AutoUpgrading")
  BY <1>1 DEF SentTo, Concluding, Version!workflows
<1>4. CASE AppInv(p)
  <2>1. /\ p \in 0..4 * Rounds + 11 /\ At(Version!app, p + 1)'
        /\ \/ p = 0 /\ current' = 1
           \/ p = 2 * Rounds + 3 /\ current' = 2
           \/ p = 4 * Rounds + 4 /\ current' = 3
    BY <1>1, <1>4, AppNext, AppKinds DEF AppInv
  <2>2. current' \in 1..4 /\ current <= current'
    BY <1>4, <2>1 DEF AppInv, Version!VersioningAssumption
  <2>3. AskedBy(p + 1, Version!Asked(SentTo("AutoUpgrading")))
    <3>1. /\ AskedBy(p, Version!Asked(SentTo("AutoUpgrading")))
          /\ Version!Asked(SentTo("AutoUpgrading")) \in Nat
      BY <1>1, <1>4, SentTypes DEF AppInv
    <3>2. p \in {0, 1, 2, 2 * Rounds + 3} \/ p >= 4 * Rounds + 4
      BY <2>1 DEF Version!VersioningAssumption
    <3> QED
      BY <3>1, <3>2, AskedByKept
  <2>4. AppInv(p + 1)'
    <3>1. current' = IF p + 1 = 0 THEN 0 ELSE IF p + 1 < 2 * Rounds + 4 THEN 1
                     ELSE IF p + 1 < 4 * Rounds + 5 THEN 2 ELSE 3
      BY <2>1 DEF Version!VersioningAssumption
    <3>2. /\ p + 1 >= 2 <=> p >= 2
          /\ p + 1 >= 3 <=> p >= 3
          /\ p + 1 >= 4 * Rounds + 6 <=> p >= 4 * Rounds + 6
          /\ p + 1 >= 4 * Rounds + 7 <=> p >= 4 * Rounds + 7
      BY <2>1 DEF Version!VersioningAssumption
    <3>3. inbox' = inbox
      BY <1>1 DEF Version!workflows
    <3>4. AskedBy(p + 1, Version!Asked(SentTo("AutoUpgrading")'))
      BY <1>3, <2>3
    <3> QED
      BY <1>3, <1>4, <2>1, <3>1, <3>2, <3>3, <3>4 DEF AppInv
  <2>5. p + 1 \in Nat
    OBVIOUS
  <2> QED
    BY <1>1, <1>4, <2>2, <2>4, <2>5, WorkflowsKept DEF AppInv
<1>5. CASE StagesInv(p)
  <2>1. /\ p \in 0..16 /\ At(Version!stages, p + 1)'
        /\ \/ p = 0 /\ current' = 1
           \/ p = 3 /\ current' = 2
           \/ p = 8 /\ current' = 3
           \/ p = 13 /\ current' = 4
    BY <1>1, <1>5, StagesNext, StagesKinds DEF StagesInv
  <2>2. current' \in 1..4 /\ current <= current'
    BY <1>5, <2>1 DEF StagesInv
  <2>3. StagesInv(p + 1)' /\ p + 1 \in Nat
    BY <1>1, <1>5, <2>1 DEF StagesInv, Version!workflows
  <2>4. \A w \in Version!Patching : inbox[w] # <<>> =>
          version[w] > 0 /\ (w \notin closed => current' <= Stage(w) + 1)
    BY <1>5, <2>1, WorkflowNames DEF StagesInv, Stage
  <2> QED
    BY <1>1, <2>2, <2>3, <2>4, WorkflowsKept
<1> QED
  BY <1>2, <1>4, <1>5

LEMMA GetResultInv ==
  ASSUME Version!VersioningAssumption, VersionInv, Version!GetResult
  PROVE  VersionInv'
<1> USE DEF Version!GetResult
<1>1. /\ VersionTypes /\ UNCHANGED <<current, Version!workflows>> /\ Version!Do("result")
      /\ Head(script).on \in closed
  BY DEF VersionInv
<1>2. PICK p \in Nat : AppInv(p) \/ StagesInv(p)
  BY DEF VersionInv
<1>3. /\ SentTo("AutoUpgrading")' = SentTo("AutoUpgrading")
      /\ Concluding("AutoUpgrading")' <=> Concluding("AutoUpgrading")
  BY <1>1 DEF SentTo, Concluding, Version!workflows
<1>4. CASE AppInv(p)
  <2>1. /\ p \in 0..4 * Rounds + 11 /\ At(Version!app, p + 1)'
        /\ p \in {4 * Rounds + 7, 4 * Rounds + 9, 4 * Rounds + 11}
    BY <1>1, <1>4, AppNext, AppKinds DEF AppInv
  <2>2. current' \in 1..4 /\ current <= current'
    BY <1>1, <1>4, <2>1 DEF AppInv, Version!VersioningAssumption
  <2>3. AskedBy(p + 1, Version!Asked(SentTo("AutoUpgrading")))
    <3>1. /\ AskedBy(p, Version!Asked(SentTo("AutoUpgrading")))
          /\ Version!Asked(SentTo("AutoUpgrading")) \in Nat
      BY <1>1, <1>4, SentTypes DEF AppInv
    <3>2. p \in {0, 1, 2, 2 * Rounds + 3} \/ p >= 4 * Rounds + 4
      BY <2>1 DEF Version!VersioningAssumption
    <3> QED
      BY <3>1, <3>2, AskedByKept
  <2>4. AppInv(p + 1)'
    BY <1>1, <1>3, <1>4, <2>1, <2>3 DEF AppInv, Version!workflows, Version!VersioningAssumption
  <2>5. p + 1 \in Nat
    OBVIOUS
  <2> QED
    BY <1>1, <2>2, <2>4, <2>5, WorkflowsKept
<1>5. CASE StagesInv(p)
  <2>1. /\ p \in 0..16 /\ At(Version!stages, p + 1)'
        /\ \/ p = 7 /\ "initial" \in closed
           \/ p = 12 /\ "patched" \in closed
    BY <1>1, <1>5, StagesNext, StagesKinds DEF StagesInv
  <2>2. current' \in 1..4 /\ current <= current'
    BY <1>1, <1>5, <2>1 DEF StagesInv
  <2>3. StagesInv(p + 1)' /\ p + 1 \in Nat
    BY <1>1, <1>5, <2>1 DEF StagesInv, Version!workflows
  <2> QED
    BY <1>1, <2>2, <2>3, WorkflowsKept
<1> QED
  BY <1>2, <1>4, <1>5

LEMMA PrefixIs ==
  ASSUME NEW S, NEW s \in Seq(S), NEW t \in Seq(S), Len(s) <= Len(t),
         \A i \in 1..Len(s) : s[i] = t[i]
  PROVE  Version!IsPrefix(s, t)
<1>1. Len(s) \in Nat /\ Len(t) \in Nat
  OBVIOUS
<1>2. SubSeq(s, 1, Len(s)) = SubSeq(t, 1, Len(s))
  BY <1>1
<1> QED
  BY <1>2 DEF Version!IsPrefix

\* A workflow of patching/ asks for the activity that its stage does, seen by that stage or
\* the next.
PatchActivity(w) == IF w = "initial" THEN "pre_patch_activity" ELSE "post_patch_activity"

LEMMA PatchReplays ==
  ASSUME VersionTypes, NEW w \in Version!Patching, BegunInv(w), PatchInv(w), inbox[w] # <<>>,
         current <= Stage(w) + 1, NEW T
  PROVE  /\ Version!AllAsked(w, T) = <<PatchActivity(w)>> /\ Version!Replays(w, T)
         /\ Version!VersionOf(w) = current
         /\ Version!Marker(w, T) = CASE w = "patched" -> "marker"
                                     [] w = "patch-deprecated" -> "deprecated" [] OTHER -> "none"
<1>1. /\ w \in Version!Workflows /\ w \notin {"AutoUpgrading", "Pinned", "Pinned2"}
      /\ w \in {"initial", "patched", "patch-deprecated", "patch-complete"}
  BY WorkflowNames
<1>2. /\ current \in 1..4 /\ version[w] \in 0..4 /\ marker[w] \in {"none", "marker", "deprecated"}
  BY <1>1 DEF VersionTypes, BegunInv
<1>3. Version!VersionOf(w) = current
  BY <1>1 DEF Version!VersionOf, Version!Moves
<1>4. /\ current \in {Stage(w), Stage(w) + 1} /\ Stage(w) \in 1..4
      /\ version[w] = 0 => current = Stage(w) /\ history[w] = <<>> /\ marker[w] = "none"
      /\ version[w] # 0 => history[w] = <<PatchActivity(w)>>
  BY <1>1, <1>2 DEF PatchInv, BegunInv, Stage, PatchActivity
<1>5. version[w] # 0 => marker[w] = CASE w = "patched" -> "marker"
                          [] w = "patch-deprecated" -> "deprecated" [] OTHER -> "none"
  BY <1>1, <1>2 DEF PatchInv
<1>6. w = "patched" => Version!Answer(w)
  BY <1>4, <1>5 DEF Version!Answer
<1>7. w = "initial" /\ current = 2 => ~Version!Answer(w)
  BY <1>4, <1>5 DEF Version!Answer, Stage
<1>8. Version!AllAsked(w, T) = <<PatchActivity(w)>>
  BY <1>1, <1>2, <1>3, <1>4, <1>6, <1>7
     DEF Version!AllAsked, Version!Code, Stage, PatchActivity, Version!workflow_1_initial,
         Version!workflow_2_patched, Version!workflow_3_patch_deprecated,
         Version!workflow_4_patch_complete
<1>9. /\ w = "initial" /\ current = 1 => Version!Calls(w, current) = "none"
      /\ w = "initial" /\ current = 2 => Version!Calls(w, current) = "patched"
      /\ w = "patched" /\ current = 2 => Version!Calls(w, current) = "patched"
      /\ w = "patched" /\ current = 3 => Version!Calls(w, current) = "deprecate_patch"
      /\ w = "patch-deprecated" /\ current = 3 => Version!Calls(w, current) = "deprecate_patch"
      /\ w = "patch-complete" /\ current = 4 => Version!Calls(w, current) = "none"
  BY DEF Version!Calls
<1>10. marker[w] = "marker" => Version!Calls(w, current) # "none"
  BY <1>1, <1>4, <1>5, <1>9 DEF Stage
<1>11. Version!IsPrefix(history[w], Version!AllAsked(w, T))
  <2>1. history[w] \in Seq(Activity) /\ <<PatchActivity(w)>> \in Seq(Activity)
    BY <1>1 DEF VersionTypes, PatchActivity, Activity
  <2>2. CASE version[w] = 0
    <3>1. Len(history[w]) = 0 /\ Len(<<PatchActivity(w)>>) = 1
      BY <1>4, <2>2
    <3>2. Len(history[w]) <= Len(<<PatchActivity(w)>>) /\ 1..Len(history[w]) = {}
      BY <3>1
    <3> QED
      BY <1>8, <2>1, <3>2, PrefixIs
  <2>3. CASE version[w] # 0
    BY <1>4, <1>8, <2>1, <2>3, PrefixIs
  <2> QED
    BY <2>2, <2>3
<1>12. Version!Replays(w, T)
  BY <1>3, <1>10, <1>11 DEF Version!Replays
<1>13. Version!Marker(w, T) = CASE w = "patched" -> "marker"
                                [] w = "patch-deprecated" -> "deprecated" [] OTHER -> "none"
  <2>1. Version!AllAsked(w, T) # <<>>
    BY <1>8
  <2>2. CASE version[w] # 0 /\ w \in {"patched", "patch-deprecated"}
    BY <1>5, <2>2 DEF Version!Marker
  <2>3. CASE version[w] # 0 /\ w \in {"initial", "patch-complete"}
    <3>1. marker[w] = "none"
      BY <1>5, <2>3
    <3>2. \/ Version!Calls(w, current) = "none"
          \/ Version!Calls(w, current) = "patched" /\ ~Version!Answer(w)
      BY <1>2, <1>4, <1>7, <1>9, <2>3 DEF Stage
    <3> QED
      BY <1>3, <2>1, <2>3, <3>1, <3>2 DEF Version!Marker
  <2>4. CASE version[w] = 0
    BY <1>1, <1>3, <1>4, <1>6, <1>9, <2>1, <2>4 DEF Version!Marker, Stage
  <2> QED
    BY <1>1, <2>2, <2>3, <2>4
<1> QED
  BY <1>3, <1>8, <1>12, <1>13

LEMMA AskQueryInv ==
  ASSUME Version!VersioningAssumption, VersionInv, Version!AskQuery
  PROVE  VersionInv'
<1> DEFINE w == Head(script).on
<1>1. /\ VersionTypes /\ Version!Do("query") /\ version[w] > 0
      /\ mismatched' = IF Version!Replays(w, signals[w]) THEN mismatched ELSE mismatched \cup {w}
      /\ UNCHANGED <<current, version, inbox, signals, history, completed, marker, closed>>
  BY DEF VersionInv, Version!AskQuery
<1>2. PICK p \in Nat : AppInv(p) \/ StagesInv(p)
  BY DEF VersionInv
<1>3. StagesInv(p)
  <2>1. At(Version!app, p) => FALSE
    BY <1>1, AppNext, AppKinds
  <2> QED
    BY <1>2, <2>1 DEF AppInv
<1>4. /\ p \in 0..16 /\ At(Version!stages, p + 1)'
      /\ \/ p \in {2, 5} /\ w = "initial"
         \/ p \in {6, 10} /\ w = "patched"
         \/ p \in {11, 15} /\ w = "patch-deprecated"
         \/ p = 16 /\ w = "patch-complete"
  BY <1>1, <1>3, StagesNext, StagesKinds DEF StagesInv
<1> HIDE DEF w
<1>5. w \in Version!Patching /\ w \in Version!Workflows
  BY <1>4, WorkflowNames
<1>6. current <= Stage(w) + 1 /\ inbox[w] # <<>>
  BY <1>3, <1>4 DEF StagesInv, Stage
<1>7. Version!Replays(w, signals[w])
  BY <1>1, <1>5, <1>6, PatchReplays DEF VersionInv
<1>8. UNCHANGED <<current, Version!workflows>>
  BY <1>1, <1>7 DEF Version!workflows
<1>9. StagesInv(p + 1)' /\ p + 1 \in Nat
  BY <1>1, <1>3, <1>4 DEF StagesInv
<1>10. current' \in 1..4 /\ current <= current'
  BY <1>1, <1>3, <1>4 DEF StagesInv
<1> QED
  BY <1>8, <1>9, <1>10, WorkflowsKept

\* What is sent, and to whom.
Sending(h) == IF h.do = "start" THEN "started" ELSE h.signal

LEMMA SentFrame ==
  ASSUME VersionTypes, NEW w \in Version!Workflows, NEW m \in Message,
         inbox' = [inbox EXCEPT ![w] = Append(@, m)],
         UNCHANGED <<current, version, signals, history, completed, marker, closed>>
  PROVE  /\ VersionTypes' /\ inbox'[w] = Append(inbox[w], m) /\ inbox'[w] # <<>>
         /\ \A v \in Version!Workflows : v # w => inbox'[v] = inbox[v]
<1>1. inbox[w] \in Seq(Message) /\ inbox \in [Version!Workflows -> Seq(Message)]
  BY DEF VersionTypes
<1>2. Append(inbox[w], m) \in Seq(Message) /\ Append(inbox[w], m) # <<>>
  BY <1>1
<1>3. inbox' \in [Version!Workflows -> Seq(Message)]
  BY <1>1, <1>2
<1>4. VersionTypes'
  BY <1>3 DEF VersionTypes
<1> QED
  BY <1>1, <1>2, <1>4

LEMMA SendInv ==
  ASSUME Version!VersioningAssumption, VersionInv, Version!Send
  PROVE  VersionInv'
<1> DEFINE w == Head(script).on
           m == Sending(Head(script))
<1>1. /\ VersionTypes /\ (Version!Do("start") \/ Version!Do("signal"))
      /\ inbox' = [inbox EXCEPT ![w] = Append(@, m)]
      /\ UNCHANGED <<current, version, signals, history, completed, marker, closed, mismatched>>
  BY DEF VersionInv, Version!Send, Sending
<1>2. PICK p \in Nat : AppInv(p) \/ StagesInv(p)
  BY DEF VersionInv
<1> DEFINE sent == SentTo("AutoUpgrading")
           n == Version!Asked(sent)
\* Where the script is, what it sends and what that does to the counts of its place.
<1>3. CASE AppInv(p)
  <2>1. PICK h : h = Head(script)
    OBVIOUS
  <2>2. /\ p \in 0..4 * Rounds + 11 /\ AppStep(p, h) /\ At(Version!app, p + 1)'
        /\ h.do \in {"start", "signal"}
    BY <1>1, <1>3, <2>1, AppNext DEF AppInv
  <2>3. \/ p = 1 /\ w = "AutoUpgrading" /\ m = "started"
        \/ p = 2 /\ w = "Pinned" /\ m = "started"
        \/ p = 4 * Rounds + 5 /\ w = "Pinned2" /\ m = "started"
        \/ p \in 3..2 * Rounds + 2 /\ \E k \in Nat :
             \/ p = 2 * k + 3 /\ w = "AutoUpgrading" /\ m = "do-activity"
             \/ p = 2 * k + 4 /\ w = "Pinned" /\ m = "some-signal"
        \/ p \in 2 * Rounds + 4..4 * Rounds + 3 /\ \E k \in Nat :
             \/ p = 2 * k + 4 /\ w = "AutoUpgrading" /\ m = "do-activity"
             \/ p = 2 * k + 5 /\ w = "Pinned" /\ m = "some-signal"
        \/ p = 4 * Rounds + 6 /\ w = "AutoUpgrading" /\ m = "conclude"
        \/ p = 4 * Rounds + 8 /\ w = "Pinned" /\ m = "conclude"
        \/ p = 4 * Rounds + 10 /\ w = "Pinned2" /\ m = "conclude"
    BY <2>1, <2>2, AppKinds DEF Sending
  <2> HIDE DEF w, m
  <2>4. w \in Version!Versioned /\ w \in Version!Workflows /\ m \in Message
    BY <2>3, WorkflowNames DEF Message
  <2>5. VersionTypes'
    BY <1>1, <2>4, SentFrame
  <2>6. /\ inbox'[w] = Append(inbox[w], m) /\ inbox'[w] # <<>>
        /\ \A v \in Version!Workflows : v # w => inbox'[v] = inbox[v]
    BY <1>1, <2>4, SentFrame
  <2>7. /\ sent \in Seq(Message) /\ n \in Nat /\ AskedBy(p, n)
        /\ Version!Concluded(sent) => p >= 4 * Rounds + 7
    BY <1>1, <1>3, SentTypes, WorkflowNames DEF AppInv, Concluding
  <2>8. w # "AutoUpgrading" => sent' = sent
    BY <1>1, <2>6, WorkflowNames DEF SentTo
  <2>9. w = "AutoUpgrading" => sent' = IF m = "started" THEN sent ELSE Append(sent, m)
    <3>1. w = "AutoUpgrading" => (inbox[w] = <<>> <=> m = "started")
      BY <1>3, <2>3 DEF AppInv, Version!VersioningAssumption
    <3>2. signals[w] \in Seq(Message) /\ inbox[w] \in Seq(Message)
      BY <1>1, <2>4 DEF VersionTypes
    <3>3. /\ inbox[w] = <<>> =>
               SentOf(signals[w], Append(inbox[w], m)) = SentOf(signals[w], inbox[w])
          /\ inbox[w] # <<>> =>
               SentOf(signals[w], Append(inbox[w], m)) = Append(SentOf(signals[w], inbox[w]), m)
      BY <2>4, <3>2, SentMore
    <3>4. w = "AutoUpgrading" => sent' = SentOf(signals[w], Append(inbox[w], m))
      BY <1>1, <2>6 DEF SentTo
    <3>5. w = "AutoUpgrading" => sent = SentOf(signals[w], inbox[w])
      BY DEF SentTo
    <3> HIDE DEF sent
    <3> QED
      BY <3>1, <3>3, <3>4, <3>5
  <2> HIDE DEF sent
  <2>10. /\ m = "do-activity" /\ w = "AutoUpgrading" => n' = n + 1
         /\ ~(m = "do-activity" /\ w = "AutoUpgrading") => n' = n
    BY <2>4, <2>7, <2>8, <2>9, AskedAppend
  <2>11. Version!Concluded(sent)' =>
           Version!Concluded(sent) \/ (m = "conclude" /\ w = "AutoUpgrading")
    BY <2>4, <2>7, <2>8, <2>9, ConcludedAppend
  <2> HIDE DEF n
  <2>12. AskedBy(p + 1, n')
    <3>1. CASE m = "do-activity" /\ w = "AutoUpgrading"
      <4>1. PICK k \in Nat :
              \/ p \in 3..2 * Rounds + 2 /\ p = 2 * k + 3
              \/ p \in 2 * Rounds + 4..4 * Rounds + 3 /\ p = 2 * k + 4
        BY <2>3, <3>1
      <4> QED
        BY <2>7, <2>10, <3>1, <4>1, AskedByMore
    <3>2. CASE ~(m = "do-activity" /\ w = "AutoUpgrading")
      <4>1. CASE p \in {0, 1, 2, 2 * Rounds + 3} \/ p >= 4 * Rounds + 4
        BY <2>7, <2>10, <3>2, <4>1, AskedByKept
      <4>2. CASE ~(p \in {0, 1, 2, 2 * Rounds + 3} \/ p >= 4 * Rounds + 4)
        <5>1. PICK k \in Nat :
                \/ p \in 3..2 * Rounds + 2 /\ p = 2 * k + 4
                \/ p \in 2 * Rounds + 4..4 * Rounds + 3 /\ p = 2 * k + 5
          BY <2>3, <3>2, <4>2 DEF Version!VersioningAssumption
        <5> QED
          BY <2>7, <2>10, <3>2, <5>1, AskedByOther
      <4> QED
        BY <4>1, <4>2
    <3> QED
      BY <3>1, <3>2
  <2>13. current > 0 /\ (w = "AutoUpgrading" => "AutoUpgrading" \notin closed)
    <3>1. "AutoUpgrading" \in closed => p >= 4 * Rounds + 7
      BY <1>3 DEF VersionInv, AutoInv, AppInv
    <3> QED
      BY <1>3, <2>3, <3>1 DEF AppInv, Version!VersioningAssumption
  <2>14. AppInv(p + 1)' /\ p + 1 \in Nat
    <3>1. current' = IF p + 1 = 0 THEN 0 ELSE IF p + 1 < 2 * Rounds + 4 THEN 1
                     ELSE IF p + 1 < 4 * Rounds + 5 THEN 2 ELSE 3
      BY <1>1, <1>3, <2>3 DEF AppInv, Version!VersioningAssumption
    <3>2. inbox'["AutoUpgrading"] # <<>> <=> p + 1 >= 2
      BY <1>3, <2>3, <2>6, WorkflowNames DEF AppInv, Version!VersioningAssumption
    <3>3. inbox'["Pinned"] # <<>> <=> p + 1 >= 3
      BY <1>3, <2>3, <2>6, WorkflowNames DEF AppInv, Version!VersioningAssumption
    <3>4. inbox'["Pinned2"] # <<>> <=> p + 1 >= 4 * Rounds + 6
      BY <1>3, <2>3, <2>6, WorkflowNames DEF AppInv, Version!VersioningAssumption
    <3>5. \A v \in Version!Patching : inbox'[v] = <<>>
      BY <1>3, <2>4, <2>6, WorkflowNames DEF AppInv
    <3>6. Concluding("AutoUpgrading")' => p + 1 >= 4 * Rounds + 7
      BY <2>3, <2>7, <2>11 DEF Concluding, sent, Version!VersioningAssumption
    <3> QED
      BY <2>2, <2>12, <3>1, <3>2, <3>3, <3>4, <3>5, <3>6 DEF AppInv, n, sent
  <2>15. \A v \in Version!Workflows : BegunInv(v)'
    BY <1>1, <2>6, <2>13 DEF VersionInv, BegunInv
  <2>16. AutoInv'
    <3>1. Version!Asked(signals["AutoUpgrading"]) \in Nat
      BY <1>1, AskedIs, WorkflowNames DEF VersionTypes
    <3>2. Version!Asked(signals["AutoUpgrading"]) <= n /\ n \in Nat /\ n' \in Nat /\ n' >= n
      BY <2>7, <2>10 DEF VersionInv, AutoInv, n, sent
    <3>3. "AutoUpgrading" \in closed => n' = n /\ Version!Concluded(sent)'
      BY <2>8, <2>10, <2>13 DEF VersionInv, AutoInv, Concluding, sent
    <3> QED
      BY <1>1, <3>1, <3>2, <3>3 DEF VersionInv, AutoInv, Concluding, n, sent
  <2>17. PinnedInv("Pinned")' /\ PinnedInv("Pinned2")'
    BY <1>1 DEF VersionInv, PinnedInv, PinnedActivities
  <2>18. \A v \in Version!Patching : PatchInv(v)'
    <3>1. \A v \in Version!Patching : inbox'[v] = inbox[v]
      BY <2>4, <2>6, WorkflowNames
    <3> QED
      BY <1>1, <3>1 DEF VersionInv, PatchInv
  <2> QED
    BY <1>1, <2>5, <2>14, <2>15, <2>16, <2>17, <2>18 DEF VersionInv
<1>4. CASE StagesInv(p)
  <2>1. PICK h : h = Head(script)
    OBVIOUS
  <2>2. /\ p \in 0..16 /\ StagesStep(p, h) /\ At(Version!stages, p + 1)'
        /\ h.do \in {"start", "signal"}
    BY <1>1, <1>4, <2>1, StagesNext DEF StagesInv
  <2>3. /\ m = "started"
        /\ \/ p = 1 /\ w = "initial"
           \/ p = 4 /\ w = "patched"
           \/ p = 9 /\ w = "patch-deprecated"
           \/ p = 14 /\ w = "patch-complete"
    BY <2>1, <2>2, StagesKinds DEF Sending
  <2> HIDE DEF w, m
  <2>4. w \in Version!Patching /\ w \in Version!Workflows /\ m \in Message
    BY <2>3, WorkflowNames DEF Message
  <2>5. VersionTypes'
    BY <1>1, <2>4, SentFrame
  <2>6. /\ inbox'[w] = Append(inbox[w], m) /\ inbox'[w] # <<>>
        /\ \A v \in Version!Workflows : v # w => inbox'[v] = inbox[v]
    BY <1>1, <2>4, SentFrame
  <2>7. sent' = sent
    BY <1>1, <2>4, <2>6, WorkflowNames DEF SentTo
  <2>8. inbox[w] = <<>> /\ current = Stage(w) /\ current > 0
    BY <1>4, <2>3 DEF StagesInv, Stage
  <2>9. StagesInv(p + 1)' /\ p + 1 \in Nat
    <3>1. current' = IF p + 1 = 0 THEN 0 ELSE IF p + 1 < 4 THEN 1 ELSE IF p + 1 < 9 THEN 2
                     ELSE IF p + 1 < 14 THEN 3 ELSE 4
      BY <1>1, <1>4, <2>3 DEF StagesInv
    <3>2. \A v \in Version!Versioned : inbox'[v] = <<>>
      BY <1>4, <2>4, <2>6, WorkflowNames DEF StagesInv
    <3>3. /\ inbox'["initial"] # <<>> <=> p + 1 >= 2
          /\ inbox'["patched"] # <<>> <=> p + 1 >= 5
      BY <1>4, <2>3, <2>6, WorkflowNames DEF StagesInv
    <3>4. /\ inbox'["patch-deprecated"] # <<>> <=> p + 1 >= 10
          /\ inbox'["patch-complete"] # <<>> <=> p + 1 >= 15
      BY <1>4, <2>3, <2>6, WorkflowNames DEF StagesInv
    <3> QED
      BY <1>1, <1>4, <2>2, <2>3, <3>1, <3>2, <3>3, <3>4 DEF StagesInv
  <2>10. \A v \in Version!Workflows : BegunInv(v)'
    BY <1>1, <2>6, <2>8 DEF VersionInv, BegunInv
  <2>11. AutoInv'
    BY <1>1, <2>7 DEF VersionInv, AutoInv, Concluding
  <2>12. PinnedInv("Pinned")' /\ PinnedInv("Pinned2")'
    BY <1>1 DEF VersionInv, PinnedInv, PinnedActivities
  <2>13. ASSUME NEW v \in Version!Patching PROVE PatchInv(v)'
    <3>1. CASE v = w
      <4>1. version[w] = 0 /\ Stage(w) \in 1..4
        BY <2>4, <2>8, WorkflowNames DEF VersionInv, BegunInv, Stage
      <4> QED
        BY <1>1, <2>8, <3>1, <4>1 DEF PatchInv
    <3>2. CASE v # w
      BY <1>1, <2>6, <3>2, WorkflowNames DEF VersionInv, PatchInv
    <3> QED
      BY <3>1, <3>2
  <2> QED
    BY <1>1, <2>5, <2>9, <2>10, <2>11, <2>12, <2>13 DEF VersionInv
<1> QED
  BY <1>2, <1>3, <1>4
-----------------------------------------------------------------------------
(* Versioning: replays.                                                    *)

\* The code of the auto-upgrading workflow asks for one activity each time, which is the one
\* of its history and of the marker that it has then.
LEMMA AutoReplays ==
  ASSUME VersionInv, NEW w, w = "AutoUpgrading", inbox[w] # <<>>, NEW T, T = SentTo(w),
         NEW all, all = Version!AllAsked(w, T)
  PROVE  /\ all \in Seq(Activity) /\ Len(all) = Version!Asked(T)
         /\ \A i \in 1..Len(all) :
              all[i] = IF Version!Marker(w, T) = "marker" THEN "some_incompatible_activity"
                       ELSE "some_activity"
         /\ Version!Replays(w, T) /\ Version!Marker(w, T) \in {"none", "marker"}
         /\ Version!Marker(w, T) = "marker" => current > 1
<1> DEFINE n == Version!Asked(T)
           X == IF current # 1 /\ Version!Answer(w) THEN "some_incompatible_activity"
                ELSE "some_activity"
<1>1. /\ w \in Version!Workflows /\ VersionTypes /\ AutoInv /\ BegunInv(w)
  BY WorkflowNames DEF VersionInv
<1>2. /\ current \in 1..4 /\ version[w] \in 0..4 /\ history[w] \in Seq(Activity)
      /\ marker[w] \in {"none", "marker"} /\ (marker[w] = "marker" => current > 1)
      /\ Len(history[w]) \in Nat /\ signals[w] \in Seq(Message)
  BY <1>1 DEF VersionTypes, BegunInv, AutoInv
<1>3. n \in Nat /\ T \in Seq(Message) /\ Version!Asked(signals[w]) \in Nat
  BY <1>1, <1>2, SentTypes, AskedIs
<1>4. Version!VersionOf(w) = current
  BY DEF Version!VersionOf, Version!Moves
<1>5. all = [i \in 1..n |-> X]
  <2>1. all = Version!Code(w, current, T, Version!Answer(w))
    BY <1>4 DEF Version!AllAsked
  <2>2. /\ current = 1 => all = Version!AutoUpgradingWorkflowV1(T, Version!Answer(w))
        /\ current # 1 => all = Version!AutoUpgradingWorkflowV1b(T, Version!Answer(w))
    BY <2>1, WorkflowNames DEF Version!Code
  <2>3. /\ Version!AutoUpgradingWorkflowV1(T, Version!Answer(w)) = [i \in 1..n |-> "some_activity"]
        /\ Version!AutoUpgradingWorkflowV1b(T, Version!Answer(w)) =
             [i \in 1..n |-> IF Version!Answer(w) THEN "some_incompatible_activity"
                             ELSE "some_activity"]
    BY Zenon DEF Version!AutoUpgradingWorkflowV1, Version!AutoUpgradingWorkflowV1b, Version!Repeat
  <2> HIDE DEF n
  <2> QED
    BY <2>2, <2>3
<1> HIDE DEF n
<1>6. X \in Activity
  BY DEF Activity
<1>7. all \in Seq(Activity) /\ Len(all) = n /\ \A i \in 1..n : all[i] = X
  BY <1>3, <1>5, <1>6
<1>8. Version!Calls(w, current) = IF current = 1 THEN "none" ELSE "patched"
  BY DEF Version!Calls
<1>10. /\ n = 0 => Version!Marker(w, T) = marker[w]
       /\ n # 0 => Version!Marker(w, T) = IF marker[w] # "none" THEN marker[w]
                                          ELSE IF current # 1 /\ Version!Answer(w) THEN "marker"
                                          ELSE "none"
  <2>1. n = 0 <=> all = <<>>
    BY <1>7
  <2> QED
    BY <1>2, <1>4, <1>8, <2>1 DEF Version!Marker
<1>11. marker[w] = "marker" => Version!Answer(w) /\ current # 1
  BY <1>2 DEF Version!Answer
<1>12. n # 0 => X = IF Version!Marker(w, T) = "marker" THEN "some_incompatible_activity"
                    ELSE "some_activity"
  BY <1>2, <1>10, <1>11
<1>13. \A i \in 1..Len(all) : all[i] = IF Version!Marker(w, T) = "marker"
                                       THEN "some_incompatible_activity" ELSE "some_activity"
  BY <1>3, <1>7, <1>12
<1>14. Version!Marker(w, T) \in {"none", "marker"} /\ (Version!Marker(w, T) = "marker" => current > 1)
  BY <1>2, <1>10
<1>15. Len(history[w]) <= Len(all)
  BY <1>1, <1>2, <1>3, <1>7 DEF AutoInv, n
<1>16. \A i \in 1..Len(history[w]) : history[w][i] = all[i]
  <2> TAKE i \in 1..Len(history[w])
  <2>1. i \in 1..n
    BY <1>2, <1>3, <1>7, <1>15
  <2>2. history[w] # <<>>
    OBVIOUS
  <2>3. marker[w] = "none" => ~Version!Answer(w)
    BY <2>2 DEF Version!Answer
  <2>4. history[w][i] = IF marker[w] = "marker" THEN "some_incompatible_activity"
                        ELSE "some_activity"
    BY <1>1 DEF AutoInv
  <2> QED
    BY <1>2, <1>7, <1>11, <2>1, <2>3, <2>4
<1>17. Version!IsPrefix(history[w], all)
  BY <1>2, <1>7, <1>15, <1>16, PrefixIs
<1>18. Version!Replays(w, T)
  BY <1>2, <1>4, <1>8, <1>17 DEF Version!Replays
<1> QED
  BY <1>7, <1>13, <1>14, <1>18 DEF n

LEMMA PairOf ==
  ASSUME NEW S, NEW a \in S, NEW b \in S
  PROVE  <<a>> \o <<b>> = <<a, b>>
<1> DEFINE s == <<a>>
           t == <<b>>
           u == s \o t
           v == <<a, b>>
<1>1. /\ s \in Seq(S) /\ Len(s) = 1 /\ s[1] = a
      /\ t \in Seq(S) /\ Len(t) = 1 /\ t[1] = b
      /\ v \in Seq(S) /\ Len(v) = 2 /\ v[1] = a /\ v[2] = b
  OBVIOUS
<1>2. u = s \o t /\ s \in Seq(S) /\ t \in Seq(S)
  OBVIOUS
<1> HIDE DEF s, t, u, v
<1>3. /\ u \in Seq(S) /\ Len(u) = Len(s) + Len(t)
      /\ \A i \in 1..Len(s) : u[i] = s[i]
      /\ \A i \in 1..Len(t) : u[i + Len(s)] = t[i]
  BY <1>2, ConcatIs
<1>4. Len(u) = 2 /\ u[1] = a /\ u[1 + 1] = b
  BY <1>1, <1>3
<1>5. Len(u) = Len(v) /\ \A i \in 1..Len(u) : u[i] = v[i]
  BY <1>1, <1>4
<1>6. u = v
  BY <1>1, <1>3, <1>5, SeqEqual
<1> QED
  BY <1>6, Zenon DEF u, s, t, v

\* The code of a pinned workflow asks for its activities in order, and for the last one when
\* it is told to conclude.
LEMMA PinnedReplays ==
  ASSUME VersionInv, NEW w \in {"Pinned", "Pinned2"}, inbox[w] # <<>>, NEW T, T = SentTo(w),
         NEW all, all = Version!AllAsked(w, T), NEW v, v = Version!VersionOf(w)
  PROVE  /\ v \in 1..3 /\ all \in Seq(Activity) /\ Len(all) <= Len(PinnedActivities(v))
         /\ \A i \in 1..Len(all) : all[i] = PinnedActivities(v)[i]
         /\ Len(all) > (IF v = 3 THEN 1 ELSE 0) => Version!Concluded(T)
         /\ Version!Concluded(T) => Len(all) = Len(PinnedActivities(v))
         /\ Version!Replays(w, T) /\ Version!Marker(w, T) = "none"
<1>1. /\ w \in Version!Workflows /\ w \in Version!Versioned /\ VersionTypes /\ PinnedInv(w)
      /\ BegunInv(w)
  BY WorkflowNames DEF VersionInv
<1>2. /\ current \in 1..4 /\ version[w] \in 0..4 /\ history[w] \in Seq(Activity)
      /\ Len(history[w]) \in Nat /\ signals[w] \in Seq(Message) /\ inbox[w] \in Seq(Message)
  BY <1>1 DEF VersionTypes, BegunInv
<1>3. current \in 1..3
  BY <1>1, <1>2 DEF VersionInv, AppInv, StagesInv
<1>4. v = IF version[w] = 0 THEN current ELSE version[w]
  BY DEF Version!VersionOf, Version!Moves
<1>5. v \in 1..3
  BY <1>1, <1>2, <1>3, <1>4 DEF PinnedInv
<1> DEFINE one == <<"some_activity">>
           two == <<"some_activity", "some_incompatible_activity">>
<1>6. /\ v = 3 => all = one \o (IF Version!Concluded(T) THEN <<"some_incompatible_activity">>
                                ELSE <<>>)
      /\ v # 3 => all = IF Version!Concluded(T) THEN one ELSE <<>>
  <2>1. all = Version!Code(w, v, T, Version!Answer(w))
    BY DEF Version!AllAsked
  <2>2. /\ v = 3 => all = Version!PinnedWorkflowV2(T, Version!Answer(w))
        /\ v # 3 => all = Version!PinnedWorkflowV1(T, Version!Answer(w))
    BY <2>1, WorkflowNames DEF Version!Code
  <2> QED
    BY <2>2, Zenon DEF Version!PinnedWorkflowV1, Version!PinnedWorkflowV2
<1>7. /\ one \o <<"some_incompatible_activity">> = two /\ one \o <<>> = one
      /\ one \in Seq(Activity) /\ Len(one) = 1
      /\ two \in Seq(Activity) /\ Len(two) = 2 /\ two[1] = one[1]
      /\ <<>> \in Seq(Activity) /\ Len(<<>>) = 0
      /\ PinnedActivities(v) = IF v = 3 THEN two ELSE one
  <2>1. one \in Seq(Activity) /\ Len(one) = 1 /\ two \in Seq(Activity) /\ Len(two) = 2
    BY DEF Activity
  <2>2. two[1] = one[1] /\ <<>> \in Seq(Activity) /\ Len(<<>>) = 0
    OBVIOUS
  <2>3. one \o <<"some_incompatible_activity">> = two /\ one \o <<>> = one
    BY PairOf, ConcatEmptySeq, <2>1
  <2>4. PinnedActivities(v) = IF v = 3 THEN two ELSE one
    BY DEF PinnedActivities
  <2> QED
    BY <2>1, <2>2, <2>3, <2>4, Zenon
<1> HIDE DEF one, two
<1>8. /\ all \in Seq(Activity) /\ Len(all) <= Len(PinnedActivities(v))
      /\ \A i \in 1..Len(all) : all[i] = PinnedActivities(v)[i]
      /\ Len(all) > (IF v = 3 THEN 1 ELSE 0) => Version!Concluded(T)
      /\ Version!Concluded(T) => Len(all) = Len(PinnedActivities(v))
      /\ v = 3 => Len(all) >= 1
  <2>1. CASE v = 3 /\ Version!Concluded(T)
    BY <1>6, <1>7, <2>1
  <2>2. CASE v = 3 /\ ~Version!Concluded(T)
    BY <1>6, <1>7, <2>2
  <2>3. CASE v # 3 /\ Version!Concluded(T)
    BY <1>6, <1>7, <2>3
  <2>4. CASE v # 3 /\ ~Version!Concluded(T)
    BY <1>6, <1>7, <2>4
  <2> QED
    BY <2>1, <2>2, <2>3, <2>4
<1>9. Version!Concluded(signals[w]) => Version!Concluded(T)
  <2>1. T = signals[w] \o Tail(inbox[w]) /\ Tail(inbox[w]) \in Seq(Message)
    <3>1. Tail(inbox[w]) \in Seq(Message)
      BY <1>2
    <3> QED
      BY <1>2, <3>1, SentHandled DEF SentTo
  <2> QED
    BY <1>2, <2>1, ConcludedMore
<1>10. version[w] # 0 => version[w] = v
  BY <1>4
<1>11. version[w] = 0 => Len(history[w]) = 0
  BY <1>1 DEF BegunInv
<1>12. Len(history[w]) <= Len(all)
  <2>1. CASE version[w] = 0
    BY <1>8, <1>11, <2>1
  <2>2. CASE version[w] # 0
    <3>1. /\ Len(history[w]) <= Len(PinnedActivities(v))
          /\ Len(history[w]) > (IF v = 3 THEN 1 ELSE 0) => Version!Concluded(signals[w])
      BY <1>1, <1>10, <2>2 DEF PinnedInv
    <3> QED
      BY <1>2, <1>5, <1>8, <1>9, <3>1
  <2> QED
    BY <2>1, <2>2
<1>13. \A i \in 1..Len(history[w]) : history[w][i] = all[i]
  <2>1. CASE version[w] = 0
    BY <1>11, <2>1
  <2>2. CASE version[w] # 0
    <3>1. \A i \in 1..Len(history[w]) : history[w][i] = PinnedActivities(v)[i]
      BY <1>1, <1>10, <2>2 DEF PinnedInv
    <3>2. \A i \in 1..Len(history[w]) : i \in 1..Len(all)
      BY <1>2, <1>8, <1>12
    <3> QED
      BY <1>8, <3>1, <3>2
  <2> QED
    BY <2>1, <2>2
<1>14. marker[w] = "none" /\ Version!Calls(w, v) = "none"
  BY <1>1 DEF PinnedInv, Version!Calls
<1>15. Version!IsPrefix(history[w], all)
  BY <1>2, <1>8, <1>12, <1>13, PrefixIs
<1>16. Version!Replays(w, T)
  BY <1>14, <1>15 DEF Version!Replays
<1>17. Version!Marker(w, T) = "none"
  BY <1>14 DEF Version!Marker
<1> QED
  BY <1>5, <1>8, <1>16, <1>17
-----------------------------------------------------------------------------
(* Versioning: the steps of the workflows.                                 *)

\* What a task does, which replays and asks for the activities all.
LEMMA TaskFrame ==
  ASSUME VersionInv, NEW w \in Version!Workflows, Version!Task(w), NEW T, T = SentTo(w),
         Version!Replays(w, T), NEW all \in Seq(Activity), all = Version!AllAsked(w, T),
         Version!Marker(w, T) \in {"none", "marker", "deprecated"}
  PROVE  /\ VersionTypes' /\ (mismatched = {})' /\ UNCHANGED <<script, current, completed>>
         /\ \A v \in Version!Workflows :
              /\ SentTo(v)' = SentTo(v) /\ (inbox'[v] = <<>> <=> inbox[v] = <<>>)
              /\ v # w => UNCHANGED <<version[v], inbox[v], signals[v], history[v], marker[v]>>
              /\ v # w => (v \in closed' <=> v \in closed)
              /\ v \in closed => v \in closed'
         /\ version'[w] = Version!VersionOf(w) /\ version'[w] > 0 /\ inbox[w] # <<>>
         /\ w \notin closed /\ signals'[w] = T /\ T \in Seq(Message) /\ inbox'[w] = <<"started">>
         /\ marker'[w] = Version!Marker(w, T) /\ history'[w] \in Seq(Activity)
         /\ Len(history'[w]) = IF completed[w] < Len(all) THEN completed[w] + 1 ELSE completed[w]
         /\ Len(history'[w]) <= Len(all) /\ completed[w] <= Len(history'[w]) /\ completed[w] \in Nat
         /\ Len(history'[w]) \in Nat
         /\ \A i \in 1..Len(history'[w]) : history'[w][i] = all[i]
         /\ w \in closed' <=> Version!MayReturn(w, T) /\ completed[w] = Len(all)
<1> DEFINE k == IF completed[w] < Len(all) THEN completed[w] + 1 ELSE completed[w]
           new == SubSeq(all, 1, k)
<1>1. /\ VersionTypes /\ mismatched = {} /\ BegunInv(w)
      /\ inbox[w] # <<>> /\ w \notin closed
  BY DEF VersionInv, Version!Task, Version!Started
<1>2. /\ completed[w] \in Nat /\ history[w] \in Seq(Activity) /\ version[w] \in 0..4
      /\ signals[w] \in Seq(Message) /\ inbox[w] \in Seq(Message) /\ current \in 1..4
  BY <1>1 DEF VersionTypes, BegunInv
<1>3. T = signals[w] \o Tail(inbox[w]) /\ T \in Seq(Message)
  BY <1>1, <1>2, SentHandled DEF SentTo
<1>4. Len(history[w]) <= Len(all) /\ Len(history[w]) \in Nat /\ Len(all) \in Nat
  BY <1>2 DEF Version!Replays, Version!IsPrefix
<1>5. k \in Nat /\ k <= Len(all) /\ completed[w] <= k
  BY <1>1, <1>2, <1>4 DEF BegunInv
<1>6. Version!Prefix(w, T) = new
  BY DEF Version!Prefix
<1> HIDE DEF k
<1>7. new \in Seq(Activity) /\ Len(new) = k /\ \A i \in 1..k : new[i] = all[i]
  BY <1>4, <1>5
<1> HIDE DEF new
<1>8. /\ version' = [version EXCEPT ![w] = Version!VersionOf(w)]
      /\ inbox' = [inbox EXCEPT ![w] = <<"started">>]
      /\ signals' = [signals EXCEPT ![w] = T]
      /\ history' = [history EXCEPT ![w] = new]
      /\ marker' = [marker EXCEPT ![w] = Version!Marker(w, T)]
      /\ closed' = IF Version!MayReturn(w, T) /\ completed[w] = Len(all)
                   THEN closed \cup {w} ELSE closed
      /\ UNCHANGED <<script, current, completed, mismatched>>
  BY <1>3, <1>6 DEF Version!Task
<1>9. Version!VersionOf(w) \in 1..4
  BY <1>2 DEF Version!VersionOf, Version!Moves
<1>10. <<"started">> \in Seq(Message) /\ <<"started">> # <<>>
  BY DEF Message
<1>11. VersionTypes'
  <2>1. version' \in [Version!Workflows -> 0..4] /\ inbox' \in [Version!Workflows -> Seq(Message)]
    BY <1>1, <1>8, <1>9, <1>10 DEF VersionTypes
  <2>2. /\ signals' \in [Version!Workflows -> Seq(Message)]
        /\ history' \in [Version!Workflows -> Seq(Activity)]
    BY <1>1, <1>3, <1>7, <1>8 DEF VersionTypes
  <2>3. marker' \in [Version!Workflows -> {"none", "marker", "deprecated"}]
    BY <1>1, <1>8 DEF VersionTypes
  <2> QED
    BY <1>1, <1>8, <2>1, <2>2, <2>3 DEF VersionTypes
<1>12. /\ version'[w] = Version!VersionOf(w) /\ inbox'[w] = <<"started">> /\ signals'[w] = T
       /\ history'[w] = new /\ marker'[w] = Version!Marker(w, T)
       /\ \A v \in Version!Workflows : v # w =>
            UNCHANGED <<version[v], inbox[v], signals[v], history[v], marker[v]>>
  BY <1>1, <1>8 DEF VersionTypes
<1>13. SentTo(w)' = SentTo(w)
  <2>1. SentOf(T, <<"started">>) = T
    BY <1>3, SentStarted
  <2> QED
    BY <1>12, <2>1 DEF SentTo
<1>14. \A v \in Version!Workflows : /\ SentTo(v)' = SentTo(v)
                                   /\ (inbox'[v] = <<>> <=> inbox[v] = <<>>)
  BY <1>1, <1>10, <1>12, <1>13 DEF SentTo
<1>15. /\ \A v \in Version!Workflows : v # w => (v \in closed' <=> v \in closed)
       /\ \A v \in Version!Workflows : v \in closed => v \in closed'
       /\ w \in closed' <=> Version!MayReturn(w, T) /\ completed[w] = Len(all)
  BY <1>1, <1>8
<1>16. version'[w] > 0
  BY <1>9, <1>12
<1>17. /\ Len(history'[w]) = k /\ history'[w] \in Seq(Activity)
       /\ \A i \in 1..Len(history'[w]) : history'[w][i] = all[i]
  BY <1>7, <1>12
<1> QED
  BY <1>1, <1>2, <1>3, <1>5, <1>8, <1>11, <1>12, <1>14, <1>15, <1>16, <1>17 DEF k

\* A step of a workflow moves no script, and takes back nothing that one waits for.
LEMMA PlaceKept ==
  ASSUME VersionInv, UNCHANGED <<script, current>>, closed \subseteq closed',
         SentTo("AutoUpgrading")' = SentTo("AutoUpgrading"),
         \A w \in Version!Workflows : /\ inbox'[w] = <<>> <=> inbox[w] = <<>>
                                      /\ version[w] > 0 => version'[w] > 0
  PROVE  \E p \in Nat : (AppInv(p) \/ StagesInv(p))'
<1>1. PICK p \in Nat : AppInv(p) \/ StagesInv(p)
  BY DEF VersionInv
<1>2. CASE AppInv(p)
  <2>1. At(Version!app, p)' /\ (Concluding("AutoUpgrading")' <=> Concluding("AutoUpgrading"))
    BY <1>2 DEF AppInv, At, Concluding
  <2>2. \A w \in Version!Workflows : inbox'[w] = <<>> <=> inbox[w] = <<>>
    OBVIOUS
  <2> QED
    BY <1>2, <2>1, <2>2, WorkflowNames DEF AppInv
<1>3. CASE StagesInv(p)
  <2>1. At(Version!stages, p)'
    BY <1>3 DEF StagesInv, At
  <2>2. \A w \in Version!Workflows : /\ inbox'[w] = <<>> <=> inbox[w] = <<>>
                                     /\ version[w] > 0 => version'[w] > 0
    OBVIOUS
  <2>3. \A w \in Version!Versioned : inbox'[w] = <<>>
    BY <1>3, <2>2, WorkflowNames DEF StagesInv
  <2>4. /\ inbox'["initial"] # <<>> <=> p >= 2
        /\ inbox'["patched"] # <<>> <=> p >= 5
        /\ inbox'["patch-deprecated"] # <<>> <=> p >= 10
        /\ inbox'["patch-complete"] # <<>> <=> p >= 15
    BY <1>3, <2>2, WorkflowNames DEF StagesInv
  <2>5. /\ p >= 3 => version'["initial"] > 0
        /\ p >= 7 => version'["patched"] > 0
        /\ p >= 12 => version'["patch-deprecated"] > 0
        /\ p >= 17 => version'["patch-complete"] > 0
    BY <1>3, <2>2, WorkflowNames DEF StagesInv
  <2> QED
    BY <1>3, <2>1, <2>3, <2>4, <2>5 DEF StagesInv
<1> QED
  BY <1>1, <1>2, <1>3

\* The facts of a workflow depend on itself only, and on the current version.
LEMMA OthersKept ==
  ASSUME VersionInv, NEW v \in Version!Workflows, current' = current, completed' = completed,
         UNCHANGED <<version[v], inbox[v], signals[v], history[v], marker[v]>>,
         v \in closed' <=> v \in closed
  PROVE  /\ BegunInv(v)' /\ (v = "AutoUpgrading" => AutoInv')
         /\ v \in {"Pinned", "Pinned2"} => PinnedInv(v)'
         /\ v \in Version!Patching => PatchInv(v)'
<1>1. BegunInv(v)'
  BY DEF VersionInv, BegunInv
<1>2. v = "AutoUpgrading" => AutoInv'
  BY DEF VersionInv, AutoInv, Concluding, SentTo
<1>3. v \in {"Pinned", "Pinned2"} => PinnedInv(v)'
  BY DEF VersionInv, PinnedInv
<1>4. v \in Version!Patching => PatchInv(v)'
  BY DEF VersionInv, PatchInv
<1> QED
  BY <1>1, <1>2, <1>3, <1>4

LEMMA TaskInvariant ==
  ASSUME VersionInv, NEW w \in Version!Workflows, Version!Task(w), NEW T, T = SentTo(w),
         Version!Replays(w, T), NEW all \in Seq(Activity), all = Version!AllAsked(w, T),
         Version!Marker(w, T) \in {"none", "marker", "deprecated"},
         w = "AutoUpgrading" => AutoInv', w \in {"Pinned", "Pinned2"} => PinnedInv(w)',
         w \in Version!Patching => PatchInv(w)'
  PROVE  VersionInv'
<1>1. /\ VersionTypes' /\ (mismatched = {})' /\ UNCHANGED <<script, current, completed>>
      /\ \A v \in Version!Workflows :
           /\ SentTo(v)' = SentTo(v) /\ (inbox'[v] = <<>> <=> inbox[v] = <<>>)
           /\ v # w => UNCHANGED <<version[v], inbox[v], signals[v], history[v], marker[v]>>
           /\ v # w => (v \in closed' <=> v \in closed)
           /\ v \in closed => v \in closed'
      /\ version'[w] = Version!VersionOf(w) /\ version'[w] > 0 /\ inbox[w] # <<>>
      /\ completed[w] <= Len(history'[w])
  BY TaskFrame
<1>2. BegunInv(w)'
  <2>1. version'[w] <= current /\ current > 0
    BY <1>1 DEF VersionInv, BegunInv, Version!VersionOf, VersionTypes
  <2>2. version'[w] # 0 /\ inbox'[w] # <<>>
    BY <1>1
  <2> QED
    BY <1>1, <2>1, <2>2 DEF BegunInv
<1>3. \A v \in Version!Workflows : v # w =>
        /\ BegunInv(v)' /\ (v = "AutoUpgrading" => AutoInv')
        /\ v \in {"Pinned", "Pinned2"} => PinnedInv(v)'
        /\ v \in Version!Patching => PatchInv(v)'
  BY <1>1, OthersKept
<1>4. closed \subseteq closed'
  BY <1>1 DEF VersionInv, VersionTypes
<1>5. \A v \in Version!Workflows : version[v] > 0 => version'[v] > 0
  BY <1>1
<1>6. \E p \in Nat : (AppInv(p) \/ StagesInv(p))'
  BY <1>1, <1>4, <1>5, PlaceKept, WorkflowNames
<1>7. \A v \in Version!Workflows : BegunInv(v)'
  BY <1>2, <1>3
<1>8. AutoInv' /\ PinnedInv("Pinned")' /\ PinnedInv("Pinned2")'
  BY <1>3, WorkflowNames
<1>9. \A v \in Version!Patching : PatchInv(v)'
  BY <1>3, WorkflowNames
<1> QED
  BY <1>1, <1>6, <1>7, <1>8, <1>9 DEF VersionInv

LEMMA AutoTask ==
  ASSUME VersionInv, Version!Task("AutoUpgrading")
  PROVE  VersionInv'
<1> DEFINE w == "AutoUpgrading"
           T == SentTo(w)
           all == Version!AllAsked(w, T)
<1>1. w \in Version!Workflows /\ inbox[w] # <<>>
  BY WorkflowNames DEF Version!Task, Version!Started
<1>2. /\ all \in Seq(Activity) /\ Len(all) = Version!Asked(T)
      /\ \A i \in 1..Len(all) :
           all[i] = IF Version!Marker(w, T) = "marker" THEN "some_incompatible_activity"
                    ELSE "some_activity"
      /\ Version!Replays(w, T) /\ Version!Marker(w, T) \in {"none", "marker"}
      /\ Version!Marker(w, T) = "marker" => current > 1
  BY <1>1, AutoReplays
<1>3. /\ UNCHANGED current /\ SentTo(w)' = SentTo(w) /\ signals'[w] = T /\ T \in Seq(Message)
      /\ marker'[w] = Version!Marker(w, T)
      /\ Len(history'[w]) <= Len(all) /\ Len(history'[w]) \in Nat /\ completed[w] \in Nat
      /\ Len(history'[w]) = IF completed[w] < Len(all) THEN completed[w] + 1 ELSE completed[w]
      /\ \A i \in 1..Len(history'[w]) : history'[w][i] = all[i]
      /\ w \in closed' => Version!MayReturn(w, T) /\ completed[w] = Len(all)
  BY <1>1, <1>2, TaskFrame
<1>4. Version!Asked(T) \in Nat
  BY <1>3, AskedIs
<1>5. w \in closed' => Version!Concluded(T) /\ Len(history'[w]) = Version!Asked(T)
  BY <1>2, <1>3, <1>4, WorkflowNames DEF Version!MayReturn
<1>6. \A i \in 1..Len(history'[w]) :
        history'[w][i] = IF marker'[w] = "marker" THEN "some_incompatible_activity"
                         ELSE "some_activity"
  BY <1>2, <1>3, <1>4
<1> HIDE DEF T, all
<1>7. AutoInv'
  <2>1. SentTo("AutoUpgrading")' = T
    BY <1>3 DEF T
  <2> QED
    BY <1>2, <1>3, <1>4, <1>5, <1>6, <2>1 DEF AutoInv, Concluding
<1> QED
  BY <1>1, <1>2, <1>7, TaskInvariant, WorkflowNames DEF T, all

LEMMA PinnedTask ==
  ASSUME VersionInv, NEW w \in {"Pinned", "Pinned2"}, Version!Task(w)
  PROVE  VersionInv'
<1> DEFINE T == SentTo(w)
           all == Version!AllAsked(w, T)
           v == Version!VersionOf(w)
<1>1. w \in Version!Workflows /\ w \notin Version!Patching /\ inbox[w] # <<>>
  BY WorkflowNames DEF Version!Task, Version!Started
<1>2. /\ v \in 1..3 /\ all \in Seq(Activity) /\ Len(all) <= Len(PinnedActivities(v))
      /\ \A i \in 1..Len(all) : all[i] = PinnedActivities(v)[i]
      /\ Len(all) > (IF v = 3 THEN 1 ELSE 0) => Version!Concluded(T)
      /\ Version!Concluded(T) => Len(all) = Len(PinnedActivities(v))
      /\ Version!Replays(w, T) /\ Version!Marker(w, T) = "none"
  BY <1>1, PinnedReplays
<1>3. /\ version'[w] = v /\ signals'[w] = T /\ marker'[w] = "none" /\ Len(all) \in Nat
      /\ Len(history'[w]) <= Len(all) /\ Len(history'[w]) \in Nat /\ completed[w] \in Nat
      /\ Len(history'[w]) = IF completed[w] < Len(all) THEN completed[w] + 1 ELSE completed[w]
      /\ \A i \in 1..Len(history'[w]) : history'[w][i] = all[i]
      /\ w \in closed' => Version!MayReturn(w, T) /\ completed[w] = Len(all)
  BY <1>1, <1>2, TaskFrame
<1>4. Len(PinnedActivities(v)) \in Nat
  BY DEF PinnedActivities
<1>5. w \in closed' => Len(history'[w]) = Len(PinnedActivities(v))
  BY <1>1, <1>2, <1>3 DEF Version!MayReturn
<1>6. Len(history'[w]) > (IF v = 3 THEN 1 ELSE 0) => Version!Concluded(T)
  BY <1>2, <1>3
<1>7. \A i \in 1..Len(history'[w]) : history'[w][i] = PinnedActivities(v)[i]
  BY <1>2, <1>3
<1>8. Len(history'[w]) <= Len(PinnedActivities(v))
  BY <1>2, <1>3, <1>4
<1> HIDE DEF T, all, v
<1>9. PinnedInv(w)'
  BY <1>2, <1>3, <1>5, <1>6, <1>7, <1>8 DEF PinnedInv
<1> QED
  BY <1>1, <1>2, <1>9, TaskInvariant DEF T, all

LEMMA PatchTask ==
  ASSUME VersionInv, NEW w \in Version!Patching, Version!Task(w)
  PROVE  VersionInv'
<1> DEFINE T == SentTo(w)
           all == Version!AllAsked(w, T)
<1>1. /\ w \in Version!Workflows /\ w \notin {"AutoUpgrading", "Pinned", "Pinned2"}
      /\ inbox[w] # <<>> /\ BegunInv(w) /\ PatchInv(w) /\ VersionTypes /\ w \notin closed
  BY WorkflowNames DEF Version!Task, Version!Started, VersionInv
<1>2. current <= Stage(w) + 1
  BY <1>1 DEF PatchInv
<1>3. /\ all = <<PatchActivity(w)>> /\ Version!Replays(w, T) /\ Version!VersionOf(w) = current
      /\ Version!Marker(w, T) = CASE w = "patched" -> "marker"
                                  [] w = "patch-deprecated" -> "deprecated" [] OTHER -> "none"
  BY <1>1, <1>2, PatchReplays
<1>4. /\ all \in Seq(Activity) /\ Version!Marker(w, T) \in {"none", "marker", "deprecated"}
      /\ Version!Replays(w, T) /\ Version!VersionOf(w) = current
  <2>1. PatchActivity(w) \in Activity
    BY DEF PatchActivity, Activity
  <2> QED
    BY <1>3, <2>1
<1>5. /\ version'[w] = current /\ marker'[w] = Version!Marker(w, T) /\ UNCHANGED current
      /\ history'[w] \in Seq(Activity) /\ Len(history'[w]) <= Len(all) /\ Len(history'[w]) \in Nat
      /\ completed[w] \in Nat
      /\ Len(history'[w]) = IF completed[w] < Len(all) THEN completed[w] + 1 ELSE completed[w]
      /\ \A i \in 1..Len(history'[w]) : history'[w][i] = all[i]
      /\ version'[w] > 0
  BY <1>1, <1>4, TaskFrame
<1>6. Len(all) = 1
  BY <1>3
<1> HIDE DEF all, T
<1>7. Len(history'[w]) = Len(all)
  BY <1>5, <1>6
<1>8. history'[w] = all
  BY <1>4, <1>5, <1>7, SeqEqual
<1>9. history'[w] = IF w = "initial" THEN <<"pre_patch_activity">> ELSE <<"post_patch_activity">>
  BY <1>3, <1>8 DEF PatchActivity
<1>10. current >= Stage(w)
  BY <1>1 DEF PatchInv
<1>11. version'[w] # 0
  BY <1>5
<1>12. PatchInv(w)'
  BY <1>2, <1>3, <1>5, <1>9, <1>10, <1>11 DEF PatchInv
<1> QED
  BY <1>1, <1>4, <1>12, TaskInvariant DEF T, all

LEMMA CompleteActivityInv ==
  ASSUME VersionInv, NEW w \in Version!Workflows, Version!CompleteActivity(w)
  PROVE  VersionInv'
<1>1. /\ completed[w] < Len(history[w]) /\ completed' = [completed EXCEPT ![w] = @ + 1]
      /\ UNCHANGED <<script, current, version, inbox, signals, history, marker, closed, mismatched>>
      /\ VersionTypes
  BY DEF Version!CompleteActivity, VersionInv
<1>2. \A v \in Version!Workflows : completed[v] \in Nat /\ history[v] \in Seq(Activity)
  BY <1>1 DEF VersionTypes
<1>3. /\ completed' \in [Version!Workflows -> Nat] /\ completed'[w] <= Len(history[w])
      /\ \A v \in Version!Workflows : v # w => completed'[v] = completed[v]
  <2>1. Len(history[w]) \in Nat
    BY <1>2
  <2> QED
    BY <1>1, <1>2, <2>1 DEF VersionTypes
<1>4. VersionTypes' /\ (mismatched = {})'
  BY <1>1, <1>3 DEF VersionInv, VersionTypes
<1>5. \A v \in Version!Workflows : BegunInv(v)'
  BY <1>1, <1>3 DEF VersionInv, BegunInv
<1>6. AutoInv' /\ PinnedInv("Pinned")' /\ PinnedInv("Pinned2")'
  BY <1>1 DEF VersionInv, AutoInv, PinnedInv, Concluding, SentTo
<1>7. \A v \in Version!Patching : PatchInv(v)'
  BY <1>1 DEF VersionInv, PatchInv
<1>8. \E p \in Nat : (AppInv(p) \/ StagesInv(p))'
  <2>1. SentTo("AutoUpgrading")' = SentTo("AutoUpgrading")
    BY <1>1 DEF SentTo
  <2> QED
    BY <1>1, <2>1, PlaceKept
<1> QED
  BY <1>4, <1>5, <1>6, <1>7, <1>8 DEF VersionInv

LEMMA VersionStep ==
  Version!VersioningAssumption /\ VersionInv /\ [Version!Next]_Version!vars => VersionInv'
<1> SUFFICES ASSUME Version!VersioningAssumption, VersionInv, [Version!Next]_Version!vars
             PROVE  VersionInv'
  OBVIOUS
<1>1. CASE Version!wait_for_worker_and_make_current
  BY <1>1, MakeCurrentInv
<1>2. CASE Version!Send
  BY <1>2, SendInv
<1>3. CASE Version!GetResult
  BY <1>3, GetResultInv
<1>4. CASE Version!AskQuery
  BY <1>4, AskQueryInv
<1>5. ASSUME NEW w \in Version!Workflows, Version!Task(w) PROVE VersionInv'
  BY <1>5, AutoTask, PinnedTask, PatchTask, WorkflowNames
<1>6. ASSUME NEW w \in Version!Workflows, Version!CompleteActivity(w) PROVE VersionInv'
  BY <1>6, CompleteActivityInv
<1>7. CASE UNCHANGED Version!vars
  <2>1. UNCHANGED <<script, current, version, inbox, signals, history, completed, marker, closed,
                    mismatched>>
    BY <1>7 DEF Version!vars, Version!workflows
  <2>2. VersionTypes' /\ (mismatched = {})' /\ UNCHANGED <<script, current>> /\ closed' = closed
    BY <2>1 DEF VersionInv, VersionTypes
  <2>3. SentTo("AutoUpgrading")' = SentTo("AutoUpgrading")
    BY <2>1 DEF SentTo
  <2>4. \E p \in Nat : (AppInv(p) \/ StagesInv(p))'
    BY <2>1, <2>3, PlaceKept
  <2>5. \A v \in Version!Workflows :
          /\ BegunInv(v)' /\ (v = "AutoUpgrading" => AutoInv')
          /\ v \in {"Pinned", "Pinned2"} => PinnedInv(v)'
          /\ v \in Version!Patching => PatchInv(v)'
    BY <2>1, OthersKept
  <2> QED
    BY <2>2, <2>4, <2>5, WorkflowNames DEF VersionInv
<1> QED
  BY <1>1, <1>2, <1>3, <1>4, <1>5, <1>6, <1>7 DEF Version!Next, Version!Terminated
-----------------------------------------------------------------------------
\* app.py and patching/: a workflow has the activities that every version that comes to replay
\* it asks for, for any number of rounds.
THEOREM VersionInvariant ==
  ASSUME Version!VersioningAssumption PROVE Version!Spec => []VersionInv
<1>1. Version!Init => VersionInv
  BY VersionInit
<1>2. VersionInv /\ [Version!Next]_Version!vars => VersionInv'
  BY VersionStep
<1> QED
  BY <1>1, <1>2, PTL DEF Version!Spec

LEMMA VersionAlone ==
  ASSUME Version!VersioningAssumption
  PROVE  Version!Spec => [](Version!AlwaysReplays /\ Version!EachSignalOnce)
<1>1. VersionInv => Version!AlwaysReplays /\ Version!EachSignalOnce
  <2> SUFFICES ASSUME VersionInv PROVE Version!AlwaysReplays /\ Version!EachSignalOnce
    OBVIOUS
  <2>1. Version!AlwaysReplays
    BY DEF VersionInv, Version!AlwaysReplays
  <2>2. "AutoUpgrading" \in closed => Len(history["AutoUpgrading"]) = 2 * Rounds
    <3> SUFFICES ASSUME "AutoUpgrading" \in closed
                 PROVE  Len(history["AutoUpgrading"]) = 2 * Rounds
      OBVIOUS
    <3>1. /\ Concluding("AutoUpgrading") /\ version["AutoUpgrading"] > 0
          /\ Len(history["AutoUpgrading"]) = Version!Asked(SentTo("AutoUpgrading"))
      BY WorkflowNames DEF VersionInv, AutoInv, BegunInv
    <3>2. inbox["AutoUpgrading"] # <<>>
      BY <3>1, WorkflowNames DEF VersionInv, BegunInv
    <3>3. PICK p \in Nat : AppInv(p)
      BY <3>2, WorkflowNames DEF VersionInv, StagesInv
    <3>4. p >= 4 * Rounds + 4
      BY <3>1, <3>3 DEF AppInv, Version!VersioningAssumption
    <3> QED
      BY <3>1, <3>3, <3>4 DEF AppInv, AskedBy
  <2>3. ASSUME NEW w \in closed \cap {"Pinned", "Pinned2"}
        PROVE  history[w] = PinnedActivities(version[w])
    <3>1. PinnedInv(w) /\ w \in Version!Workflows /\ VersionTypes
      BY WorkflowNames DEF VersionInv
    <3>2. /\ Len(history[w]) = Len(PinnedActivities(version[w])) /\ history[w] \in Seq(Activity)
          /\ \A i \in 1..Len(history[w]) : history[w][i] = PinnedActivities(version[w])[i]
      BY <3>1 DEF PinnedInv, VersionTypes
    <3>3. PinnedActivities(version[w]) \in Seq(Activity)
      <4>1. /\ <<"some_activity">> \in Seq(Activity)
            /\ <<"some_activity", "some_incompatible_activity">> \in Seq(Activity)
        BY DEF Activity
      <4> QED
        BY <4>1, Zenon DEF PinnedActivities
    <3> QED
      BY <3>2, <3>3, SeqEqual
  <2> QED
    BY <2>1, <2>2, <2>3 DEF Version!EachSignalOnce, PinnedActivities
<1> QED
  BY <1>1, VersionInvariant, PTL
-----------------------------------------------------------------------------
(* Services: a step of one sample leaves the others alone, so each of      *)
(* them behaves as its own specification says.                             *)

LEMMA ContextRuns == Spec => Context!Spec
<1>1. Init => Context!Init
  BY DEF Init
<1>2. [Next]_vars => [Context!Next]_Context!vars
  <2>1. UNCHANGED context => UNCHANGED Context!vars
    BY DEF context, Context!vars
  <2> QED
    BY <2>1 DEF Next, Only, vars
<1> QED
  BY <1>1, <1>2, PTL DEF Spec, Context!Spec

LEMMA ExportRuns == Spec => Export!Spec
<1>1. Init => Export!Init
  BY DEF Init
<1>2. [Next]_vars => [Export!Next]_Export!vars
  <2>1. UNCHANGED export => UNCHANGED Export!vars
    BY DEF export, Export!vars
  <2> QED
    BY <2>1 DEF Next, Only, vars
<1> QED
  BY <1>1, <1>2, PTL DEF Spec, Export!Spec

LEMMA StorageRuns == Spec => Storage!Spec
<1>1. Init => Storage!Init
  BY DEF Init
<1>2. [Next]_vars => [Storage!Next]_Storage!vars
  <2>1. UNCHANGED storage => UNCHANGED Storage!vars
    BY DEF storage, Storage!vars
  <2> QED
    BY <2>1 DEF Next, Only, vars
<1> QED
  BY <1>1, <1>2, PTL DEF Spec, Storage!Spec

LEMMA CartRuns == Spec => Cart!Spec
<1>1. Init => Cart!Init
  BY DEF Init
<1>2. [Next]_vars => [Cart!Next]_Cart!vars
  <2>1. UNCHANGED shopping => UNCHANGED Cart!vars
    BY DEF shopping, Cart!vars, Cart!object
  <2> QED
    BY <2>1 DEF Next, Only, vars
<1> QED
  BY <1>1, <1>2, PTL DEF Spec, Cart!Spec

LEMMA VersionRuns == Spec => Version!Spec
<1>1. Init => Version!Init
  BY DEF Init
<1>2. [Next]_vars => [Version!Next]_Version!vars
  <2>1. UNCHANGED versioning => UNCHANGED Version!vars
    BY DEF versioning, Version!vars, Version!workflows
  <2> QED
    BY <2>1 DEF Next, Only, vars
<1> QED
  BY <1>1, <1>2, PTL DEF Spec, Version!Spec
-----------------------------------------------------------------------------
(* Cluster manager: its steps and states are those its proofs are about.    *)

ClusterSafe == INSTANCE ClusterManagerProofs

LEMMA ClusterCardinality == \A S : Cluster!Cardinality(S) = ClusterSafe!Cardinality(S)
  BY DEF Cluster!Cardinality, ClusterSafe!Cardinality

LEMMA ClusterSteps == Cluster!Next => ClusterSafe!Next
<1>1. \A h : Cluster!Enter(h) => ClusterSafe!Enter(h)
  BY DEF Cluster!Enter, ClusterSafe!Enter, Cluster!Return, ClusterSafe!Return,
         Cluster!state, ClusterSafe!state, Cluster!mainVars, ClusterSafe!mainVars,
         Cluster!Idle, ClusterSafe!Idle, Cluster!Open, ClusterSafe!Open, Cluster!Woken,
         ClusterSafe!Woken
<1>2. \A h : Cluster!DecideAssign(h) => ClusterSafe!DecideAssign(h)
  BY ClusterCardinality
     DEF Cluster!DecideAssign, ClusterSafe!DecideAssign, Cluster!Return, ClusterSafe!Return,
         Cluster!Open, ClusterSafe!Open, Cluster!Holds, ClusterSafe!Holds,
         Cluster!AlreadyAssigned, ClusterSafe!AlreadyAssigned, Cluster!NodesOf,
         ClusterSafe!NodesOf, Cluster!state, ClusterSafe!state, Cluster!mainVars,
         ClusterSafe!mainVars
<1>3. \A h : Cluster!FinishAssign(h) => ClusterSafe!FinishAssign(h)
  BY DEF Cluster!FinishAssign, ClusterSafe!FinishAssign, Cluster!Return, ClusterSafe!Return,
         Cluster!Open, ClusterSafe!Open, Cluster!mainVars, ClusterSafe!mainVars
<1>4. \A h : Cluster!DecideDelete(h) => ClusterSafe!DecideDelete(h)
  BY DEF Cluster!DecideDelete, ClusterSafe!DecideDelete, Cluster!Open, ClusterSafe!Open,
         Cluster!Holds, ClusterSafe!Holds, Cluster!NodesOf, ClusterSafe!NodesOf,
         Cluster!state, ClusterSafe!state, Cluster!mainVars, ClusterSafe!mainVars
<1>5. \A h : Cluster!FinishDelete(h) => ClusterSafe!FinishDelete(h)
  BY DEF Cluster!FinishDelete, ClusterSafe!FinishDelete, Cluster!Return, ClusterSafe!Return,
         Cluster!Open, ClusterSafe!Open, Cluster!mainVars, ClusterSafe!mainVars
<1>6. \A h, q : Cluster!Send(h, q) => ClusterSafe!Send(h, q)
  BY DEF Cluster!Send, ClusterSafe!Send, Cluster!Open, ClusterSafe!Open, Cluster!state,
         ClusterSafe!state, Cluster!mainVars, ClusterSafe!mainVars
<1>7. Cluster!SendShutdown => ClusterSafe!SendShutdown
  BY DEF Cluster!SendShutdown, ClusterSafe!SendShutdown, Cluster!Open, ClusterSafe!Open,
         Cluster!state, ClusterSafe!state, Cluster!mainVars, ClusterSafe!mainVars,
         Cluster!handlerVars, ClusterSafe!handlerVars
<1>8. Cluster!ShutdownCluster => ClusterSafe!ShutdownCluster
  BY DEF Cluster!ShutdownCluster, ClusterSafe!ShutdownCluster, Cluster!mainVars,
         ClusterSafe!mainVars, Cluster!handlerVars, ClusterSafe!handlerVars, Cluster!Idle,
         ClusterSafe!Idle, Cluster!Open, ClusterSafe!Open, Cluster!Woken, ClusterSafe!Woken
<1>9. Cluster!ClusterStarted => ClusterSafe!ClusterStarted
  BY DEF Cluster!ClusterStarted, ClusterSafe!ClusterStarted, Cluster!handlerVars,
         ClusterSafe!handlerVars, Cluster!Idle, ClusterSafe!Idle, Cluster!Open,
         ClusterSafe!Open, Cluster!Woken, ClusterSafe!Woken
<1>10. Cluster!ClusterStartFails => ClusterSafe!ClusterStartFails
  BY DEF Cluster!ClusterStartFails, ClusterSafe!ClusterStartFails, Cluster!state,
         ClusterSafe!state, Cluster!handlerVars, ClusterSafe!handlerVars, Cluster!Idle,
         ClusterSafe!Idle, Cluster!Open, ClusterSafe!Open, Cluster!Woken, ClusterSafe!Woken
<1>11. Cluster!BeginHealthCheck => ClusterSafe!BeginHealthCheck
  BY DEF Cluster!BeginHealthCheck, ClusterSafe!BeginHealthCheck, Cluster!Holds,
         ClusterSafe!Holds, Cluster!AssignedNodes, ClusterSafe!AssignedNodes, Cluster!state,
         ClusterSafe!state, Cluster!handlerVars, ClusterSafe!handlerVars
<1>12. \A bad : Cluster!EndHealthCheck(bad) => ClusterSafe!EndHealthCheck(bad)
  BY DEF Cluster!EndHealthCheck, ClusterSafe!EndHealthCheck, Cluster!handlerVars,
         ClusterSafe!handlerVars
<1>13. Cluster!WakeToFinish => ClusterSafe!WakeToFinish
  BY DEF Cluster!WakeToFinish, ClusterSafe!WakeToFinish, Cluster!state, ClusterSafe!state,
         Cluster!handlerVars, ClusterSafe!handlerVars, Cluster!Idle, ClusterSafe!Idle,
         Cluster!Open, ClusterSafe!Open, Cluster!Woken, ClusterSafe!Woken
<1>14. Cluster!WakeToContinue => ClusterSafe!WakeToContinue
  BY DEF Cluster!WakeToContinue, ClusterSafe!WakeToContinue, Cluster!state,
         ClusterSafe!state, Cluster!handlerVars, ClusterSafe!handlerVars, Cluster!Idle,
         ClusterSafe!Idle, Cluster!Open, ClusterSafe!Open, Cluster!Woken, ClusterSafe!Woken
<1>15. Cluster!WakeToCheck => ClusterSafe!WakeToCheck
  BY DEF Cluster!WakeToCheck, ClusterSafe!WakeToCheck, Cluster!state, ClusterSafe!state,
         Cluster!handlerVars, ClusterSafe!handlerVars, Cluster!Idle, ClusterSafe!Idle,
         Cluster!Open, ClusterSafe!Open, Cluster!Woken, ClusterSafe!Woken
<1>16. Cluster!ContinueAsNew => ClusterSafe!ContinueAsNew
  BY DEF Cluster!ContinueAsNew, ClusterSafe!ContinueAsNew, Cluster!AllHandlersFinished,
         ClusterSafe!AllHandlersFinished, Cluster!state, ClusterSafe!state,
         Cluster!handlerVars, ClusterSafe!handlerVars, Cluster!Idle, ClusterSafe!Idle,
         Cluster!Open, ClusterSafe!Open, Cluster!Woken, ClusterSafe!Woken
<1>17. Cluster!Complete => ClusterSafe!Complete
  BY DEF Cluster!Complete, ClusterSafe!Complete, Cluster!AllHandlersFinished,
         ClusterSafe!AllHandlersFinished, Cluster!state, ClusterSafe!state,
         Cluster!handlerVars, ClusterSafe!handlerVars, Cluster!Idle, ClusterSafe!Idle,
         Cluster!Open, ClusterSafe!Open, Cluster!Woken, ClusterSafe!Woken
<1>18. Cluster!Terminated => ClusterSafe!Terminated
  BY DEF Cluster!Terminated, ClusterSafe!Terminated, Cluster!Open, ClusterSafe!Open,
         Cluster!vars, ClusterSafe!vars, Cluster!state, ClusterSafe!state, Cluster!mainVars,
         ClusterSafe!mainVars, Cluster!handlerVars, ClusterSafe!handlerVars
<1> QED
  BY <1>1, <1>2, <1>3, <1>4, <1>5, <1>6, <1>7, <1>8, <1>9, <1>10, <1>11, <1>12, <1>13,
     <1>14, <1>15, <1>16, <1>17, <1>18
     DEF Cluster!Next, ClusterSafe!Next, Cluster!Main, ClusterSafe!Main, Cluster!Handler,
         ClusterSafe!Handler, Cluster!Request, ClusterSafe!Request

LEMMA ClusterRuns == Spec => ClusterSafe!Spec
<1>1. Init => ClusterSafe!Init
  BY DEF Init, Cluster!Init, ClusterSafe!Init, Cluster!NotSent, ClusterSafe!NotSent,
         Cluster!Request, ClusterSafe!Request, Cluster!NoResult, ClusterSafe!NoResult
<1>2. [Next]_vars => [ClusterSafe!Next]_ClusterSafe!vars
  <2>1. UNCHANGED cluster => UNCHANGED ClusterSafe!vars
    BY DEF cluster, ClusterSafe!vars, ClusterSafe!state, ClusterSafe!mainVars,
           ClusterSafe!handlerVars
  <2> QED
    BY <2>1, ClusterSteps DEF Next, Only, vars
<1> QED
  BY <1>1, <1>2, PTL DEF Spec, ClusterSafe!Spec

-----------------------------------------------------------------------------
(* The properties of Services.                                             *)

\* What a critical section of ClusterManagerWorkflow read before its await still holds
\* after it, however many handlers and health checks there are; none is cut off by the end
\* of the workflow.
THEOREM ClusterAtomicity == Spec => []CriticalSectionsAtomic
<1>1. ClusterSafe!CriticalSectionsAtomic => CriticalSectionsAtomic
  BY DEF CriticalSectionsAtomic, Cluster!CriticalSectionsAtomic,
         ClusterSafe!CriticalSectionsAtomic, Cluster!NodesOf, ClusterSafe!NodesOf,
         Cluster!AssignedNodes, ClusterSafe!AssignedNodes
<1>2. ClusterSafe!ClusterAssumption
  BY ServicesAssumption DEF ServicesAssumption, Cluster!ClusterAssumption, ClusterSafe!ClusterAssumption
<1> QED
  BY <1>1, <1>2, ClusterRuns, ClusterSafe!Atomicity, PTL

\* assign_nodes_to_job allocates a job's nodes once, whatever was retried, every answer is
\* what was granted, and in the first run the job keeps it until it is deleted or its nodes
\* go bad.
THEOREM ClusterGrants == Spec => []GrantsStable
<1>1. \A S : Cluster!Cardinality(S) = ClusterSafe!Cardinality(S)
  BY DEF Cluster!Cardinality, ClusterSafe!Cardinality
<1>2. ClusterSafe!GrantsStable => GrantsStable
  BY <1>1 DEF GrantsStable, Cluster!GrantsStable, ClusterSafe!GrantsStable, Cluster!OneGrant,
         ClusterSafe!OneGrant, Cluster!AnswersAgree, ClusterSafe!AnswersAgree,
         Cluster!GrantsKept, ClusterSafe!GrantsKept, Cluster!AllocatedOnce,
         ClusterSafe!AllocatedOnce
<1>3. ClusterSafe!ClusterAssumption
  BY ServicesAssumption DEF ServicesAssumption, Cluster!ClusterAssumption, ClusterSafe!ClusterAssumption
<1> QED
  BY <1>2, <1>3, ClusterRuns, ClusterSafe!Grants, PTL

\* ContextPropagationInterceptor: everything is done as the user of the call it belongs to.
THEOREM ContextUserOfCall == Spec => []UserOfCall
  BY ContextRuns, ContextAlone, PTL DEF UserOfCall

\* ProtoToParquet: each hour is read once, and its objects land before the workflow returns.
THEOREM ExportLanded == Spec => []Landed
  BY ServicesAssumption, ExportRuns, ExportAlone, PTL DEF ServicesAssumption, Landed

\* ShoppingCartWorkflow: an order has the acknowledged items of its cart, each once, and
\* costs what the last of them was told, for any number of requests and carts and any prices.
THEOREM CartOrderExact == Spec => []OrderExact
  BY ServicesAssumption, CartRuns, CartAlone, PTL DEF ServicesAssumption, OrderExact

\* External storage: what was encoded is decoded, every payload in its place, for any number
\* of clients, payloads and failed writes.
THEOREM StorageRoundTrip == Spec => []RoundTrip
  BY ServicesAssumption, StorageRuns, StorageAlone, PTL DEF ServicesAssumption, RoundTrip

\* External storage: no step answers that a payload is not found before its time is over.
THEOREM StorageLostOnlyByTTL == Spec => LostOnlyByTTL
  BY ServicesAssumption, StorageRuns, StorageStepsAlone, PTL DEF ServicesAssumption, LostOnlyByTTL

\* Worker versioning and patching: no replay disagrees with its history, and each signal is one
\* activity, for any number of rounds of signals.
THEOREM VersionsReplay == Spec => []VersionsCompatible
  BY ServicesAssumption, VersionRuns, VersionAlone, PTL DEF ServicesAssumption, VersionsCompatible
=============================================================================
