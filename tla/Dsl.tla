--------------------------------- MODULE Dsl ---------------------------------
(***************************************************************************)
(* dsl/: a workflow that interprets a program: activities whose arguments  *)
(* and results are variables, in sequence and in parallel.                 *)
(*                                                                         *)
(* execute_statement is a task per branch; the order in which the tasks    *)
(* get to their activities is all that matters of it: an activity begins   *)
(* when what precedes it in an enclosing sequence has ended, so an element *)
(* after a parallel one waits for all of its branches (gather).  Results   *)
(* of other branches may come in between; the model lets them also where   *)
(* one task goes on at once, and so has more behaviours than the code.     *)
(***************************************************************************)
EXTENDS Naturals, Sequences, FiniteSets, SequencesExt

CONSTANTS
  Variables          \* the variables of the generated programs

VARIABLES
  program,           \* DSLInput: root, and the initial values of the variables
  variables,
  arguments,         \* the values each activity was scheduled with
  ended              \* the activities whose result has been processed
vars == <<program, variables, arguments, ended>>

-----------------------------------------------------------------------------
(* Statements.  A result "" is none.                                       *)
ActivityStatement(name, args, result) ==
  [stmt |-> "activity", name |-> name, arguments |-> args, result |-> result]
SequenceStatement(elements) == [stmt |-> "sequence", parts |-> elements]
ParallelStatement(branches) == [stmt |-> "parallel", parts |-> branches]
DSLInput(root, values) == [root |-> root, variables |-> values]

\* The two programs of the sample.
workflow1 ==
  DSLInput(SequenceStatement(<<ActivityStatement("activity1", <<"arg1">>, "result1"),
                               ActivityStatement("activity2", <<"result1">>, "result2"),
                               ActivityStatement("activity3", <<"arg2", "result2">>, "result3")>>),
           [arg1 |-> <<"value1">>, arg2 |-> <<"value2">>])
workflow2 ==
  DSLInput(SequenceStatement(<<
             ActivityStatement("activity1", <<"arg1">>, "result1"),
             ParallelStatement(<<
               SequenceStatement(<<
                 ActivityStatement("activity2", <<"result1">>, "result2"),
                 ActivityStatement("activity3", <<"arg2", "result2">>, "result3")>>),
               SequenceStatement(<<
                 ActivityStatement("activity4", <<"result1">>, "result4"),
                 ActivityStatement("activity5", <<"arg3", "result4">>, "result5")>>)>>),
             ActivityStatement("activity3", <<"result3", "result5">>, "result6")>>),
           [arg1 |-> <<"value1">>, arg2 |-> <<"value2">>, arg3 |-> <<"value3">>])

\* The activities of a statement, each by its path in the tree.
RECURSIVE Paths(_)
Paths(s) ==
  IF s.stmt = "activity" THEN {<<>>}
  ELSE UNION {{<<i>> \o p : p \in Paths(s.parts[i])} : i \in DOMAIN s.parts}
RECURSIVE At(_, _)
At(s, p) == IF p = <<>> THEN s ELSE At(s.parts[Head(p)], Tail(p))

\* Branches do not interfere: what one of them sets, no other one reads or sets.
Reads(s) == UNION {Range(At(s, p).arguments) : p \in Paths(s)}
Sets(s)  == {At(s, p).result : p \in Paths(s)} \ {""}
RECURSIVE Independent(_)
Independent(s) ==
  \/ s.stmt = "activity"
  \/ /\ \A i \in DOMAIN s.parts : Independent(s.parts[i])
     /\ s.stmt = "parallel" =>
          \A i, j \in DOMAIN s.parts :
            i # j => Sets(s.parts[i]) \cap (Reads(s.parts[j]) \cup Sets(s.parts[j])) = {}

\* Generated programs: a block of two branches, one of them a sequence, before an
\* activity that reads what they set.
Activities == {ActivityStatement("a", <<x>>, y) : x \in Variables, y \in Variables \cup {""}}
Generated ==
  {DSLInput(SequenceStatement(<<ParallelStatement(<<SequenceStatement(<<a, b>>), c>>), d>>),
            [x \in {} |-> <<>>])
     : a \in Activities, b \in Activities, c \in Activities, d \in Activities}
Programs == {workflow1, workflow2} \cup {g \in Generated : Independent(g.root)}

-----------------------------------------------------------------------------
root == program.root
\* The value of a variable; <<>> is the empty string that an unset one is taken for.
Value(vs, x) == IF x \in DOMAIN vs THEN vs[x] ELSE <<>>
Put(vs, x, v) ==
  IF x = "" THEN vs ELSE [y \in DOMAIN vs \cup {x} |-> IF y = x THEN v ELSE vs[y]]

\* What an activity returns names it and its arguments.
activity(name, args) == <<name, args>>

Init ==
  /\ program \in Programs
  /\ variables = program.variables
  /\ arguments = [p \in {} |-> <<>>]
  /\ ended = {}

\* q is in a later element of a sequence than p.
BeforeInBranchOnly(p, q) ==       \* mutant: nobody waits for the branches of a parallel block
  \E n \in 0..(Len(p) - 1) :
    /\ n < Len(q) /\ SubSeq(p, 1, n) = SubSeq(q, 1, n)
    /\ At(root, SubSeq(p, 1, n)).stmt = "sequence" /\ p[n + 1] < q[n + 1]
    /\ \A k \in (n + 1)..(Len(p) - 1) : At(root, SubSeq(p, 1, k)).stmt = "sequence"
Before(p, q) ==
  \E n \in 0..(Len(p) - 1) :
    /\ n < Len(q) /\ SubSeq(p, 1, n) = SubSeq(q, 1, n)
    /\ At(root, SubSeq(p, 1, n)).stmt = "sequence" /\ p[n + 1] < q[n + 1]

\* The arguments are looked up when the activity is scheduled.
Schedule(p) ==
  /\ p \notin DOMAIN arguments
  /\ \A q \in Paths(root) : Before(q, p) => q \in ended
  /\ LET args == At(root, p).arguments IN
     arguments' = [q \in DOMAIN arguments \cup {p} |->
                     IF q = p THEN [i \in DOMAIN args |-> Value(variables, args[i])]
                     ELSE arguments[q]]
  /\ UNCHANGED <<program, variables, ended>>

Complete(p) ==
  /\ p \in DOMAIN arguments \ ended
  /\ variables' = Put(variables, At(root, p).result, activity(At(root, p).name, arguments[p]))
  /\ ended' = ended \cup {p}
  /\ UNCHANGED <<program, arguments>>

Returned == ended = Paths(root)
Terminated == Returned /\ UNCHANGED vars
Next == (\E p \in Paths(root) : Schedule(p) \/ Complete(p)) \/ Terminated

Spec == Init /\ [][Next]_vars
-----------------------------------------------------------------------------
\* The program run by one task, branch after branch.
RECURSIVE Evaluate(_, _)
Evaluate(s, vs) ==
  IF s.stmt = "activity"
  THEN Put(vs, s.result,
           activity(s.name, [i \in DOMAIN s.arguments |-> Value(vs, s.arguments[i])]))
  ELSE FoldLeft(LAMBDA acc, part : Evaluate(part, acc), vs, s.parts)

\* DSLWorkflow: whatever order the branches' results come in, and whatever is overwritten
\* on the way, the workflow returns the variables that executing one statement after the
\* other yields, if no branch sets what another one uses.
SameAsSequential == Returned => variables = Evaluate(root, program.variables)
=============================================================================
