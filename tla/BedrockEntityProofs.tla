------------------------- MODULE BedrockEntityProofs -------------------------
(***************************************************************************)
(* Proofs about BedrockEntity for any number of prompts and of turns in a  *)
(* run.                                                                    *)
(***************************************************************************)
EXTENDS BedrockEntity, FiniteSetTheorems, TLAPS

TypeOK ==
  /\ pc \in {"begin", "waiting", "prompting", "summarizing", "closing", "completed", "failed"}
  /\ params_summary \subseteq Nat /\ params_queue \in Seq(Nat)
  /\ conversation_history \in Seq(SUBSET Nat) /\ prompt_queue \in Seq(Nat)
  /\ conversation_summary \subseteq Nat /\ chat_ended \in BOOLEAN
  /\ prompt \in Nat
  /\ sent \in Nat /\ end_sent \in BOOLEAN /\ dropped \subseteq Nat /\ answered \subseteq Nat

NoneTwice(s) == \A i, k \in 1..Len(s) : s[i] = s[k] => i = k

\* The places of EachPromptOnce.
Queued == Entries(prompt_queue)
Carried == IF pc = "begin" THEN Entries(params_queue) ELSE {}
Current == IF pc = "prompting" THEN {prompt} ELSE {}

\* They are apart, nothing stands twice in a queue, and only a failure loses a prompt.
PlacesInv ==
  /\ dropped \cup answered \cup Current \cup Queued \cup Carried \subseteq 1..sent
  /\ pc # "failed" => 1..sent \subseteq dropped \cup answered \cup Current \cup Queued \cup Carried
  /\ dropped \cap (answered \cup Current \cup Queued \cup Carried) = {}
  /\ answered \cap (Current \cup Queued \cup Carried) = {}
  /\ Current \cap (Queued \cup Carried) = {}
  /\ Queued \cap Carried = {}
  /\ NoneTwice(prompt_queue)
  /\ pc = "begin" => NoneTwice(params_queue)

\* The history begins with the summary the run was given, and every prompt it takes adds
\* to it: a run whose history has a single entry has answered nothing yet.
HistoryInv ==
  /\ pc = "begin" => conversation_history = <<>>
  /\ pc = "waiting" => \/ Len(conversation_history) # 1
                       \/ conversation_history = <<conversation_summary>>
  /\ pc = "prompting" => conversation_history # <<>>
  /\ pc \in {"closing", "completed"} => prompt_queue = <<>> /\ chat_ended

IInv == TypeOK /\ PlacesInv /\ HistoryInv /\ ContextComplete
-----------------------------------------------------------------------------
(* Queues of prompts.                                                      *)

\* What is appended is one entry more.
LEMMA AppendEntries ==
  ASSUME NEW S, NEW s \in Seq(S), NEW e \in S
  PROVE  /\ Append(s, e) \in Seq(S)
         /\ Len(Append(s, e)) = Len(s) + 1
         /\ Entries(Append(s, e)) = Entries(s) \cup {e}
         /\ NoneTwice(s) /\ e \notin Entries(s) => NoneTwice(Append(s, e))
<1>1. /\ Append(s, e) \in Seq(S)
      /\ Len(Append(s, e)) = Len(s) + 1
      /\ \A i \in 1..Len(s) : Append(s, e)[i] = s[i]
      /\ Append(s, e)[Len(s) + 1] = e
      /\ Len(s) \in Nat
  OBVIOUS
<1>2. Entries(Append(s, e)) = Entries(s) \cup {e}
  BY <1>1 DEF Entries
<1>3. NoneTwice(s) /\ e \notin Entries(s) => NoneTwice(Append(s, e))
  BY <1>1 DEF NoneTwice, Entries
<1> QED
  BY <1>1, <1>2, <1>3

\* The head of a queue in which nothing stands twice leaves it for good.
LEMMA TailEntries ==
  ASSUME NEW S, NEW s \in Seq(S), s # <<>>, NoneTwice(s)
  PROVE  /\ Head(s) \in S /\ Tail(s) \in Seq(S)
         /\ Head(s) \in Entries(s)
         /\ Entries(Tail(s)) = Entries(s) \ {Head(s)}
         /\ NoneTwice(Tail(s))
<1>1. /\ Head(s) \in S /\ Tail(s) \in Seq(S)
      /\ Len(Tail(s)) = Len(s) - 1
      /\ \A i \in 1..Len(s) - 1 : Tail(s)[i] = s[i + 1]
      /\ Head(s) = s[1]
      /\ Len(s) \in Nat \ {0}
  OBVIOUS
<1>2. NoneTwice(Tail(s)) /\ Head(s) \in Entries(s)
  BY <1>1 DEF NoneTwice, Entries
<1>3. ASSUME NEW e \in Entries(Tail(s)) PROVE e \in Entries(s) \ {Head(s)}
  BY <1>1 DEF Entries, NoneTwice
<1>4. ASSUME NEW e \in Entries(s) \ {Head(s)} PROVE e \in Entries(Tail(s))
  <2>1. PICK i \in 1..Len(s) : s[i] = e
    BY DEF Entries
  <2>2. i - 1 \in 1..Len(s) - 1 /\ Tail(s)[i - 1] = s[i]
    BY <1>1, <2>1
  <2> QED
    BY <1>1, <2>1, <2>2 DEF Entries
<1> QED
  BY <1>1, <1>2, <1>3, <1>4

\* Two queues that have nothing in common are put together.
LEMMA ConcatEntries ==
  ASSUME NEW S, NEW s \in Seq(S), NEW t \in Seq(S), NoneTwice(s), NoneTwice(t),
         Entries(s) \cap Entries(t) = {}
  PROVE  /\ s \o t \in Seq(S)
         /\ Entries(s \o t) = Entries(s) \cup Entries(t)
         /\ NoneTwice(s \o t)
<1>1. /\ s \o t \in Seq(S)
      /\ Len(s \o t) = Len(s) + Len(t)
      /\ \A i \in 1..Len(s) : (s \o t)[i] = s[i]
      /\ \A i \in 1..Len(s) + Len(t) : i > Len(s) => (s \o t)[i] = t[i - Len(s)]
      /\ Len(s) \in Nat /\ Len(t) \in Nat
  OBVIOUS
<1>2. ASSUME NEW e \in Entries(s \o t) PROVE e \in Entries(s) \cup Entries(t)
  <2>1. PICK i \in 1..Len(s) + Len(t) : (s \o t)[i] = e
    BY <1>1 DEF Entries
  <2>2. CASE i <= Len(s)
    BY <1>1, <2>1, <2>2 DEF Entries
  <2>3. CASE i > Len(s)
    <3>1. i - Len(s) \in 1..Len(t)
      BY <1>1, <2>3
    <3> QED
      BY <1>1, <2>1, <2>3, <3>1 DEF Entries
  <2> QED
    BY <1>1, <2>2, <2>3
<1>3. ASSUME NEW e \in Entries(s) \cup Entries(t) PROVE e \in Entries(s \o t)
  <2>1. CASE e \in Entries(s)
    BY <1>1, <2>1 DEF Entries
  <2>2. CASE e \in Entries(t)
    <3>1. PICK i \in 1..Len(t) : t[i] = e
      BY <2>2 DEF Entries
    <3>2. Len(s) + i \in 1..Len(s) + Len(t) /\ (s \o t)[Len(s) + i] = t[i]
      BY <1>1
    <3> QED
      BY <1>1, <3>1, <3>2 DEF Entries
  <2> QED
    BY <2>1, <2>2
<1>4. NoneTwice(s \o t)
  <2> SUFFICES ASSUME NEW i \in 1..Len(s) + Len(t), NEW k \in 1..Len(s) + Len(t),
                      (s \o t)[i] = (s \o t)[k]
               PROVE  i = k
    BY <1>1 DEF NoneTwice
  <2>1. CASE i <= Len(s) /\ k <= Len(s)
    BY <1>1, <2>1 DEF NoneTwice
  <2>2. CASE i > Len(s) /\ k > Len(s)
    <3>1. i - Len(s) \in 1..Len(t) /\ k - Len(s) \in 1..Len(t)
      BY <1>1, <2>2
    <3>2. t[i - Len(s)] = t[k - Len(s)]
      BY <1>1, <2>2
    <3>3. i - Len(s) = k - Len(s)
      BY <3>1, <3>2 DEF NoneTwice
    <3> QED
      BY <1>1, <3>3
  <2>3. ASSUME NEW a \in 1..Len(s) + Len(t), NEW b \in 1..Len(s) + Len(t), a <= Len(s), b > Len(s)
        PROVE  (s \o t)[a] # (s \o t)[b]
    <3>1. b - Len(s) \in 1..Len(t) /\ a \in 1..Len(s)
      BY <1>1, <2>3
    <3>2. (s \o t)[a] \in Entries(s) /\ (s \o t)[b] \in Entries(t)
      BY <1>1, <2>3, <3>1 DEF Entries
    <3> QED
      BY <3>2
  <2> QED
    BY <1>1, <2>1, <2>2, <2>3, SMTT(30)
<1> QED
  BY <1>1, <1>2, <1>3, <1>4

\* A sequence that is neither empty nor longer than 1 has length 1.
LEMMA SingleEntry ==
  ASSUME NEW S, NEW s \in Seq(S), Len(s) <= 1, s # <<>>
  PROVE  Len(s) = 1
<1>1. Len(s) \in Nat /\ Len(s) # 0
  OBVIOUS
<1> QED
  BY <1>1, SMTT(30)

\* A queue in which nothing stands twice is as long as it has entries.
LEMMA LengthOfQueue ==
  ASSUME NEW S, NEW s \in Seq(S), NoneTwice(s)
  PROVE  Cardinality(Entries(s)) = Len(s)
<1> DEFINE f == [i \in 1..Len(s) |-> s[i]]
<1>1. f \in Bijection(1..Len(s), Entries(s))
  BY DEF Bijection, Injection, Surjection, IsInjective, NoneTwice, Entries
<1>2. ExistsBijection(1..Len(s), Entries(s)) /\ Len(s) \in Nat
  BY <1>1 DEF ExistsBijection
<1> QED
  BY <1>2, FS_CountingElements
-----------------------------------------------------------------------------
(* The inductive invariant.                                                *)

\* No prompt has been sent.
LEMMA InitInv == Init => IInv
<1> SUFFICES ASSUME Init PROVE IInv
  OBVIOUS
<1>0. Entries(<<>>) = {} /\ NoneTwice(<<>>)
  BY DEF Entries, NoneTwice
<1>1. chat_ended \in BOOLEAN /\ end_sent \in BOOLEAN
  BY Zenon DEF Init
<1>2. TypeOK
  BY <1>1 DEF Init, TypeOK
<1>3. PlacesInv /\ HistoryInv /\ ContextComplete
  BY <1>0 DEF Init, PlacesInv, Queued, Carried, Current, HistoryInv, ContextComplete
<1> QED
  BY <1>2, <1>3 DEF IInv

\* A signal adds the next prompt to the queue, or it is refused.
LEMMA UserPromptInv ==
  ASSUME IInv, UserPrompt
  PROVE  IInv'
<1> USE DEF IInv, UserPrompt, params
<1>1. /\ sent \in Nat /\ sent + 1 \notin 1..sent /\ 1..sent + 1 = 1..sent \cup {sent + 1}
      /\ pc \notin {"completed", "failed"}
  BY SMTT(30) DEF TypeOK, Closed
<1>2. CASE ~chat_ended /\ prompt_queue' = Append(prompt_queue, sent + 1) /\ dropped' = dropped
  <2>1. sent + 1 \notin Entries(prompt_queue)
    BY <1>1 DEF PlacesInv, Queued
  <2>2. /\ prompt_queue' \in Seq(Nat)
        /\ Entries(prompt_queue') = Entries(prompt_queue) \cup {sent + 1}
        /\ NoneTwice(prompt_queue')
    BY <1>1, <1>2, <2>1, AppendEntries DEF TypeOK, PlacesInv
  <2>3. TypeOK'
    BY <1>1, <1>2, <2>2 DEF TypeOK
  <2>4. PlacesInv'
    BY <1>1, <1>2, <2>2 DEF PlacesInv, Queued, Carried, Current
  <2>5. HistoryInv' /\ ContextComplete'
    BY <1>1, <1>2 DEF HistoryInv, ContextComplete, Context
  <2> QED
    BY <2>3, <2>4, <2>5
<1>3. CASE dropped' = dropped \cup {sent + 1} /\ prompt_queue' = prompt_queue
  <2>1. TypeOK'
    BY <1>1, <1>3 DEF TypeOK
  <2>2. PlacesInv'
    BY <1>1, <1>3 DEF PlacesInv, Queued, Carried, Current
  <2>3. HistoryInv' /\ ContextComplete'
    BY <1>1, <1>3 DEF HistoryInv, ContextComplete, Context
  <2> QED
    BY <2>1, <2>2, <2>3
<1> QED
  BY <1>2, <1>3

\* A new run takes over what was carried to it.
LEMMA BeginInv ==
  ASSUME IInv, Begin
  PROVE  IInv'
<1> USE DEF IInv, Begin, TakeOver, params, clients
<1>1. /\ prompt_queue' \in Seq(Nat) /\ NoneTwice(prompt_queue')
      /\ Entries(prompt_queue') = Entries(prompt_queue) \cup Entries(params_queue)
  BY ConcatEntries DEF TypeOK, PlacesInv, Queued, Carried
<1>2. /\ conversation_history' \in Seq(SUBSET Nat)
      /\ UNION Entries(conversation_history') = params_summary
      /\ Len(conversation_history') = 1 => conversation_history' = <<params_summary>>
  <2>1. CASE params_summary = {}
    BY <2>1 DEF TypeOK, Entries
  <2>2. CASE params_summary # {}
    <3>1. Entries(<<params_summary>>) = {params_summary}
      BY DEF Entries
    <3>2. <<params_summary>> \in Seq(SUBSET Nat)
      BY DEF TypeOK
    <3>3. UNION {params_summary} = params_summary
      OBVIOUS
    <3> QED
      BY <2>2, <3>1, <3>2, <3>3
  <2> QED
    BY <2>1, <2>2
<1>3. TypeOK'
  BY <1>1, <1>2 DEF TypeOK
<1>4. PlacesInv'
  BY <1>1 DEF PlacesInv, Queued, Carried, Current
<1>5. HistoryInv'
  BY <1>2 DEF HistoryInv
<1>6. ContextComplete'
  BY <1>2 DEF ContextComplete, Context
<1> QED
  BY <1>3, <1>4, <1>5, <1>6

\* The prompt at the head of the queue goes to Bedrock.
LEMMA TakePromptInv ==
  ASSUME IInv, TakePrompt
  PROVE  IInv'
<1> USE DEF IInv, TakePrompt, params, clients
<1> DEFINE p == Head(prompt_queue)
<1>1. /\ p \in Nat /\ prompt_queue' \in Seq(Nat) /\ p \in Entries(prompt_queue)
      /\ Entries(prompt_queue') = Entries(prompt_queue) \ {p} /\ NoneTwice(prompt_queue')
  BY TailEntries DEF TypeOK, PlacesInv
<1>2. /\ conversation_history' \in Seq(SUBSET Nat)
      /\ Entries(conversation_history') = Entries(conversation_history) \cup {{p}}
  <2>1. {p} \in SUBSET Nat /\ conversation_history \in Seq(SUBSET Nat)
    BY <1>1 DEF TypeOK
  <2> QED
    BY <2>1, AppendEntries, ZenonT(30)
<1>3. TypeOK'
  BY <1>1, <1>2 DEF TypeOK
<1>4. PlacesInv'
  BY <1>1 DEF PlacesInv, Queued, Carried, Current
<1>5. HistoryInv'
  BY DEF HistoryInv
<1>6. ContextComplete'
  BY <1>2 DEF ContextComplete, Context
<1> QED
  BY <1>3, <1>4, <1>5, <1>6

\* The answer is there, and in the history with its prompt.
LEMMA AnsweredInv ==
  ASSUME IInv, Answered
  PROVE  IInv'
<1> USE DEF IInv, Answered, params, clients
<1>1. /\ conversation_history' \in Seq(SUBSET Nat)
      /\ Len(conversation_history') = Len(conversation_history) + 1
      /\ Entries(conversation_history') = Entries(conversation_history) \cup {{prompt}}
  <2>1. {prompt} \in SUBSET Nat /\ conversation_history \in Seq(SUBSET Nat)
    BY DEF TypeOK
  <2> QED
    BY <2>1, AppendEntries, ZenonT(30)
<1>2. pc' \in {"summarizing", "waiting"}
  OBVIOUS
<1>3. TypeOK'
  BY <1>1, <1>2 DEF TypeOK
<1>4. PlacesInv'
  BY <1>2 DEF PlacesInv, Queued, Carried, Current
<1>5. HistoryInv'
  <2>1. Len(conversation_history) # 0
    BY DEF TypeOK, HistoryInv
  <2> QED
    BY <1>1, <1>2, <2>1 DEF TypeOK, HistoryInv
<1>6. ContextComplete'
  BY <1>1, <1>2 DEF ContextComplete, Context
<1> QED
  BY <1>3, <1>4, <1>5, <1>6

\* The next run is given the summary of the history and the queue.
LEMMA ContinueAsNewInv ==
  ASSUME IInv, ContinueAsNew
  PROVE  IInv'
<1> USE DEF IInv, ContinueAsNew, Summarize, clients
<1>0. Entries(<<>>) = {} /\ NoneTwice(<<>>)
  BY DEF Entries, NoneTwice
<1>1. Context \subseteq Nat
  BY DEF TypeOK, Context, Entries
<1>2. TypeOK'
  <2>1. chat_ended' \in BOOLEAN
    BY Zenon
  <2> QED
    BY <1>1, <2>1 DEF TypeOK
<1>3. PlacesInv'
  BY <1>0 DEF PlacesInv, Queued, Carried, Current
<1>4. HistoryInv' /\ ContextComplete'
  BY DEF HistoryInv, ContextComplete
<1> QED
  BY <1>2, <1>3, <1>4

\* The chat ends with an empty queue: what it accepted is answered, and summarized.
LEMMA CloseInv ==
  ASSUME IInv, Close \/ Complete
  PROVE  IInv'
<1> USE DEF IInv, params, object, clients
<1>0. Entries(<<>>) = {}
  BY DEF Entries
<1>1. CASE Close
  <2>1. pc = "waiting" /\ prompt_queue = <<>> /\ chat_ended /\ pc' \in {"closing", "completed"}
        /\ UNCHANGED <<params, object, prompt, clients, answered>>
    BY <1>1 DEF Close
  <2>2. TypeOK' /\ PlacesInv' /\ HistoryInv'
    BY <2>1 DEF TypeOK, PlacesInv, Queued, Carried, Current, HistoryInv
  <2>3. answered = 1..sent \ dropped
    BY <1>0, <2>1 DEF PlacesInv, Queued, Carried, Current
  <2>4. pc' = "completed" => answered \subseteq conversation_summary
    <3> SUFFICES ASSUME Len(conversation_history) <= 1
                 PROVE  answered \subseteq conversation_summary
      BY <1>1 DEF Close, TypeOK
    <3>2. CASE conversation_history = <<>>
      BY <1>0, <2>1, <3>2 DEF ContextComplete, Context
    <3>3. CASE conversation_history # <<>>
      <4>0. Len(conversation_history) = 1
        BY <3>3, SingleEntry DEF TypeOK
      <4>1. conversation_history = <<conversation_summary>>
        BY <2>1, <4>0 DEF HistoryInv
      <4>2. Entries(conversation_history) = {conversation_summary}
        BY <4>1 DEF Entries
      <4> QED
        BY <2>1, <4>2 DEF ContextComplete, Context
    <3> QED
      BY <3>2, <3>3
  <2>5. ContextComplete'
    BY <2>1, <2>3, <2>4 DEF ContextComplete, Context
  <2> QED
    BY <2>2, <2>5
<1>2. CASE Complete
  <2>1. Context \subseteq Nat
    BY DEF TypeOK, Context, Entries
  <2>2. answered = 1..sent \ dropped
    BY <1>0, <1>2 DEF Complete, PlacesInv, Queued, Carried, Current, HistoryInv
  <2>3. TypeOK' /\ PlacesInv' /\ HistoryInv'
    BY <1>2, <2>1 DEF Complete, Summarize, TypeOK, PlacesInv, Queued, Carried, Current, HistoryInv
  <2>4. ContextComplete'
    BY <1>2, <2>2 DEF Complete, Summarize, ContextComplete, Context
  <2> QED
    BY <2>3, <2>4
<1> QED
  BY <1>1, <1>2

\* Every step preserves the inductive invariant.
LEMMA StepInv == IInv /\ [Next]_vars => IInv'
<1> SUFFICES ASSUME IInv, [Next]_vars PROVE IInv'
  OBVIOUS
<1>1. CASE EndChat
  BY <1>1 DEF EndChat, params, IInv, TypeOK, PlacesInv, Queued, Carried, Current, HistoryInv,
              ContextComplete, Context
<1>2. CASE Fail
  BY <1>2 DEF Fail, params, object, clients, IInv, TypeOK, PlacesInv, Queued, Carried, Current,
              HistoryInv, ContextComplete, Context
<1>3. CASE UNCHANGED vars
  BY <1>3 DEF vars, params, object, clients, IInv, TypeOK, PlacesInv, Queued, Carried, Current,
              HistoryInv, ContextComplete, Context
<1> QED
  BY <1>1, <1>2, <1>3, UserPromptInv, BeginInv, TakePromptInv, AnsweredInv, ContinueAsNewInv,
     CloseInv DEF Next, Run, Terminated
-----------------------------------------------------------------------------
\* The inductive invariant holds in every reachable state.
THEOREM Invariant == Spec => []IInv
  BY InitInv, StepInv, PTL DEF Spec

\* The queues and texts of the chat have their types.
THEOREM TypeCorrect == Spec => []TypeOK
<1>1. IInv => TypeOK
  BY DEF IInv
<1> QED
  BY Invariant, <1>1, PTL

\* The inductive invariant says what EachPromptOnce does.
LEMMA PlacesApart == IInv => EachPromptOnce
<1> SUFFICES ASSUME IInv PROVE EachPromptOnce
  OBVIOUS
<1> DEFINE places == <<dropped, answered, Current, Queued, Carried>>
<1>1. Entries(places) = {dropped, answered, Current, Queued, Carried}
  BY DEF Entries
<1>2. UNION Entries(places) = 1..sent \/ pc = "failed"
  BY <1>1 DEF IInv, PlacesInv
<1>3. \A i, k \in 1..5 : i # k => places[i] \cap places[k] = {}
  BY DEF IInv, PlacesInv
<1>4. Cardinality(Queued) = Len(prompt_queue)
  BY LengthOfQueue DEF IInv, TypeOK, PlacesInv, Queued
<1> QED
  BY <1>2, <1>3, <1>4 DEF EachPromptOnce, Queued, Carried, Current

\* EntityBedrockWorkflow loses no prompt and answers none twice, however many runs it is
\* continued in, and answers each in the context of all those answered before.
THEOREM Conversation == Spec => []PromptsInContext
<1>1. IInv => PromptsInContext
  BY PlacesApart DEF IInv, PromptsInContext
<1> QED
  BY Invariant, <1>1, PTL
=============================================================================
