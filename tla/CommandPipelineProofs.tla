----------------------- MODULE CommandPipelineProofs ------------------------
(***************************************************************************)
(* Theorems about CommandPipeline, for every input, every text tr may make *)
(* of it and every capacity of a pipe: readers see the end of their input, *)
(* and what is left in the output is each line that tr made, in order.     *)
(*                                                                         *)
(* Since the parent waits for each process before it forks the next, the   *)
(* lines are on their way in one direction only: in the memory of tr, its  *)
(* pipe, the memory of sort, its pipe and the output.  Which lines are on  *)
(* the way never changes from the moment tr has read; and behind sort they *)
(* are in order, each part before the part that follows it.                *)
(***************************************************************************)
EXTENDS CommandPipeline, SequenceTheorems, TLAPS

Over == {"exited", "failed"}

(* A process is forked when those before it are over.                      *)
OrderInv ==
  /\ \A s \in Stages :
       /\ s < i => pc[s] \in Over
       /\ s > i => pc[s] = "unborn"
       /\ pc[Parent] = "fork" /\ s = i => pc[s] = "unborn"
       /\ pc[Parent] \in {"close", "wait", "done"} /\ s = i => pc[s] # "unborn"
       /\ pc[s] = "failed" => lost
  /\ pc[Parent] = "done" => i = 2 /\ pc[2] \in Over
  /\ pc[2] # "write"

(* Who has no longer the ends of which pipe.                               *)
EndsInv ==
  /\ \A s \in Stages : pc[s] \in Over \cup {"unborn"} => ends[s] = {}
  /\ \A s \in Stages \ {0} : pc[s] = "read" => <<processPipe(s), "wr">> \notin ends[s]
  /\ pc[Parent] = "wait" => <<processPipe(i), "wr">> \notin ends[Parent]

OutputRead == IF pc[2] \in {"read", "exited"} THEN Range(output) ELSE {}
OnTheWay == Range(held[0]) \cup Range(pipe[0]) \cup Range(held[1]) \cup Range(pipe[1])
              \cup OutputRead

TrText == {Strip[input[k]] : k \in DOMAIN input}

(* No line is lost and none is added.                                      *)
FlowInv ==
  /\ pc[0] \in {"unborn", "start", "read"} => held[0] = <<>>
  /\ pc[0] \in {"unborn", "start", "read"} => pipe[0] = <<>>
  /\ pc[1] \in {"unborn", "start"} => held[1] = <<>>
  /\ pc[1] \in {"unborn", "start", "read"} => pipe[1] = <<>>
  /\ ~lost /\ pc[0] \in {"write", "exited"} => OnTheWay = TrText

(* A process that has ended has passed on all it read.                     *)
EmptiedInv ==
  ~lost =>
    /\ pc[0] = "exited" => held[0] = <<>>
    /\ pc[1] \in {"write", "exited"} => pipe[0] = <<>>
    /\ pc[1] = "exited" => held[1] = <<>>
    /\ pc[2] = "exited" => pipe[1] = <<>>

Before(S, R) == \A x \in S, y \in R : x <= y

(* Behind sort the lines are in order.                                     *)
SortedInv ==
  /\ pc[1] \in {"write", "exited"} => Sorted(held[1])
  /\ Sorted(pipe[1])
  /\ pc[1] \in {"write", "exited"} => Before(Range(pipe[1]), Range(held[1]))
  /\ pc[2] \in {"read", "exited"} /\ ~lost =>
       /\ Ascending(output)
       /\ Before(Range(output), Range(pipe[1]))

ControlInv == PipelineTypeOK /\ OrderInv /\ EndsInv
DataInv    == FlowInv /\ EmptiedInv /\ SortedInv
-----------------------------------------------------------------------------
(* The numbers of stages and pipes.                                        *)
LEMMA Concrete ==
  /\ Stages = {0, 1, 2} /\ Pipes = {0, 1} /\ Parent = 3 /\ PROCESS_COUNT = 3
  /\ processPipe(1) = 0 /\ processPipe(2) = 1
  /\ \A e \in {"rd", "wr"} : <<0, e>> \in Ends /\ <<1, e>> \in Ends
BY DEF Stages, Pipes, Parent, PROCESS_COUNT, processPipe, Ends

(* Texts are sequences.                                                    *)
LEMMA TextsAreSequences == input \in Texts => input \in Seq(Lines)
<1> SUFFICES ASSUME input \in Texts PROVE input \in Seq(Lines)
  OBVIOUS
<1>1. PICK m \in 0..MaxInput : input \in [1..m -> Lines]
  BY DEF Texts, SeqOf
<1>2. m \in Nat
  BY PipelineAssumption
<1>3. input \in UNION {[1..n -> Lines] : n \in Nat}
  BY <1>1, <1>2
<1> QED BY <1>3, SeqDef

(* Appending to and taking from a sequence, as its elements see it.        *)
LEMMA AppendRange ==
  ASSUME NEW S, NEW s \in Seq(S), NEW x \in S
  PROVE  Range(Append(s, x)) = Range(s) \cup {x}
<1>1. /\ DOMAIN s = 1..Len(s) /\ Len(s) \in Nat /\ DOMAIN Append(s, x) = 1..(Len(s) + 1)
      /\ \A k \in 1..Len(s) : Append(s, x)[k] = s[k]
      /\ Append(s, x)[Len(s) + 1] = x
  OBVIOUS
<1> DEFINE t == Append(s, x)
<1> HIDE DEF t
<1>2. {t[k] : k \in DOMAIN t} = {s[k] : k \in DOMAIN s} \cup {x}
  BY <1>1 DEF t
<1> QED
  BY <1>2 DEF Range, t

LEMMA TailRange ==
  ASSUME NEW S, NEW s \in Seq(S), s # <<>>
  PROVE  /\ Range(s) = {Head(s)} \cup Range(Tail(s))
         /\ Head(s) \in S /\ Tail(s) \in Seq(S) /\ Len(Tail(s)) = Len(s) - 1
<1> DEFINE t == Tail(s)
<1>1. /\ DOMAIN s = 1..Len(s) /\ Len(s) \in Nat \ {0} /\ Head(s) = s[1] /\ Head(s) \in S
      /\ t \in Seq(S) /\ Len(t) = Len(s) - 1 /\ DOMAIN t = 1..(Len(s) - 1)
      /\ \A k \in 1..(Len(s) - 1) : t[k] = s[k + 1]
  OBVIOUS
<1> HIDE DEF t
<1>2. \A k \in DOMAIN s : s[k] \in {s[1]} \cup {t[j] : j \in DOMAIN t}
  <2> SUFFICES ASSUME NEW k \in DOMAIN s, k # 1 PROVE \E j \in DOMAIN t : t[j] = s[k]
    OBVIOUS
  <2>1. k - 1 \in DOMAIN t /\ t[k - 1] = s[k]
    BY <1>1
  <2> QED
    BY <2>1
<1>3. ASSUME NEW j \in DOMAIN t PROVE t[j] \in {s[k] : k \in DOMAIN s}
  <2>1. j \in 1..(Len(s) - 1) /\ t[j] = s[j + 1]
    BY <1>1
  <2>2. j + 1 \in DOMAIN s
    BY <1>1, <2>1
  <2> QED BY <2>1, <2>2
<1>4. s[1] \in {s[k] : k \in DOMAIN s}
  BY <1>1
<1> QED
  BY <1>1, <1>2, <1>3, <1>4 DEF Range, t

LEMMA SortedTail ==
  ASSUME NEW S, NEW s \in Seq(S), s # <<>>, Sorted(s)
  PROVE  Sorted(Tail(s)) /\ Before({Head(s)}, Range(Tail(s)))
<1> DEFINE t == Tail(s)
<1>1. /\ DOMAIN s = 1..Len(s) /\ Len(s) \in Nat \ {0} /\ Head(s) = s[1]
      /\ DOMAIN t = 1..(Len(s) - 1) /\ \A k \in 1..(Len(s) - 1) : t[k] = s[k + 1]
  OBVIOUS
<1> HIDE DEF t
<1>2. Sorted(t)
  BY <1>1 DEF Sorted
<1>3. \A k \in DOMAIN t : s[1] <= t[k]
  BY <1>1 DEF Sorted
<1> QED
  BY <1>1, <1>2, <1>3 DEF Before, Range, t

LEMMA SortedAppend ==
  ASSUME NEW S, NEW s \in Seq(S), NEW x \in S, Sorted(s), Before(Range(s), {x})
  PROVE  Sorted(Append(s, x))
<1> DEFINE t == Append(s, x)
<1>1. /\ DOMAIN s = 1..Len(s) /\ Len(s) \in Nat /\ DOMAIN t = 1..(Len(s) + 1)
      /\ \A k \in 1..Len(s) : t[k] = s[k]
      /\ t[Len(s) + 1] = x
  OBVIOUS
<1> HIDE DEF t
<1>2. \A k \in DOMAIN s : s[k] <= x
  BY DEF Before, Range
<1>3. Sorted(t)
  BY <1>1, <1>2 DEF Sorted
<1> QED
  BY <1>3 DEF t

LEMMA AscendingAppend ==
  ASSUME NEW S, S \subseteq Int, NEW s \in Seq(S), NEW x \in S, Ascending(s),
         Before(Range(s), {x}), s = <<>> \/ Last(s) # x
  PROVE  Ascending(Append(s, x))
<1> DEFINE t == Append(s, x)
<1>1. /\ DOMAIN s = 1..Len(s) /\ Len(s) \in Nat /\ DOMAIN t = 1..(Len(s) + 1)
      /\ \A k \in 1..Len(s) : t[k] = s[k] /\ s[k] \in S
      /\ t[Len(s) + 1] = x
  OBVIOUS
<1>i. x \in Int /\ \A k \in 1..Len(s) : s[k] \in Int
  BY <1>1
<1> HIDE DEF t
<1>2. \A k \in DOMAIN s : s[k] <= x
  BY DEF Before, Range
<1>3. \A k \in 1..Len(s) : s[k] < x
  <2> SUFFICES ASSUME NEW k \in 1..Len(s) PROVE s[k] < x
    OBVIOUS
  <2>1. Len(s) \in DOMAIN s /\ s[Len(s)] # x
    BY <1>1 DEF Last
  <2>2. s[Len(s)] < x
    BY <1>1, <1>i, <1>2, <2>1
  <2>3. CASE k = Len(s)
    BY <2>2, <2>3
  <2>4. CASE k < Len(s)
    <3>1. s[k] < s[Len(s)]
      BY <1>1, <2>1, <2>4 DEF Ascending
    <3> QED
      BY <1>1, <1>i, <2>1, <2>2, <3>1
  <2>5. Len(s) \in Nat
    OBVIOUS
  <2>6. k = Len(s) \/ k < Len(s)
    BY <2>5
  <2> QED
    BY <2>3, <2>4, <2>6
<1>4. Ascending(t)
  BY <1>1, <1>i, <1>3 DEF Ascending
<1> QED
  BY <1>4 DEF t

LEMMA ReorderedIsSame ==
  ASSUME NEW S, NEW s \in Seq(S), NEW t \in Reorderings(s)
  PROVE  t \in Seq(S) /\ Len(t) = Len(s) /\ Range(t) = Range(s)
<1>1. DOMAIN s = 1..Len(s) /\ Len(s) \in Nat
  OBVIOUS
<1>2. PICK p \in Bijection(DOMAIN s, DOMAIN s) : t = [k \in DOMAIN s |-> s[p[k]]]
  BY DEF Reorderings
<1>3. /\ \A k \in DOMAIN s : p[k] \in DOMAIN s
      /\ \A j \in DOMAIN s : \E k \in DOMAIN s : p[k] = j
  BY DEF Bijection, Injection, Surjection
<1>4. t \in [1..Len(s) -> S]
  BY <1>1, <1>2, <1>3
<1>5. t \in Seq(S) /\ Len(t) = Len(s) /\ DOMAIN t = DOMAIN s
  BY <1>1, <1>4
<1>6. {t[k] : k \in DOMAIN s} = {s[j] : j \in DOMAIN s}
  <2>1. \A k \in DOMAIN s : t[k] \in {s[j] : j \in DOMAIN s}
    BY <1>2, <1>3
  <2>2. \A j \in DOMAIN s : s[j] \in {t[k] : k \in DOMAIN s}
    <3> SUFFICES ASSUME NEW j \in DOMAIN s PROVE \E k \in DOMAIN s : t[k] = s[j]
      OBVIOUS
    <3> QED
      BY <1>2, <1>3
  <2> QED
    BY <2>1, <2>2
<1> QED
  BY <1>5, <1>6 DEF Range
-----------------------------------------------------------------------------
(* Where the processes are and who has which end of a pipe.                *)

LEMMA ControlInit == PipelineInit => ControlInv
<1> SUFFICES ASSUME PipelineInit PROVE ControlInv
  OBVIOUS
<1> USE Concrete
<1>1. \A s \in {0, 1, 2} : pc[s] = "unborn" /\ ends[s] = {}
  BY DEF PipelineInit
<1>2. pc[3] = "fork" /\ i = 0 /\ lost = FALSE
  BY DEF PipelineInit
<1>3. PipelineTypeOK
  <2>1. \A n \in Nat : SeqOf(Lines, n) \subseteq Seq(Lines)
    BY DEF SeqOf
  <2>2. input \in Texts /\ output \in Seq(Lines)
    BY <2>1 DEF PipelineInit
  <2>3. pipe \in [Pipes -> Seq(Lines)] /\ \A k \in Pipes : Len(pipe[k]) <= Capacity
    BY PipelineAssumption DEF PipelineInit
  <2>4. pc \in [Stages \cup {Parent} -> StagePlaces \cup ParentPlaces]
    BY DEF PipelineInit, StagePlaces, ParentPlaces
  <2> QED
    BY <1>1, <1>2, <2>2, <2>3, <2>4 DEF PipelineInit, PipelineTypeOK, StagePlaces, ParentPlaces
<1>4. OrderInv
  BY <1>1, <1>2 DEF OrderInv, Over
<1>5. EndsInv
  BY <1>1, <1>2 DEF EndsInv, Over
<1> QED
  BY <1>3, <1>4, <1>5 DEF ControlInv

(* A stage that was forked is the last one while it is not over.           *)
LEMMA OneAtATime ==
  ASSUME OrderInv, PipelineTypeOK, NEW s \in Stages, pc[s] \notin Over \cup {"unborn"}
  PROVE  s = i /\ pc[Parent] \in {"close", "wait"}
BY Concrete DEF OrderInv, PipelineTypeOK, ParentPlaces

(* A stage goes on from one place to another, giving up some ends.         *)
LEMMA StageMoves ==
  ASSUME ControlInv, NEW s \in Stages, pc[s] \notin Over \cup {"unborn"},
         NEW l \in {"read", "write", "exited"}, pc' = [pc EXCEPT ![s] = l],
         NEW E \in SUBSET ends[s], ends' = [ends EXCEPT ![s] = E],
         l = "exited" => E = {},
         l = "read" /\ s # 0 => <<processPipe(s), "wr">> \notin E,
         l = "write" => s # 2,
         lost' \in BOOLEAN, lost => lost', i' = i
  PROVE  /\ OrderInv' /\ EndsInv'
         /\ pc' \in [Stages \cup {Parent} -> StagePlaces \cup ParentPlaces]
         /\ \A t \in Stages : pc'[t] \in StagePlaces
         /\ pc'[Parent] \in ParentPlaces
         /\ ends' \in [Stages \cup {Parent} -> SUBSET Ends]
<1> USE Concrete
<1>0. PipelineTypeOK /\ OrderInv /\ EndsInv
  BY DEF ControlInv
<1>1. /\ pc'[s] = l /\ \A p \in {0, 1, 2, 3} \ {s} : pc'[p] = pc[p]
      /\ ends'[s] = E /\ \A p \in {0, 1, 2, 3} \ {s} : ends'[p] = ends[p]
  BY <1>0 DEF PipelineTypeOK
<1>2. s = i /\ pc[3] \in {"close", "wait"} /\ pc'[3] = pc[3]
  BY <1>0, <1>1, OneAtATime
<1>3. OrderInv'
  BY <1>0, <1>1, <1>2 DEF OrderInv, Over
<1>4. EndsInv'
  <2>1. \A t \in {0, 1, 2} : pc'[t] \in Over \cup {"unborn"} => ends'[t] = {}
    BY <1>0, <1>1 DEF EndsInv, Over
  <2>2. \A t \in {1, 2} : pc'[t] = "read" => <<processPipe(t), "wr">> \notin ends'[t]
    BY <1>0, <1>1 DEF EndsInv
  <2>3. pc'[3] = "wait" => <<processPipe(i), "wr">> \notin ends'[3]
    BY <1>0, <1>1, <1>2 DEF EndsInv
  <2> QED
    BY <2>1, <2>2, <2>3 DEF EndsInv
<1>5. "read" \in StagePlaces /\ "write" \in StagePlaces /\ "exited" \in StagePlaces
  BY DEF StagePlaces
<1> QED
  BY <1>0, <1>1, <1>3, <1>4, <1>5 DEF PipelineTypeOK

LEMMA ControlStep ==
  ASSUME ControlInv, [PipelineNext]_pipelineVars
  PROVE  ControlInv'
<1> USE Concrete
<1>0. PipelineTypeOK /\ OrderInv /\ EndsInv
  BY DEF ControlInv
<1>t. \A k \in {0, 1} : pipe[k] \in Seq(Lines) /\ Len(pipe[k]) <= Capacity
  BY <1>0 DEF PipelineTypeOK
<1>1. CASE Fork
  <2>1. /\ pc[3] = "fork" /\ pc[i] = "unborn" /\ i \in {0, 1, 2}
        /\ \/ pc' = [pc EXCEPT ![i] = "start", ![Parent] = "close"] /\ lost' = lost
              /\ ends' = [ends EXCEPT ![i] = ends[Parent]]
           \/ pc' = [pc EXCEPT ![i] = "failed", ![Parent] = "close"] /\ lost' = TRUE
              /\ ends' = ends
        /\ UNCHANGED <<input, output, held, pipe, i>>
    BY <1>0, <1>1 DEF Fork, OrderInv, PipelineTypeOK
  <2>2. /\ pc'[3] = "close" /\ \A s \in {0, 1, 2} \ {i} : pc'[s] = pc[s] /\ ends'[s] = ends[s]
        /\ \/ pc'[i] = "start" /\ ends'[i] = ends[3] /\ lost' = lost
           \/ pc'[i] = "failed" /\ ends'[i] = ends[i] /\ lost' = TRUE
    BY <1>0, <2>1 DEF PipelineTypeOK
  <2>3. PipelineTypeOK'
    <3>1. /\ pc' \in [Stages \cup {Parent} -> StagePlaces \cup ParentPlaces]
          /\ \A s \in Stages : pc'[s] \in StagePlaces
          /\ pc'[Parent] \in ParentPlaces
      BY <1>0, <2>1, <2>2 DEF PipelineTypeOK, StagePlaces, ParentPlaces
    <3>2. ends' \in [Stages \cup {Parent} -> SUBSET Ends] /\ lost' \in BOOLEAN
      BY <1>0, <2>1 DEF PipelineTypeOK
    <3> QED
      BY <1>0, <2>1, <3>1, <3>2 DEF PipelineTypeOK
  <2>4. OrderInv'
    BY <1>0, <2>1, <2>2 DEF OrderInv, Over
  <2>5. EndsInv'
    BY <1>0, <2>1, <2>2 DEF EndsInv, Over
  <2> QED
    BY <2>3, <2>4, <2>5 DEF ControlInv
<1>2. CASE Close
  <2>1. /\ pc[3] = "close" /\ pc' = [pc EXCEPT ![3] = "wait"]
        /\ ends' = [ends EXCEPT ![3] = @ \ {<<processPipe(i), "rd">>, <<processPipe(i), "wr">>}]
        /\ UNCHANGED <<input, output, held, pipe, i, lost>>
    BY <1>2 DEF Close, Goes
  <2>2. /\ pc'[3] = "wait" /\ <<processPipe(i), "wr">> \notin ends'[3]
        /\ \A s \in {0, 1, 2} : pc'[s] = pc[s] /\ ends'[s] = ends[s]
    BY <1>0, <2>1 DEF PipelineTypeOK
  <2>3. PipelineTypeOK'
    <3>1. /\ pc' \in [Stages \cup {Parent} -> StagePlaces \cup ParentPlaces]
          /\ \A s \in Stages : pc'[s] \in StagePlaces
          /\ pc'[Parent] \in ParentPlaces
      BY <1>0, <2>1, <2>2 DEF PipelineTypeOK, ParentPlaces
    <3>2. ends' \in [Stages \cup {Parent} -> SUBSET Ends]
      BY <1>0, <2>1 DEF PipelineTypeOK
    <3> QED
      BY <1>0, <2>1, <3>1, <3>2 DEF PipelineTypeOK
  <2>4. OrderInv'
    BY <1>0, <2>1, <2>2 DEF OrderInv, Over
  <2>5. EndsInv'
    BY <1>0, <2>1, <2>2 DEF EndsInv, Over
  <2> QED
    BY <2>3, <2>4, <2>5 DEF ControlInv
<1>3. CASE WaitFor
  <2>1. /\ pc[3] = "wait" /\ pc[i] \in Over /\ i \in {0, 1, 2}
        /\ \/ i < 2 /\ i' = i + 1 /\ pc' = [pc EXCEPT ![3] = "fork"]
           \/ i = 2 /\ i' = i /\ pc' = [pc EXCEPT ![3] = "done"]
        /\ UNCHANGED <<input, output, held, pipe, ends, lost>>
    BY <1>0, <1>3 DEF WaitFor, Goes, PipelineTypeOK, Over
  <2>2. /\ \A s \in {0, 1, 2} : pc'[s] = pc[s]
        /\ \/ i < 2 /\ i' = i + 1 /\ pc'[3] = "fork"
           \/ i = 2 /\ i' = i /\ pc'[3] = "done"
    BY <1>0, <2>1 DEF PipelineTypeOK
  <2>3. PipelineTypeOK'
    <3>1. /\ pc' \in [Stages \cup {Parent} -> StagePlaces \cup ParentPlaces]
          /\ \A s \in Stages : pc'[s] \in StagePlaces
          /\ pc'[Parent] \in ParentPlaces
      BY <1>0, <2>1, <2>2 DEF PipelineTypeOK, ParentPlaces
    <3>2. i' \in Stages
      BY <2>1
    <3> QED
      BY <1>0, <2>1, <3>1, <3>2 DEF PipelineTypeOK
  <2>4. OrderInv'
    BY <1>0, <2>1, <2>2 DEF OrderInv, Over
  <2>5. EndsInv'
    BY <1>0, <2>1, <2>2 DEF EndsInv, Over
  <2> QED
    BY <2>3, <2>4, <2>5 DEF ControlInv
<1>s. ASSUME NEW s \in Stages, StageStep(s) PROVE ControlInv'
  <2>x. ASSUME pc[s] \notin Over \cup {"unborn"}, NEW l \in {"read", "write", "exited"},
               pc' = [pc EXCEPT ![s] = l], NEW E \in SUBSET ends[s],
               ends' = [ends EXCEPT ![s] = E], l = "exited" => E = {},
               l = "read" /\ s # 0 => <<processPipe(s), "wr">> \notin E, l = "write" => s # 2,
               lost' = lost \/ lost' = TRUE, i' = i, input' = input,
               output' \in Seq(Lines), held' \in [Stages -> Seq(Lines)],
               pipe' \in [Pipes -> Seq(Lines)], \A k \in Pipes : Len(pipe'[k]) <= Capacity
        PROVE  ControlInv'
    <3>1. lost' \in BOOLEAN /\ (lost => lost')
      <4>1. lost \in BOOLEAN
        BY <1>0 DEF PipelineTypeOK
      <4>2. lost' = lost \/ lost' = TRUE
        BY <2>x
      <4> QED
        BY <4>1, <4>2
    <3>2. /\ OrderInv' /\ EndsInv'
          /\ pc' \in [Stages \cup {Parent} -> StagePlaces \cup ParentPlaces]
          /\ \A t \in Stages : pc'[t] \in StagePlaces
          /\ pc'[Parent] \in ParentPlaces
          /\ ends' \in [Stages \cup {Parent} -> SUBSET Ends]
      BY <2>x, <3>1, StageMoves
    <3> QED
      BY <1>0, <2>x, <3>1, <3>2 DEF ControlInv, PipelineTypeOK
  <2>y. ASSUME UNCHANGED <<pc, ends, lost, i, input>>,
               output' \in Seq(Lines), held' \in [Stages -> Seq(Lines)],
               pipe' \in [Pipes -> Seq(Lines)], \A k \in Pipes : Len(pipe'[k]) <= Capacity
        PROVE  ControlInv'
    BY <1>0, <2>y DEF ControlInv, PipelineTypeOK, OrderInv, EndsInv
  <2>0. /\ output \in Seq(Lines) /\ <<>> \in Seq(Lines) /\ held \in [Stages -> Seq(Lines)]
        /\ pipe \in [Pipes -> Seq(Lines)] /\ \A k \in Pipes : Len(pipe[k]) <= Capacity
        /\ pc[s] \in StagePlaces /\ ends[s] = ends[s] \cap ends[s]
    BY <1>0 DEF PipelineTypeOK
  <2>e. [ends EXCEPT ![s] = ends[s]] = ends
    BY <1>0 DEF PipelineTypeOK
  <2>1. CASE GiveUp(s)
    <3>1. pc' = [pc EXCEPT ![s] = "exited"] /\ ends' = [ends EXCEPT ![s] = {}] /\ pc[s] = "start"
      BY <2>1 DEF GiveUp, Exit
    <3> QED
      BY <2>0, <2>1, <2>x, <3>1 DEF GiveUp, Over
  <2>2. CASE s = 0 /\ BeTr
    BY <2>0, <2>2, <2>x DEF BeTr, Goes, Over
  <2>3. CASE s = 1 /\ BeSort
    BY <2>0, <2>3, <2>x DEF BeSort, Goes, Over
  <2>4. CASE s = 2 /\ BeUniq
    <3>1. /\ pc' = [pc EXCEPT ![2] = "read"] /\ pc[2] = "start" /\ output' = <<>>
          /\ ends' = [ends EXCEPT ![2] = ends[2] \ {<<1, "wr">>}]
          /\ UNCHANGED <<input, held, pipe, i, lost>>
      BY <2>4 DEF BeUniq, Goes
    <3> QED
      BY <2>0, <2>4, <2>x, <3>1 DEF Over
  <2>5. CASE s = 0 /\ TrRead
    <3>1. held' \in [Stages -> Seq(Lines)]
      <4>1. input \in Seq(Lines)
        BY <1>0, TextsAreSequences DEF PipelineTypeOK
      <4>2. [k \in DOMAIN input |-> Strip[input[k]]] \in Seq(Lines)
        <5>1. DOMAIN input = 1..Len(input) /\ Len(input) \in Nat
              /\ \A k \in 1..Len(input) : input[k] \in Lines
          BY <4>1
        <5>2. \A k \in 1..Len(input) : Strip[input[k]] \in Lines
          BY <5>1, PipelineAssumption
        <5> QED
          BY <5>1, <5>2
      <4> QED
        BY <2>0, <2>5, <4>2 DEF TrRead
    <3>2. ends' = [ends EXCEPT ![s] = ends[s]] /\ pc' = [pc EXCEPT ![s] = "write"] /\ pc[s] = "read"
      BY <2>5, <2>e DEF TrRead, Goes
    <3>3. /\ output' \in Seq(Lines) /\ pipe' \in [Pipes -> Seq(Lines)]
          /\ \A k \in Pipes : Len(pipe'[k]) <= Capacity
          /\ i' = i /\ input' = input /\ lost' = lost
          /\ pc[s] \notin Over \cup {"unborn"} /\ ends[s] \in SUBSET ends[s] /\ s # 2
      BY <2>0, <2>5, <3>2 DEF TrRead, Over
    <3> QED
      BY <2>x, <3>1, <3>2, <3>3
  <2>6. CASE s = 1 /\ SortRead
    <3>1. CASE pipe[0] # <<>> /\ held' = [held EXCEPT ![1] = Append(@, Head(pipe[0]))]
               /\ pipe' = [pipe EXCEPT ![0] = Tail(@)] /\ UNCHANGED pc
      <4>1. Head(pipe[0]) \in Lines /\ Tail(pipe[0]) \in Seq(Lines) /\ Len(Tail(pipe[0])) <= Capacity
        BY <1>t, <3>1, TailRange, PipelineAssumption
      <4>2. held' \in [Stages -> Seq(Lines)] /\ pipe' \in [Pipes -> Seq(Lines)]
        BY <2>0, <3>1, <4>1
      <4>3. \A k \in Pipes : Len(pipe'[k]) <= Capacity
        BY <2>0, <3>1, <4>1
      <4> QED
        BY <2>0, <2>6, <2>y, <3>1, <4>2, <4>3 DEF SortRead
    <3>2. CASE (\E t \in Reorderings(held[1]) : Sorted(t) /\ held' = [held EXCEPT ![1] = t])
               /\ Goes(1, "write") /\ UNCHANGED pipe
      <4>1. held' \in [Stages -> Seq(Lines)]
        BY <2>0, <3>2, ReorderedIsSame
      <4>2. ends' = [ends EXCEPT ![s] = ends[s]] /\ pc' = [pc EXCEPT ![s] = "write"] /\ pc[s] = "read"
        BY <2>6, <2>e, <3>2 DEF SortRead, Goes
      <4>3. /\ output' \in Seq(Lines) /\ pipe' \in [Pipes -> Seq(Lines)]
            /\ \A k \in Pipes : Len(pipe'[k]) <= Capacity
            /\ i' = i /\ input' = input /\ lost' = lost
            /\ pc[s] \notin Over \cup {"unborn"} /\ ends[s] \in SUBSET ends[s] /\ s # 2
        BY <2>0, <2>6, <3>2, <4>2 DEF SortRead, Over
      <4> QED
        BY <2>x, <4>1, <4>2, <4>3
    <3> QED
      BY <2>6, <3>1, <3>2 DEF SortRead
  <2>7. CASE s = 2 /\ UniqRead
    <3>1. CASE pipe[1] # <<>> /\ pipe' = [pipe EXCEPT ![1] = Tail(@)] /\ UNCHANGED <<pc, ends>>
               /\ output' = IF output # <<>> /\ Last(output) = Head(pipe[1])
                              THEN output ELSE Append(output, Head(pipe[1]))
      <4>1. Head(pipe[1]) \in Lines /\ Tail(pipe[1]) \in Seq(Lines) /\ Len(Tail(pipe[1])) <= Capacity
        BY <1>t, <3>1, TailRange, PipelineAssumption
      <4>2. output' \in Seq(Lines)
        BY <2>0, <3>1, <4>1
      <4>3. pipe' \in [Pipes -> Seq(Lines)] /\ \A k \in Pipes : Len(pipe'[k]) <= Capacity
        BY <2>0, <3>1, <4>1
      <4> QED
        BY <2>0, <2>7, <2>y, <3>1, <4>2, <4>3 DEF UniqRead
    <3>2. CASE Exit(2) /\ UNCHANGED <<output, pipe>>
      <4>1. ends' = [ends EXCEPT ![2] = {}] /\ pc' = [pc EXCEPT ![2] = "exited"] /\ pc[2] = "read"
        BY <2>7, <3>2 DEF UniqRead, Exit
      <4> QED
        BY <2>0, <2>7, <2>x, <3>2, <4>1 DEF UniqRead, Over
    <3> QED
      BY <2>7, <3>1, <3>2 DEF UniqRead
  <2>8. CASE PipeWrite(s)
    <3>1. CASE held[s] # <<>> /\ Len(pipe[s]) < Capacity /\ UNCHANGED <<pc, ends>>
               /\ pipe' = [pipe EXCEPT ![s] = Append(@, Head(held[s]))]
               /\ held' = [held EXCEPT ![s] = Tail(@)]
      <4>0. s \in {0, 1} /\ held[s] \in Seq(Lines) /\ pipe[s] \in Seq(Lines)
        BY <2>0, <2>8 DEF PipeWrite
      <4>1. Head(held[s]) \in Lines /\ Tail(held[s]) \in Seq(Lines)
        BY <3>1, <4>0, TailRange
      <4>2. Append(pipe[s], Head(held[s])) \in Seq(Lines) /\ Len(Append(pipe[s], Head(held[s]))) <= Capacity
        BY <3>1, <4>0, <4>1, PipelineAssumption
      <4>3. held' \in [Stages -> Seq(Lines)] /\ pipe' \in [Pipes -> Seq(Lines)]
        BY <2>0, <3>1, <4>0, <4>1, <4>2
      <4>4. \A k \in Pipes : Len(pipe'[k]) <= Capacity
        BY <2>0, <3>1, <4>0, <4>2
      <4> QED
        BY <2>0, <2>8, <2>y, <3>1, <4>3, <4>4 DEF PipeWrite
    <3>2. CASE Exit(s) /\ UNCHANGED <<pipe, held>>
      <4>1. ends' = [ends EXCEPT ![s] = {}] /\ pc' = [pc EXCEPT ![s] = "exited"] /\ pc[s] = "write"
        BY <2>8, <3>2 DEF PipeWrite, Exit
      <4> QED
        BY <2>0, <2>8, <2>x, <3>2, <4>1 DEF PipeWrite, Over
    <3> QED
      BY <2>8, <3>1, <3>2 DEF PipeWrite
  <2> QED
    BY <1>s, <2>1, <2>2, <2>3, <2>4, <2>5, <2>6, <2>7, <2>8 DEF StageStep
<1>4. CASE UNCHANGED pipelineVars
  BY <1>0, <1>4 DEF pipelineVars, ControlInv, PipelineTypeOK, OrderInv, EndsInv
<1> QED
  BY <1>1, <1>2, <1>3, <1>s, <1>4 DEF PipelineNext, ParentRuns
-----------------------------------------------------------------------------
(* Which lines are on the way, and in which order.                         *)

LEMMA EmptyText ==
  /\ Range(<<>>) = {} /\ Sorted(<<>>) /\ Ascending(<<>>)
  /\ \A S : Before({}, S) /\ Before(S, {})
BY DEF Range, Sorted, Ascending, Before

LEMMA DataInit == PipelineInit => DataInv
<1> SUFFICES ASSUME PipelineInit PROVE DataInv
  OBVIOUS
<1>1. /\ pc[0] = "unborn" /\ pc[1] = "unborn" /\ pc[2] = "unborn"
      /\ held[0] = <<>> /\ held[1] = <<>> /\ pipe[0] = <<>> /\ pipe[1] = <<>>
  BY Concrete DEF PipelineInit
<1>3. FlowInv /\ EmptiedInv
  BY <1>1 DEF FlowInv, EmptiedInv
<1>4. SortedInv
  BY <1>1, EmptyText DEF SortedInv
<1> QED
  BY <1>3, <1>4 DEF DataInv

(* While a stage runs, those before it are over and those after it unborn. *)
LEMMA RunsAlone ==
  ASSUME ControlInv
  PROVE  /\ pc[0] \notin Over => pc[1] = "unborn" /\ pc[2] = "unborn"
         /\ pc[1] \notin Over => pc[2] = "unborn"
         /\ pc[1] # "unborn" => pc[0] \in Over
         /\ pc[2] # "unborn" => pc[1] \in Over
         /\ \A s \in {0, 1, 2} : pc[s] = "failed" => lost
         /\ i \in {0, 1, 2}
BY Concrete DEF ControlInv, OrderInv, PipelineTypeOK, Over

(* The sequences, and the numbers their elements are.                      *)
LEMMA SequencesOfLines ==
  ASSUME ControlInv
  PROVE  /\ \A s \in {0, 1} : held[s] \in Seq(Lines) /\ pipe[s] \in Seq(Lines)
         /\ output \in Seq(Lines) /\ input \in Seq(Lines) /\ Len(input) \in Nat
         /\ \A s \in {0, 1} : Range(held[s]) \subseteq Lines /\ Range(pipe[s]) \subseteq Lines
         /\ Range(output) \subseteq Lines
         /\ Lines \subseteq Int
<1>1. \A s \in {0, 1} : held[s] \in Seq(Lines) /\ pipe[s] \in Seq(Lines)
  BY Concrete DEF ControlInv, PipelineTypeOK
<1>2. output \in Seq(Lines) /\ input \in Seq(Lines)
  BY TextsAreSequences DEF ControlInv, PipelineTypeOK
<1>3. \A t \in Seq(Lines) : Range(t) \subseteq Lines /\ Len(t) \in Nat
  BY DEF Range
<1> QED
  BY <1>1, <1>2, <1>3, PipelineAssumption

(* A step of the parent, or of a stage that only opens files.              *)
LEMMA DataRests ==
  ASSUME DataInv, UNCHANGED <<input, output, held, pipe>>, lost => lost', lost \in BOOLEAN,
         \A s \in {0, 1, 2} : \/ pc'[s] = pc[s]
                              \/ pc[s] \in {"unborn", "start"} /\ pc'[s] \in {"start", "failed"}
                              \/ pc[s] = "start" /\ pc'[s] = "read" /\ s # 2
  PROVE  DataInv'
<1>1. /\ pc'[0] \in {"unborn", "start", "read"} => pc[0] \in {"unborn", "start", "read"}
      /\ pc'[1] \in {"unborn", "start"} => pc[1] \in {"unborn", "start"}
      /\ pc'[1] \in {"unborn", "start", "read"} => pc[1] \in {"unborn", "start", "read"}
      /\ pc'[0] \in {"write", "exited"} => pc'[0] = pc[0]
      /\ pc'[1] \in {"write", "exited"} => pc'[1] = pc[1]
      /\ pc'[2] \in {"read", "exited"} <=> pc[2] \in {"read", "exited"}
      /\ pc'[2] = "exited" => pc[2] = "exited"
  OBVIOUS
<1>2. OutputRead' = OutputRead
  BY <1>1 DEF OutputRead
<1>3. FlowInv'
  BY <1>1, <1>2 DEF DataInv, FlowInv, OnTheWay, TrText
<1>4. EmptiedInv'
  BY <1>1 DEF DataInv, EmptiedInv
<1>5. SortedInv'
  BY <1>1 DEF DataInv, SortedInv
<1> QED
  BY <1>3, <1>4, <1>5 DEF DataInv

LEMMA GiveUpKeeps ==
  ASSUME ControlInv, DataInv, NEW s \in Stages, GiveUp(s)
  PROVE  DataInv'
<1>1. /\ pc[s] = "start" /\ pc'[s] = "exited" /\ lost' = TRUE
      /\ \A t \in {0, 1, 2} \ {s} : pc'[t] = pc[t]
      /\ UNCHANGED <<input, held, pipe>> /\ s \in {0, 1, 2}
  BY Concrete DEF GiveUp, Exit, ControlInv, PipelineTypeOK
<1>2. FlowInv'
  BY <1>1 DEF DataInv, FlowInv
<1>3. EmptiedInv'
  BY <1>1 DEF EmptiedInv
<1>4. SortedInv'
  <2>1. s = 1 => held[1] = <<>>
    BY <1>1 DEF DataInv, FlowInv
  <2>2. s # 1 => pc'[1] = pc[1]
    BY <1>1
  <2> QED
    BY <1>1, <2>1, <2>2, EmptyText DEF DataInv, SortedInv
<1> QED
  BY <1>2, <1>3, <1>4 DEF DataInv

LEMMA BeUniqKeeps ==
  ASSUME ControlInv, DataInv, BeUniq
  PROVE  DataInv'
<1>1. /\ pc[2] = "start" /\ pc'[2] = "read" /\ pc'[0] = pc[0] /\ pc'[1] = pc[1]
      /\ output' = <<>> /\ UNCHANGED <<input, held, pipe, lost>>
  BY Concrete DEF BeUniq, Goes, ControlInv, PipelineTypeOK
<1>2. OutputRead' = OutputRead
  BY <1>1, EmptyText DEF OutputRead
<1>3. FlowInv'
  BY <1>1, <1>2 DEF DataInv, FlowInv, OnTheWay, TrText
<1>4. EmptiedInv'
  BY <1>1 DEF DataInv, EmptiedInv
<1>5. SortedInv'
  BY <1>1, EmptyText DEF DataInv, SortedInv
<1> QED
  BY <1>3, <1>4, <1>5 DEF DataInv

LEMMA TrReadKeeps ==
  ASSUME ControlInv, DataInv, TrRead
  PROVE  DataInv'
<1> DEFINE t == [k \in DOMAIN input |-> Strip[input[k]]]
<1>1. /\ pc[0] = "read" /\ pc'[0] = "write" /\ pc'[1] = pc[1] /\ pc'[2] = pc[2]
      /\ held'[0] = t /\ held'[1] = held[1] /\ UNCHANGED <<input, output, pipe, lost>>
  BY Concrete DEF TrRead, Goes, ControlInv, PipelineTypeOK
<1>2. pc[1] = "unborn" /\ pc[2] = "unborn"
  BY <1>1, RunsAlone DEF Over
<1>3. held[0] = <<>> /\ held[1] = <<>> /\ pipe[0] = <<>> /\ pipe[1] = <<>>
  BY <1>1, <1>2 DEF DataInv, FlowInv
<1>4. Range(t) = TrText
  BY DEF Range, TrText
<1> HIDE DEF t
<1>6. FlowInv'
  <2>1. OnTheWay' = TrText'
    BY <1>1, <1>2, <1>3, <1>4, EmptyText DEF OnTheWay, OutputRead, TrText
  <2> QED
    BY <1>1, <1>2, <1>3, <2>1 DEF FlowInv
<1>7. EmptiedInv'
  BY <1>1, <1>2 DEF EmptiedInv
<1>8. SortedInv'
  BY <1>1, <1>2 DEF DataInv, SortedInv
<1> QED
  BY <1>6, <1>7, <1>8 DEF DataInv

LEMMA SortReadKeeps ==
  ASSUME ControlInv, DataInv, SortRead
  PROVE  DataInv'
<1>1. /\ pc[1] = "read" /\ pc'[0] = pc[0] /\ pc'[2] = pc[2] /\ held'[0] = held[0]
      /\ pipe'[1] = pipe[1] /\ UNCHANGED <<input, output, lost>>
      /\ \/ pipe[0] # <<>> /\ held'[1] = Append(held[1], Head(pipe[0]))
            /\ pipe'[0] = Tail(pipe[0]) /\ pc'[1] = "read"
         \/ pipe[0] = <<>> /\ pipe'[0] = <<>> /\ pc'[1] = "write"
            /\ held'[1] \in Reorderings(held[1]) /\ Sorted(held'[1])
  BY Concrete DEF SortRead, Goes, ControlInv, PipelineTypeOK
<1>2. pc[0] \in Over /\ pc[2] = "unborn" /\ pipe[1] = <<>>
  BY <1>1, RunsAlone DEF Over, DataInv, FlowInv
<1>3. CASE pipe[0] # <<>> /\ held'[1] = Append(held[1], Head(pipe[0]))
           /\ pipe'[0] = Tail(pipe[0]) /\ pc'[1] = "read"
  <2>1. /\ Range(pipe[0]) = {Head(pipe[0])} \cup Range(pipe'[0])
        /\ Head(pipe[0]) \in Lines
    BY <1>3, SequencesOfLines, TailRange
  <2>2. Range(held'[1]) = Range(held[1]) \cup {Head(pipe[0])}
    BY <1>3, <2>1, SequencesOfLines, AppendRange
  <2>3. OnTheWay' = OnTheWay
    BY <1>1, <2>1, <2>2 DEF OnTheWay, OutputRead
  <2>4. FlowInv'
    BY <1>1, <1>2, <1>3, <2>3 DEF DataInv, FlowInv, TrText, Over
  <2>5. EmptiedInv'
    BY <1>1, <1>2, <1>3 DEF DataInv, EmptiedInv
  <2>6. SortedInv'
    BY <1>1, <1>2, <1>3 DEF DataInv, SortedInv
  <2> QED
    BY <2>4, <2>5, <2>6 DEF DataInv
<1>4. CASE pipe[0] = <<>> /\ pipe'[0] = <<>> /\ pc'[1] = "write"
           /\ held'[1] \in Reorderings(held[1]) /\ Sorted(held'[1])
  <2>1. Range(held'[1]) = Range(held[1])
    BY <1>4, SequencesOfLines, ReorderedIsSame
  <2>2. OnTheWay' = OnTheWay
    BY <1>1, <1>4, <2>1 DEF OnTheWay, OutputRead
  <2>3. FlowInv'
    BY <1>1, <1>2, <1>4, <2>2 DEF DataInv, FlowInv, TrText, Over
  <2>4. EmptiedInv'
    BY <1>1, <1>2, <1>4 DEF DataInv, EmptiedInv
  <2>5. SortedInv'
    BY <1>1, <1>2, <1>4, EmptyText DEF SortedInv
  <2> QED
    BY <2>3, <2>4, <2>5 DEF DataInv
<1> QED
  BY <1>1, <1>3, <1>4

LEMMA TrWriteKeeps ==
  ASSUME ControlInv, DataInv, PipeWrite(0)
  PROVE  DataInv'
<1>1. /\ pc[0] = "write" /\ pc'[1] = pc[1] /\ pc'[2] = pc[2] /\ held'[1] = held[1]
      /\ pipe'[1] = pipe[1] /\ UNCHANGED <<input, output, lost>>
      /\ \/ held[0] # <<>> /\ pipe'[0] = Append(pipe[0], Head(held[0]))
            /\ held'[0] = Tail(held[0]) /\ pc'[0] = "write"
         \/ held[0] = <<>> /\ held'[0] = held[0] /\ pipe'[0] = pipe[0] /\ pc'[0] = "exited"
  BY Concrete DEF PipeWrite, Exit, ControlInv, PipelineTypeOK
<1>2. pc[1] = "unborn" /\ pc[2] = "unborn"
  BY <1>1, RunsAlone DEF Over
<1>3. Range(held'[0]) \cup Range(pipe'[0]) = Range(held[0]) \cup Range(pipe[0])
  <2>1. CASE held[0] # <<>> /\ pipe'[0] = Append(pipe[0], Head(held[0])) /\ held'[0] = Tail(held[0])
    <3>1. /\ Range(held[0]) = {Head(held[0])} \cup Range(held'[0])
          /\ Head(held[0]) \in Lines
      BY <2>1, SequencesOfLines, TailRange
    <3>2. Range(pipe'[0]) = Range(pipe[0]) \cup {Head(held[0])}
      BY <2>1, <3>1, SequencesOfLines, AppendRange
    <3> QED
      BY <3>1, <3>2
  <2> QED
    BY <1>1, <2>1
<1>4. OnTheWay' = OnTheWay
  BY <1>1, <1>3 DEF OnTheWay, OutputRead
<1>5. FlowInv'
  BY <1>1, <1>2, <1>4 DEF DataInv, FlowInv, TrText
<1>6. EmptiedInv'
  BY <1>1, <1>2 DEF EmptiedInv
<1>7. SortedInv'
  BY <1>1, <1>2 DEF DataInv, SortedInv
<1> QED
  BY <1>5, <1>6, <1>7 DEF DataInv

LEMMA SortWriteKeeps ==
  ASSUME ControlInv, DataInv, PipeWrite(1)
  PROVE  DataInv'
<1>1. /\ pc[1] = "write" /\ pc'[0] = pc[0] /\ pc'[2] = pc[2] /\ held'[0] = held[0]
      /\ pipe'[0] = pipe[0] /\ UNCHANGED <<input, output, lost>>
      /\ \/ held[1] # <<>> /\ pipe'[1] = Append(pipe[1], Head(held[1]))
            /\ held'[1] = Tail(held[1]) /\ pc'[1] = "write"
         \/ held[1] = <<>> /\ held'[1] = held[1] /\ pipe'[1] = pipe[1] /\ pc'[1] = "exited"
  BY Concrete DEF PipeWrite, Exit, ControlInv, PipelineTypeOK
<1>2. pc[0] \in Over /\ pc[2] = "unborn"
  BY <1>1, RunsAlone DEF Over
<1>s. Sorted(held[1]) /\ Sorted(pipe[1]) /\ Before(Range(pipe[1]), Range(held[1]))
  BY <1>1 DEF DataInv, SortedInv
<1>3. CASE held[1] # <<>> /\ pipe'[1] = Append(pipe[1], Head(held[1]))
           /\ held'[1] = Tail(held[1]) /\ pc'[1] = "write"
  <2>1. /\ Range(held[1]) = {Head(held[1])} \cup Range(held'[1])
        /\ Head(held[1]) \in Lines
    BY <1>3, SequencesOfLines, TailRange
  <2>2. Range(pipe'[1]) = Range(pipe[1]) \cup {Head(held[1])}
    BY <1>3, <2>1, SequencesOfLines, AppendRange
  <2>3. OnTheWay' = OnTheWay
    BY <1>1, <2>1, <2>2 DEF OnTheWay, OutputRead
  <2>4. FlowInv'
    BY <1>1, <1>2, <1>3, <2>3 DEF DataInv, FlowInv, TrText, Over
  <2>5. EmptiedInv'
    BY <1>1, <1>2, <1>3 DEF DataInv, EmptiedInv
  <2>6. Sorted(held'[1]) /\ Before({Head(held[1])}, Range(held'[1]))
    BY <1>3, <1>s, SequencesOfLines, SortedTail
  <2>7. Sorted(pipe'[1])
    <3>1. Before(Range(pipe[1]), {Head(held[1])})
      BY <1>s, <2>1 DEF Before
    <3> QED
      BY <1>3, <1>s, <2>1, <3>1, SequencesOfLines, SortedAppend
  <2>8. Before(Range(pipe'[1]), Range(held'[1]))
    BY <1>s, <2>1, <2>2, <2>6 DEF Before
  <2>9. SortedInv'
    BY <1>1, <1>2, <2>6, <2>7, <2>8 DEF SortedInv
  <2> QED
    BY <2>4, <2>5, <2>9 DEF DataInv
<1>4. CASE held[1] = <<>> /\ held'[1] = held[1] /\ pipe'[1] = pipe[1] /\ pc'[1] = "exited"
  <2>1. OnTheWay' = OnTheWay
    BY <1>1, <1>4 DEF OnTheWay, OutputRead
  <2>2. FlowInv'
    BY <1>1, <1>2, <1>4, <2>1 DEF DataInv, FlowInv, TrText, Over
  <2>3. EmptiedInv'
    BY <1>1, <1>2, <1>4 DEF DataInv, EmptiedInv
  <2>4. SortedInv'
    BY <1>1, <1>2, <1>4, <1>s DEF SortedInv
  <2> QED
    BY <2>2, <2>3, <2>4 DEF DataInv
<1> QED
  BY <1>1, <1>3, <1>4

LEMMA UniqReadKeeps ==
  ASSUME ControlInv, DataInv, UniqRead
  PROVE  DataInv'
<1>1. /\ pc[2] = "read" /\ pc'[0] = pc[0] /\ pc'[1] = pc[1] /\ UNCHANGED <<input, held, lost>>
      /\ pipe'[0] = pipe[0]
      /\ \/ pipe[1] # <<>> /\ pipe'[1] = Tail(pipe[1]) /\ pc'[2] = "read"
            /\ output' = IF output # <<>> /\ Last(output) = Head(pipe[1])
                           THEN output ELSE Append(output, Head(pipe[1]))
         \/ pipe[1] = <<>> /\ pipe'[1] = pipe[1] /\ output' = output /\ pc'[2] = "exited"
  BY Concrete DEF UniqRead, Exit, ControlInv, PipelineTypeOK
<1>2. pc[1] \in Over /\ (~lost => pc[1] = "exited")
  BY <1>1, RunsAlone DEF Over
<1>e. ~lost => held[1] = <<>>
  BY <1>2 DEF DataInv, EmptiedInv
<1>s. ~lost => Ascending(output) /\ Before(Range(output), Range(pipe[1]))
  BY <1>1 DEF DataInv, SortedInv
<1>3. CASE /\ pipe[1] # <<>> /\ pipe'[1] = Tail(pipe[1]) /\ pc'[2] = "read"
           /\ output' = IF output # <<>> /\ Last(output) = Head(pipe[1])
                          THEN output ELSE Append(output, Head(pipe[1]))
  <2>1. /\ Range(pipe[1]) = {Head(pipe[1])} \cup Range(pipe'[1])
        /\ Head(pipe[1]) \in Lines
    BY <1>3, SequencesOfLines, TailRange
  <2>2. Range(output') = Range(output) \cup {Head(pipe[1])}
    <3>1. CASE output # <<>> /\ Last(output) = Head(pipe[1])
      <4>1. Len(output) \in DOMAIN output
        BY <3>1, SequencesOfLines
      <4>2. Head(pipe[1]) \in Range(output)
        BY <3>1, <4>1 DEF Range, Last
      <4> QED
        BY <1>3, <3>1, <4>2
    <3>2. CASE ~(output # <<>> /\ Last(output) = Head(pipe[1]))
      BY <1>3, <2>1, <3>2, SequencesOfLines, AppendRange
    <3> QED
      BY <3>1, <3>2
  <2>3. OnTheWay' = OnTheWay
    BY <1>1, <1>3, <2>1, <2>2 DEF OnTheWay, OutputRead
  <2>4. FlowInv'
    BY <1>1, <1>2, <1>3, <2>3 DEF DataInv, FlowInv, TrText, Over
  <2>5. EmptiedInv'
    BY <1>1, <1>3 DEF DataInv, EmptiedInv
  <2>6. Sorted(pipe[1]) /\ Sorted(pipe'[1]) /\ Before({Head(pipe[1])}, Range(pipe'[1]))
    BY <1>3, SequencesOfLines, SortedTail DEF DataInv, SortedInv
  <2>7. ASSUME ~lost PROVE Ascending(output') /\ Before(Range(output'), Range(pipe'[1]))
    <3>1. Before(Range(output), {Head(pipe[1])})
      BY <1>s, <2>1, <2>7 DEF Before
    <3>2. Ascending(output')
      BY <1>3, <1>s, <2>1, <2>7, <3>1, SequencesOfLines, AscendingAppend
    <3>3. Before(Range(output'), Range(pipe'[1]))
      BY <1>s, <2>1, <2>2, <2>6, <2>7 DEF Before
    <3> QED
      BY <3>2, <3>3
  <2>8. pc[1] \in {"write", "exited"} => Sorted(held[1]) /\ Before(Range(pipe'[1]), Range(held[1]))
    BY <2>1 DEF DataInv, SortedInv, Before
  <2>9. SortedInv'
    BY <1>1, <2>6, <2>7, <2>8 DEF SortedInv
  <2> QED
    BY <2>4, <2>5, <2>9 DEF DataInv
<1>4. CASE pipe[1] = <<>> /\ pipe'[1] = pipe[1] /\ output' = output /\ pc'[2] = "exited"
  <2>1. OnTheWay' = OnTheWay
    BY <1>1, <1>4 DEF OnTheWay, OutputRead
  <2>2. FlowInv'
    BY <1>1, <1>2, <1>4, <2>1 DEF DataInv, FlowInv, TrText, Over
  <2>3. EmptiedInv'
    BY <1>1, <1>4 DEF DataInv, EmptiedInv
  <2>4. SortedInv'
    BY <1>1, <1>4, <1>s DEF DataInv, SortedInv
  <2> QED
    BY <2>2, <2>3, <2>4 DEF DataInv
<1> QED
  BY <1>1, <1>3, <1>4

LEMMA DataStep ==
  ASSUME ControlInv, DataInv, [PipelineNext]_pipelineVars
  PROVE  DataInv'
<1> USE Concrete
<1>0. PipelineTypeOK /\ OrderInv /\ lost \in BOOLEAN
  BY DEF ControlInv, PipelineTypeOK
<1>1. CASE Fork
  <2>1. /\ pc[i] = "unborn" /\ i \in {0, 1, 2} /\ UNCHANGED <<input, output, held, pipe>>
        /\ \/ pc' = [pc EXCEPT ![i] = "start", ![3] = "close"] /\ lost' = lost
           \/ pc' = [pc EXCEPT ![i] = "failed", ![3] = "close"] /\ lost' = TRUE
    BY <1>0, <1>1 DEF Fork, OrderInv, PipelineTypeOK
  <2>2. \A s \in {0, 1, 2} : pc'[s] = pc[s] \/ (pc[s] = "unborn" /\ pc'[s] \in {"start", "failed"})
    BY <1>0, <2>1 DEF PipelineTypeOK
  <2>3. lost => lost'
    BY <1>0, <2>1
  <2> QED
    BY <1>0, <2>1, <2>2, <2>3, DataRests
<1>2. CASE Close \/ WaitFor
  <2>1. \A s \in {0, 1, 2} : pc'[s] = pc[s]
    BY <1>0, <1>2 DEF Close, WaitFor, Goes, PipelineTypeOK
  <2> QED
    BY <1>0, <1>2, <2>1, DataRests DEF Close, WaitFor
<1>3. CASE BeTr \/ BeSort
  <2>1. \A s \in {0, 1, 2} : pc'[s] = pc[s] \/ (pc[s] = "start" /\ pc'[s] = "read" /\ s # 2)
    BY <1>0, <1>3 DEF BeTr, BeSort, Goes, PipelineTypeOK
  <2> QED
    BY <1>0, <1>3, <2>1, DataRests DEF BeTr, BeSort
<1>4. CASE UNCHANGED pipelineVars
  BY <1>0, <1>4, DataRests DEF pipelineVars
<1>5. ASSUME NEW s \in Stages, PipeWrite(s) PROVE DataInv'
  <2>1. s = 0 \/ s = 1
    BY <1>5 DEF PipeWrite
  <2> QED
    BY <1>5, <2>1, TrWriteKeeps, SortWriteKeeps
<1> QED
  BY <1>1, <1>2, <1>3, <1>4, <1>5, GiveUpKeeps, BeUniqKeeps, TrReadKeeps, SortReadKeeps,
     UniqReadKeeps
  DEF PipelineNext, ParentRuns, StageStep

-----------------------------------------------------------------------------
(* For every input and any capacity, whatever forks and opens fail: the    *)
(* processes run one after the other, and no line is lost on the way.      *)
THEOREM PipelineInvariant == PipelineSpec => [](ControlInv /\ DataInv)
<1>1. PipelineInit => ControlInv /\ DataInv
  BY ControlInit, DataInit
<1>2. ControlInv /\ DataInv /\ [PipelineNext]_pipelineVars => (ControlInv /\ DataInv)'
  BY ControlStep, DataStep
<1> QED
  BY <1>1, <1>2, PTL DEF PipelineSpec

(* Nobody has the writing end of a pipe open while the parent waits for    *)
(* the process that reads from it.                                         *)
THEOREM ReadersSeeTheEnd == PipelineSpec => []EndOfInputIsSeen
<1>1. ASSUME ControlInv PROVE EndOfInputIsSeen
  <2> SUFFICES ASSUME NEW s \in Stages \ {0}, pc[s] = "read", pc[Parent] = "wait",
                      NEW p \in Stages \cup {Parent}, <<processPipe(s), "wr">> \in ends[p]
               PROVE  FALSE
    BY DEF EndOfInputIsSeen, HasOpen
  <2>0. PipelineTypeOK /\ OrderInv /\ EndsInv
    BY <1>1 DEF ControlInv
  <2>1. s = i
    BY <2>0, OneAtATime DEF Over
  <2>2. p # Parent /\ p # s
    BY <2>0, <2>1 DEF EndsInv
  <2>3. p \in Stages /\ (p < i \/ p > i)
    BY <2>1, <2>2, Concrete
  <2>4. pc[p] \in Over \cup {"unborn"}
    BY <2>0, <2>3 DEF OrderInv
  <2> QED
    BY <2>0, <2>3, <2>4 DEF EndsInv
<1> QED
  BY <1>1, PipelineInvariant, PTL

(* When all is done and nothing failed the output is what tr | sort | uniq *)
(* makes of the input, whatever the input, the texts and the capacity.     *)
THEOREM OutputIsTheResult == PipelineSpec => []DoneMeansResult
<1>1. ASSUME ControlInv, DataInv, pc[Parent] = "done", ~lost
      PROVE  Ascending(output) /\ Range(output) = TrText
  <2>1. pc[2] = "exited" /\ pc[1] = "exited" /\ pc[0] = "exited"
    <3>1. i = 2 /\ \A s \in {0, 1, 2} : pc[s] \in Over /\ pc[s] # "failed"
      BY <1>1, Concrete DEF ControlInv, OrderInv
    <3> QED
      BY <3>1 DEF Over
  <2>2. held[0] = <<>> /\ pipe[0] = <<>> /\ held[1] = <<>> /\ pipe[1] = <<>>
    BY <1>1, <2>1 DEF DataInv, EmptiedInv
  <2>3. OnTheWay = Range(output)
    BY <2>1, <2>2, EmptyText DEF OnTheWay, OutputRead
  <2> QED
    BY <1>1, <2>1, <2>3 DEF DataInv, FlowInv, SortedInv
<1>2. ASSUME ControlInv, DataInv PROVE DoneMeansResult
  BY <1>1, <1>2 DEF DoneMeansResult, TrText
<1> QED
  BY <1>2, PipelineInvariant, PTL
=============================================================================
