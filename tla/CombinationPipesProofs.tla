----------------------- MODULE CombinationPipesProofs -----------------------
(***************************************************************************)
(* Theorems about CombinationPipes for any number of children that fits    *)
(* closed_processes, with forks and execs that fail and children that are  *)
(* killed: what is printed comes from three messages.                      *)
(*                                                                         *)
(* The loop only counts.  That the count stands for different children     *)
(* rests on what is in the pipes: a child's message is in its own pipe or  *)
(* in the parent's variable, never in both, and before the child has       *)
(* written it is in neither.                                               *)
(***************************************************************************)
EXTENDS CombinationPipes, FiniteSetTheorems, TLAPS

Received == {c \in Offspring : fact[c] = c}

Silent == {"none", "failed", "running", "astray"}  \* has not written

(* Where the message of a child can be.                                    *)
MessageInv ==
  \A c \in Offspring :
    /\ content[c] \in {Unset, c}
    /\ fact[c] \in {Unset, c}
    /\ offspring[c] \in Silent => content[c] = Unset /\ fact[c] = Unset
    /\ content[c] = c => fact[c] = Unset

(* What the parent has counted.                                            *)
CountInv ==
  /\ stage = "fork" => \A c \in Offspring : c >= index => offspring[c] = "none"
  /\ closed_processes = Cardinality(Received)
  /\ stage \in {"wait", "done"} => closed_processes = PROCESS_COUNT

PipesInv == PipesTypeOK /\ MessageInv /\ CountInv

LEMMA ChildrenAreFinite ==
  /\ IsFiniteSet(Offspring) /\ Cardinality(Offspring) = PROCESS_COUNT
  /\ Unset \notin Offspring /\ Offspring \subseteq Int
<1>1. 0 \in Int /\ PROCESS_COUNT - 1 \in Int /\ 0 <= PROCESS_COUNT - 1
  BY CountAssumption
<1>2. IsFiniteSet(0..(PROCESS_COUNT - 1)) /\ Cardinality(0..(PROCESS_COUNT - 1)) = (PROCESS_COUNT - 1) - 0 + 1
  BY <1>1, FS_Interval
<1> QED BY <1>2, CountAssumption DEF Offspring

LEMMA ReceivedIsFinite ==
  /\ IsFiniteSet(Received) /\ Cardinality(Received) \in 0..PROCESS_COUNT
  /\ Cardinality(Received) = PROCESS_COUNT => Received = Offspring
<1>1. Received \in SUBSET Offspring
  BY DEF Received
<1>2. /\ IsFiniteSet(Received) /\ Cardinality(Received) <= Cardinality(Offspring)
      /\ Cardinality(Received) = Cardinality(Offspring) => Received = Offspring
  BY <1>1, ChildrenAreFinite, FS_Subset
<1>3. Cardinality(Received) \in Nat
  BY <1>2, FS_CardinalityType
<1> QED BY <1>2, <1>3, ChildrenAreFinite, CountAssumption

LEMMA InitiallyInv == PipesInit => PipesInv
<1> SUFFICES ASSUME PipesInit PROVE PipesInv
  OBVIOUS
<1>1. Received = {}
  BY ChildrenAreFinite DEF PipesInit, Received
<1>2. Cardinality(Received) = 0
  BY <1>1, FS_EmptySet
<1>3. PipesTypeOK
  BY CountAssumption DEF PipesInit, PipesTypeOK, Messages
<1>4. MessageInv
  BY DEF PipesInit, MessageInv
<1>5. CountInv
  BY <1>2 DEF PipesInit, CountInv
<1> QED BY <1>3, <1>4, <1>5 DEF PipesInv

(* What a step must leave alone for the count to stay right.               *)
LEMMA CountStays ==
  ASSUME PipesInv, UNCHANGED <<fact, closed_processes>>
  PROVE  closed_processes' = Cardinality(Received')
BY DEF PipesInv, CountInv, Received

LEMMA ForkKeeps ==
  ASSUME PipesInv, NEW result \in {"running", "failed"}, ForkChild(result)
  PROVE  PipesInv'
<1>1. index \in Offspring /\ offspring[index] = "none" /\ index \in 0..PROCESS_COUNT /\ stage = "fork" /\ index + 1 \in 0..PROCESS_COUNT
  BY CountAssumption DEF PipesInv, PipesTypeOK, CountInv, ForkChild, Offspring
<1>2. PipesTypeOK'
  <2>1. writers' \in [Offspring -> SUBSET (Offspring \cup {ParentId})]
    BY <1>1 DEF PipesInv, PipesTypeOK, ForkChild
  <2> QED BY <1>1, <2>1 DEF PipesInv, PipesTypeOK, ForkChild
<1>3. MessageInv'
  BY <1>1 DEF PipesInv, PipesTypeOK, MessageInv, ForkChild, Silent
<1>4. \A c \in Offspring : c >= index' => offspring'[c] = "none"
  BY <1>1, ChildrenAreFinite DEF PipesInv, PipesTypeOK, CountInv, ForkChild
<1>5. CountInv'
  BY <1>1, <1>4, CountStays DEF ForkChild, CountInv
<1> QED BY <1>2, <1>3, <1>5 DEF PipesInv

LEMMA ReceiveKeeps == PipesInv /\ ReceiveFactorial => PipesInv'
<1> SUFFICES ASSUME PipesInv, ReceiveFactorial PROVE PipesInv'
  OBVIOUS
<1>1. index \in Offspring /\ stage = "poll" /\ index + 1 \in 0..PROCESS_COUNT
  BY CountAssumption DEF PipesInv, PipesTypeOK, ReceiveFactorial, Turn, Offspring
<1>2. content[index] = index /\ fact[index] = Unset /\ offspring[index] \notin Silent
  BY <1>1 DEF PipesInv, MessageInv, ReceiveFactorial
<1>3. fact' = [fact EXCEPT ![index] = index] /\ content' = [content EXCEPT ![index] = Unset]
  BY <1>2 DEF ReceiveFactorial
<1>4. Received' = Received \cup {index} /\ index \notin Received
  BY <1>1, <1>2, <1>3, ChildrenAreFinite DEF Received, PipesInv, PipesTypeOK
<1>5. Cardinality(Received') = closed_processes + 1
  BY <1>4, ReceivedIsFinite, FS_AddElement DEF PipesInv, CountInv
<1>6. closed_processes + 1 \in 0..PROCESS_COUNT
  <2>1. Received' \in SUBSET Offspring
    BY DEF Received
  <2>2. Cardinality(Received') <= PROCESS_COUNT
    BY <2>1, ChildrenAreFinite, FS_Subset
  <2> QED BY <1>5, <2>2, CountAssumption DEF PipesInv, PipesTypeOK
<1>7. closed_processes' = closed_processes + 1
  BY <1>6, CountAssumption DEF ReceiveFactorial, PipesInv, PipesTypeOK
<1>8. PipesTypeOK'
  <2>1. writers' \in [Offspring -> SUBSET (Offspring \cup {ParentId})]
    BY <1>1 DEF PipesInv, PipesTypeOK, ReceiveFactorial, Turn
  <2> QED BY <1>1, <1>3, <1>6, <1>7, <2>1 DEF PipesInv, PipesTypeOK, ReceiveFactorial, Turn, Messages
<1>9. MessageInv'
  BY <1>1, <1>2, <1>3, ChildrenAreFinite DEF PipesInv, PipesTypeOK, MessageInv, ReceiveFactorial, Turn
<1> QED BY <1>1, <1>5, <1>7, <1>8, <1>9 DEF PipesInv, CountInv, ReceiveFactorial, Turn

(* The other steps of the parent receive nothing.                          *)
LEMMA ParentKeeps ==
  ASSUME PipesInv, ReceiveNothing \/ EndForking \/ EndPass \/ WaitForEach \/ Finish
  PROVE  PipesInv'
<1>1. UNCHANGED <<failing, content, fact, closed_processes>>
  BY DEF ReceiveNothing, Turn, EndForking, EndPass, WaitForEach, Finish
<1>2. /\ \A c \in Offspring : offspring'[c] \in Silent => offspring[c] \in Silent
      /\ offspring' \in [Offspring ->
           {"none", "failed", "running", "astray", "written", "ended", "waited"}]
  BY DEF PipesInv, PipesTypeOK, ReceiveNothing, Turn, EndForking, EndPass, WaitForEach, Finish, Silent
<1>3. writers' \in [Offspring -> SUBSET (Offspring \cup {ParentId})]
  BY DEF PipesInv, PipesTypeOK, ReceiveNothing, Turn, EndForking, EndPass, WaitForEach, Finish
<1>4. /\ stage' \in {"poll", "wait", "done"} /\ index' \in 0..PROCESS_COUNT
      /\ stage' \in {"wait", "done"} => closed_processes = PROCESS_COUNT
  BY CountAssumption
     DEF PipesInv, PipesTypeOK, CountInv, ReceiveNothing, Turn, EndForking, EndPass, WaitForEach, Finish
<1>5. PipesTypeOK'
  BY <1>1, <1>2, <1>3, <1>4 DEF PipesInv, PipesTypeOK
<1>6. MessageInv'
  BY <1>1, <1>2 DEF PipesInv, MessageInv
<1>7. CountInv'
  BY <1>1, <1>4, CountStays DEF CountInv
<1> QED BY <1>5, <1>6, <1>7 DEF PipesInv

LEMMA ChildKeeps ==
  ASSUME PipesInv, NEW c \in Offspring, WriteFactorial(c) \/ ExitChild(c) \/ Killed(c) \/ BecomeParent(c)
  PROVE  PipesInv'
<1>1. UNCHANGED <<failing, stage, index, fact, closed_processes>> /\ offspring[c] # "none"
  BY DEF WriteFactorial, ExitChild, Killed, BecomeParent, EndOf
<1>2. /\ offspring' \in [Offspring ->
           {"none", "failed", "running", "astray", "written", "ended", "waited"}]
      /\ writers' \in [Offspring -> SUBSET (Offspring \cup {ParentId})]
  BY DEF PipesInv, PipesTypeOK, WriteFactorial, ExitChild, Killed, BecomeParent, EndOf
<1>3. \A d \in Offspring \ {c} : offspring'[d] = offspring[d] /\ content'[d] = content[d]
  BY DEF PipesInv, PipesTypeOK, WriteFactorial, ExitChild, Killed, BecomeParent, EndOf
<1>4. content' \in [Offspring -> Messages]
  BY DEF PipesInv, PipesTypeOK, WriteFactorial, ExitChild, Killed, BecomeParent, EndOf, Messages
<1>5. /\ content'[c] \in {Unset, c}
      /\ offspring'[c] \in Silent => content'[c] = Unset /\ fact[c] = Unset
      /\ content'[c] = c => fact[c] = Unset
  BY DEF PipesInv, PipesTypeOK, MessageInv, WriteFactorial, ExitChild, Killed, BecomeParent, EndOf, Silent
<1>6. PipesTypeOK'
  BY <1>1, <1>2, <1>4 DEF PipesInv, PipesTypeOK
<1>7. MessageInv'
  BY <1>1, <1>3, <1>5 DEF PipesInv, MessageInv
<1>8. CountInv'
  <2>1. stage = "fork" => \A d \in Offspring : d >= index => offspring'[d] = "none"
    BY <1>1, <1>3 DEF PipesInv, CountInv
  <2> QED BY <1>1, <2>1, CountStays DEF PipesInv, CountInv
<1> QED BY <1>6, <1>7, <1>8 DEF PipesInv

LEMMA TakeAwayKeeps ==
  ASSUME PipesInv, NEW c \in Offspring, NEW p \in Offspring, TakeAway(c, p)
  PROVE  PipesInv'
<1>1. UNCHANGED <<failing, stage, index, offspring, fact, closed_processes>>
  BY DEF TakeAway
<1>2. content' \in [Offspring -> Messages] /\ \A d \in Offspring : content'[d] \in {Unset, content[d]}
  BY DEF PipesInv, PipesTypeOK, TakeAway, Messages
<1>3. PipesTypeOK'
  <2>1. writers' \in [Offspring -> SUBSET (Offspring \cup {ParentId})]
    BY DEF PipesInv, PipesTypeOK, TakeAway
  <2> QED BY <1>1, <1>2, <2>1 DEF PipesInv, PipesTypeOK
<1>4. MessageInv'
  BY <1>1, <1>2, ChildrenAreFinite DEF PipesInv, MessageInv
<1> QED BY <1>1, <1>3, <1>4, CountStays DEF PipesInv, CountInv

LEMMA StepKeeps == PipesInv /\ [PipesNext]_pipesVars => PipesInv'
<1> SUFFICES ASSUME PipesInv, [PipesNext]_pipesVars PROVE PipesInv'
  OBVIOUS
<1>1. CASE ForkChild("running") \/ ForkFails
  BY <1>1, ForkKeeps DEF ForkFails
<1>2. CASE ReceiveFactorial
  BY <1>2, ReceiveKeeps
<1>3. CASE ReceiveNothing \/ EndForking \/ EndPass \/ WaitForEach \/ Finish
  BY <1>3, ParentKeeps
<1>4. CASE \E c \in Offspring : WriteFactorial(c) \/ ExitChild(c) \/ Killed(c) \/ BecomeParent(c)
  BY <1>4, ChildKeeps
<1>5. CASE \E c, p \in Offspring : TakeAway(c, p)
  BY <1>5, TakeAwayKeeps
<1>6. CASE UNCHANGED pipesVars
  BY <1>6 DEF pipesVars, PipesInv, PipesTypeOK, MessageInv, CountInv, Received
<1> QED BY <1>1, <1>2, <1>3, <1>4, <1>5, <1>6 DEF PipesNext, Calculate

LEMMA InvImpliesCombination == PipesInv => PrintsFromEach
<1> SUFFICES ASSUME PipesInv, stage = "done" PROVE \A c \in Offspring : fact[c] = c
  BY DEF PrintsFromEach
<1>1. Cardinality(Received) = PROCESS_COUNT
  BY DEF PipesInv, CountInv
<1>2. Received = Offspring
  BY <1>1, ReceivedIsFinite
<1> QED BY <1>2 DEF Received

(* However many children there are, and whatever fork, exec or child       *)
(* fails: when the parent is done it has one factorial of each child       *)
(* (combination.c 64-88).                                                  *)
THEOREM CombinationIsOfAll == PipesSpec => []PrintsFromEach
BY InitiallyInv, StepKeeps, InvImpliesCombination, PTL DEF PipesSpec
=============================================================================
