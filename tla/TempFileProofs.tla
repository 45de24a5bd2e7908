--------------------------- MODULE TempFileProofs ---------------------------
(***************************************************************************)
(* Theorems about TempFile for any children, any set of failed forks and   *)
(* any content of an old file: the file the parent has found stays, and    *)
(* what is printed is of this run or explained.                            *)
(*                                                                         *)
(* The parent may count a child twice and never hear of another.  It       *)
(* prints only after all children have ended, and a child ends only when   *)
(* the parent has told it; so the argument follows what was told, not what *)
(* was counted.                                                            *)
(***************************************************************************)
EXTENDS TempFile, FiniteSetTheorems, TLAPS

(* A record is the old one, or one that a child of this run has written.   *)
Genuine(r) == r = left \/ (r.fact = "this run" /\ r.id \notin failed)

RecordInv ==
  /\ file \in Records => Genuine(file)
  /\ got \in Records => Genuine(got)
  /\ parent = "tell" => got \in Records
  /\ \A c \in Children : value[c] = "stale" => left \in Records /\ left.id = c

OldNamesFailed == left \in Records /\ left.id \in failed

(* A child that has ended, or will, was told; and one that was told has    *)
(* handed over its factorial, unless kill(-1) told it.                     *)
ToldInv ==
  /\ failed \subseteq Children
  /\ \A c \in Children : c \in failed <=> child[c] = "none"
  /\ \A c \in Children :
       pending[c] \/ ~record[c] \/ child[c] \in {"done", "killed"} => c \in told
  /\ \A c \in Children : c \in told => value[c] # None \/ OldNamesFailed
  /\ parent = "done" => \A c \in Children : ~Alive(c)

TempInv ==
  /\ TypeOK /\ PolledFileStays /\ RecordInv /\ ToldInv
  /\ parent \in {"read", "tell"} => closed # Cardinality(Children)

LEMMA CountIsNat == Cardinality(Children) \in Nat
BY ChildrenAssumption, FS_CardinalityType

LEMMA InitiallyInv == Init => TempInv
<1> SUFFICES ASSUME Init PROVE TempInv
  OBVIOUS
<1>1. 0 \in 0..Cardinality(Children)
  BY CountIsNat
<1>2. TypeOK
  <2>1. file \in {Absent, Empty} \cup Records
    BY ChildrenAssumption DEF Init, Records
  <2>2. /\ child \in [Children ->
             {"none", "start", "loop", "access", "open", "write", "done", "killed"}]
        /\ stream \in [Children -> {"named", "orphan", None}]
        /\ record \in [Children -> BOOLEAN] /\ handler \in [Children -> BOOLEAN]
        /\ pending \in [Children -> BOOLEAN]
        /\ value \in [Children -> {"this run", "stale", None}]
    BY DEF Init
  <2> QED BY <1>1, <2>1, <2>2 DEF Init, TypeOK
<1>3. RecordInv
  BY ChildrenAssumption DEF Init, RecordInv, Genuine
<1>4. ToldInv
  BY ChildrenAssumption DEF Init, ToldInv
<1> QED BY <1>2, <1>3, <1>4 DEF Init, TempInv, PolledFileStays

LEMMA ChildKeeps ==
  ASSUME TempInv, NEW c \in Children, ChildStep(c) PROVE TempInv'
<1>1. UNCHANGED <<failed, pending, parent, got, closed, value, told, left, record>>
  BY DEF ChildStep, Install, Check, Access, Open, Write
<1>2. Mine(c) \in Records /\ Absent \notin Records /\ Empty \notin Records
  BY ChildrenAssumption DEF Mine, Records
<1>3. child[c] \notin {"none", "done", "killed"}
  BY DEF ChildStep, Install, Check, Access, Open, Write
<1>4. file' \in {file, Empty, Mine(c)} /\ (file' = Absent => file = Absent)
  BY <1>2, ChildrenAssumption DEF ChildStep, Install, Check, Access, Open, Write
<1>5. /\ child' \in [Children ->
           {"none", "start", "loop", "access", "open", "write", "done", "killed"}]
      /\ child'[c] # "none" /\ child'[c] # "killed"
      /\ child'[c] = "done" => ~record[c]
      /\ \A d \in Children \ {c} : child'[d] = child[d]
  BY DEF TempInv, TypeOK, ChildStep, Goto, Install, Check, Access, Open, Write
<1>6. /\ stream' \in [Children -> {"named", "orphan", None}]
      /\ handler' \in [Children -> BOOLEAN]
  BY DEF TempInv, TypeOK, ChildStep, Install, Check, Access, Open, Write
<1>7. TypeOK'
  BY <1>1, <1>2, <1>4, <1>5, <1>6 DEF TempInv, TypeOK
<1>8. c \notin failed
  BY <1>3 DEF TempInv, ToldInv
<1>9. RecordInv'
  <2>1. file' \in Records => Genuine(file)' \/ file' = Mine(c)
    BY <1>1, <1>2, <1>4 DEF TempInv, RecordInv, Genuine
  <2>2. file' = Mine(c) => Genuine(file)'
    <3> SUFFICES ASSUME file' = Mine(c) PROVE file'.fact = "this run" /\ file'.id \notin failed'
      BY DEF Genuine
    <3> QED BY <1>1, <1>8 DEF Mine
  <2> QED BY <1>1, <2>1, <2>2 DEF TempInv, RecordInv, Genuine
<1>10. ToldInv'
  <2>1. parent # "done"
    BY <1>3 DEF TempInv, ToldInv, Alive
  <2> QED BY <1>1, <1>5, <1>8, <2>1 DEF TempInv, ToldInv, OldNamesFailed
<1> QED BY <1>1, <1>4, <1>7, <1>9, <1>10 DEF TempInv, PolledFileStays

LEMMA DeliverKeeps ==
  ASSUME TempInv, NEW c \in Children, Deliver(c) PROVE TempInv'
<1>1. UNCHANGED <<failed, file, parent, got, closed, value, told, left>> /\ c \in told
  BY DEF TempInv, ToldInv, Deliver
<1>2. child[c] \notin {"none", "done", "killed"}
  BY DEF Deliver, Alive
<1>3. /\ child' \in [Children ->
           {"none", "start", "loop", "access", "open", "write", "done", "killed"}]
      /\ child'[c] # "none"
      /\ \A d \in Children \ {c} : /\ child'[d] = child[d]
                                  /\ record'[d] = record[d]
                                  /\ pending'[d] = pending[d]
  BY <1>2 DEF TempInv, TypeOK, Deliver, Goto
<1>4. /\ stream' \in [Children -> {"named", "orphan", None}]
      /\ handler' \in [Children -> BOOLEAN]
      /\ record' \in [Children -> BOOLEAN]
      /\ pending' \in [Children -> BOOLEAN]
  BY DEF TempInv, TypeOK, Deliver
<1>5. TypeOK'
  BY <1>1, <1>3, <1>4 DEF TempInv, TypeOK
<1>6. RecordInv'
  BY <1>1 DEF TempInv, RecordInv, Genuine
<1>7. ToldInv'
  <2>1. parent # "done"
    BY <1>2 DEF TempInv, ToldInv, Alive
  <2> QED BY <1>1, <1>2, <1>3, <2>1 DEF TempInv, ToldInv, OldNamesFailed
<1> QED BY <1>1, <1>5, <1>6, <1>7 DEF TempInv, PolledFileStays

LEMMA TellKeeps == TempInv /\ Tell => TempInv'
<1> SUFFICES ASSUME TempInv, Tell PROVE TempInv'
  OBVIOUS
<1>1. /\ UNCHANGED <<failed, file, childVars, got, left>> /\ parent' = "remove"
      /\ got \in Records /\ Genuine(got) /\ parent = "tell"
  BY DEF Tell, TempInv, RecordInv
<1>2. got.id \in Children /\ got.fact \in {"this run", "stale"} /\ got.fact # None
  BY <1>1, ChildrenAssumption DEF Records
<1>3. Reached(got.id) \subseteq Children
  BY <1>2 DEF Reached
<1>4. closed' \in 0..Cardinality(Children)
  <2>1. closed \in 0..Cardinality(Children) /\ closed # Cardinality(Children)
    BY <1>1 DEF TempInv, TypeOK
  <2>2. closed' = closed + 1
    BY DEF Tell
  <2> QED BY <2>1, <2>2, CountIsNat
<1>5. value' = [value EXCEPT ![got.id] = got.fact] /\ told' = told \cup Reached(got.id)
  BY DEF Tell
<1>6. pending' \in [Children -> BOOLEAN]
      /\ \A c \in Children : pending'[c] <=> pending[c] \/ c \in Reached(got.id)
  BY DEF Tell, TempInv, TypeOK
<1>7. TypeOK'
  BY <1>1, <1>2, <1>3, <1>4, <1>5, <1>6 DEF TempInv, TypeOK, childVars
<1>8. RecordInv'
  <2>1. got.fact = "stale" => left = got
    BY <1>1 DEF Genuine
  <2> QED BY <1>1, <1>2, <1>5, <2>1 DEF TempInv, TypeOK, RecordInv, Genuine
<1>9. ToldInv'
  <2>1. ASSUME NEW c \in Children, c \in Reached(got.id)
        PROVE  value'[c] # None \/ OldNamesFailed
    <3>1. CASE got.id \in failed
      BY <1>1, <3>1 DEF Genuine, OldNamesFailed
    <3>2. CASE got.id \notin failed
      BY <1>2, <1>5, <2>1, <3>2 DEF Reached, TempInv, TypeOK
    <3> QED BY <3>1, <3>2
  <2>2. \A c \in Children : value[c] # None => value'[c] # None
    BY <1>2, <1>5 DEF TempInv, TypeOK
  <2>3. \A c \in Children : c \in told' => value'[c] # None \/ OldNamesFailed
    BY <1>5, <2>1, <2>2 DEF TempInv, ToldInv
  <2> QED BY <1>1, <1>5, <1>6, <2>3 DEF TempInv, ToldInv, OldNamesFailed, childVars
<1> QED BY <1>1, <1>7, <1>8, <1>9 DEF TempInv, PolledFileStays

LEMMA ParentKeeps ==
  ASSUME TempInv, Poll \/ Read \/ RemoveFile \/ Wait PROVE TempInv'
<1>1. UNCHANGED <<failed, child, record, handler, pending, closed, value, told, left>>
  BY DEF Poll, Read, RemoveFile, Wait, childVars
<1>2. /\ parent' \in {"poll", "read", "tell", "remove", "wait", "done"}
      /\ file' \in {file, Absent} /\ got' \in {got, None, file}
      /\ got' \in Records \cup {None} /\ None \notin Records
      /\ stream' \in [Children -> {"named", "orphan", None}]
  BY ChildrenAssumption DEF TempInv, TypeOK, Poll, Read, RemoveFile, Wait, childVars
<1>3. TypeOK'
  BY <1>1, <1>2 DEF TempInv, TypeOK
<1>4. /\ PolledFileStays'
      /\ parent' \in {"read", "tell"} => closed # Cardinality(Children)
      /\ parent' = "tell" => got' \in Records
      /\ parent' = "done" => \A c \in Children : ~Alive(c)
  BY DEF TempInv, PolledFileStays, Poll, Read, RemoveFile, Wait
<1>5. RecordInv'
  BY <1>1, <1>2, <1>4, ChildrenAssumption DEF TempInv, RecordInv, Genuine
<1>6. ToldInv'
  BY <1>1, <1>4 DEF TempInv, ToldInv, OldNamesFailed, Alive
<1> QED BY <1>1, <1>3, <1>4, <1>5, <1>6 DEF TempInv

LEMMA StepKeeps == TempInv /\ [Next]_vars => TempInv'
<1>1. TempInv /\ UNCHANGED vars => TempInv'
  BY DEF TempInv, TypeOK, PolledFileStays, RecordInv, Genuine, ToldInv, OldNamesFailed,
         Alive, vars
<1> QED BY <1>1, ChildKeeps, DeliverKeeps, TellKeeps, ParentKeeps DEF Next, ParentStep

(* The invariant above holds in every behaviour, whatever the counts are.  *)
THEOREM InvAlways == Spec => []TempInv
BY InitiallyInv, StepKeeps, PTL DEF Spec

(* From access() to remove() the file has its name, for any number of      *)
(* children that create, empty and write it (combination.c 73-95).         *)
THEOREM FileStaysWhilePolled == Spec => []PolledFileStays
<1>1. TempInv => PolledFileStays
  BY DEF TempInv
<1> QED BY <1>1, InvAlways, PTL

LEMMA InvImpliesCombination == TempInv => PrintsTheCombination
<1> SUFFICES ASSUME TempInv, parent = "done", NEW c \in Children
             PROVE  /\ value[c] = None => c \in failed \/ OldNamesFailed
                    /\ value[c] = "stale" => left \in Records /\ left.id = c
  BY DEF PrintsTheCombination, OldNamesFailed
<1>1. child[c] \in {"none", "done", "killed"}
  BY DEF TempInv, ToldInv, Alive
<1>2. c \in failed \/ c \in told
  BY <1>1 DEF TempInv, ToldInv
<1> QED BY <1>2 DEF TempInv, ToldInv, RecordInv

(* Whatever is counted twice or not at all, the factorials that are        *)
(* divided are of this run but for what an old file or a failed fork       *)
(* explains (combination.c 71-102).                                        *)
THEOREM CombinationIsOfThisRun == Spec => []PrintsTheCombination
BY InvAlways, InvImpliesCombination, PTL
=============================================================================
