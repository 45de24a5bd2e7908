------------------------- MODULE ProgramSlotsProofs -------------------------
(***************************************************************************)
(* Theorems about ProgramSlots, for every count a uint8_t can hold and any *)
(* process ids: the list is right, and the monitor implements JobPool.     *)
(*                                                                         *)
(* "active" alone says little: it is lowered by a free slot that names     *)
(* another's process.  What the monitor goes by is amount, which only      *)
(* grows, and closed.  That a pool of N is never exceeded follows from the *)
(* slots that are active, one at least for every process there is.         *)
(***************************************************************************)
EXTENDS ProgramSlots, FiniteSetTheorems, SequenceTheorems, TLAPS

Used   == {s \in Slots : s < size}
Active == {s \in Used : status[s] = "active"}

(* amount counts the calls of fork(), which no other count does.           *)
AmountInv ==
  /\ amount = (active + closed) % 256
  /\ amount <= total
  /\ Len(started) <= amount
  /\ ~scarce => Len(started) = amount

StartedInv ==
  \A k \in 1..Len(started) : /\ started[k] \in 0..(total - 1)
                             /\ ~scarce => started[k] = k - 1

(* Which pid[] are there: the first pass fills all slots in order.         *)
PidInv ==
  /\ \A s \in Used : /\ pid[s] = 0 => astray
                     /\ pid[s] = ERROR => scarce
  /\ pc = "start" => amount = 0 /\ i = 0 /\ \A s \in Used : status[s] = "inactive"
  /\ pc \in {"fill", "reap"} => size <= total
  /\ pc = "fill" =>
       \/ \A s \in Used : pid[s] # Garbage
       \/ amount = i /\ \A s \in Used : /\ s < i => pid[s] # Garbage
                                        /\ s >= i => status[s] = "inactive"
  /\ AsksOnlyFilledSlots

(* The processes there are, and what closed says of the others.            *)
ExistingInv ==
  /\ ~astray => Cardinality(Existing) <= Cardinality(Active)
  /\ ClosesWhatEnds

SlotsInv == TypeOK /\ AmountInv /\ StartedInv /\ PidInv /\ ExistingInv

-----------------------------------------------------------------------------
(* The sets that are counted are finite.                                   *)
LEMMA Finite ==
  ASSUME SlotsInv
  PROVE  /\ IsFiniteSet(Existing) /\ Cardinality(Existing) \in Nat
         /\ IsFiniteSet(Active) /\ Cardinality(Active) \in Nat
<1>1. IsFiniteSet(Existing)
  <2>1. Existing \in SUBSET Pids
    BY DEF Existing
  <2> QED BY <2>1, FS_Subset, SlotsAssumption
<1>2. IsFiniteSet(Active)
  <2>1. IsFiniteSet(0..(MaxCount - 1))
    BY FS_Interval, SlotsAssumption
  <2>2. Active \in SUBSET (0..(MaxCount - 1))
    BY DEF Active, Used, Slots
  <2> QED BY <2>1, <2>2, FS_Subset
<1> QED BY <1>1, <1>2, FS_CardinalityType

LEMMA InitiallyInv == Init => SlotsInv
<1> SUFFICES ASSUME Init PROVE SlotsInv
  OBVIOUS
<1>1. Existing = {} /\ Active = {}
  BY DEF Init, Existing, Active, Used
<1>2. Cardinality(Existing) = 0 /\ Cardinality(Active) = 0
  BY <1>1, FS_EmptySet
<1>3. started = <<>> /\ Len(started) = 0 /\ started \in Seq(-1..254)
  BY DEF Init
<1>4. TypeOK
  <2>1. total \in 0..MaxCount /\ size \in 0..MaxCount /\ i \in 0..size
    BY SlotsAssumption DEF Init
  <2>2. pid \in [Slots -> Pids \cup {0, ERROR, Garbage}]
    BY DEF Init
  <2>3. process \in [Pids -> {"none", "running", "ended"}]
    BY DEF Init
  <2>4. status \in [Slots -> {"active", "inactive"}]
    BY DEF Init
  <2>5. active \in 0..255 /\ closed \in 0..255 /\ amount \in 0..255
    BY DEF Init
  <2> QED BY <1>3, <2>1, <2>2, <2>3, <2>4, <2>5 DEF Init, TypeOK
<1>5. AmountInv
  BY <1>3, SlotsAssumption DEF Init, AmountInv
<1>6. StartedInv
  BY <1>3 DEF StartedInv
<1>7. PidInv
  BY SlotsAssumption DEF Init, PidInv, Used, AsksOnlyFilledSlots
<1>8. ExistingInv
  BY <1>2, <1>3 DEF Init, ExistingInv, ClosesWhatEnds, Ran
<1> QED BY <1>4, <1>5, <1>6, <1>7, <1>8 DEF SlotsInv

-----------------------------------------------------------------------------
(* Filling a slot                                                          *)

(* The arithmetic of the uint8_t counts.                                   *)
LEMMA CountUp ==
  ASSUME active \in 0..255, closed \in 0..255, amount \in 0..254,
         amount = (active + closed) % 256,
         active' = (active + 1) % 256, amount' = (active' + closed) % 256
  PROVE  amount' = amount + 1 /\ active' \in 0..255
BY SMT

LEMMA MakeActive ==
  ASSUME SlotsInv, Filling, status[i] = "inactive", makeActiveProcess(i), size' = size
  PROVE  /\ i \in Used /\ amount \in 0..254 /\ amount < total /\ amount' = amount + 1
         /\ amount' = (active' + closed') % 256
         /\ active' \in 0..255 /\ closed' = closed
         /\ status' \in [Slots -> {"active", "inactive"}]
         /\ Cardinality(Active') = Cardinality(Active) + 1
         /\ Cardinality(Active) < size
         /\ \A s \in Used : s # i => status'[s] = status[s]
<1>1. i \in Used /\ i \in Slots /\ size \in Nat /\ i \in Nat
  BY SlotsAssumption DEF SlotsInv, TypeOK, Filling, Used, Slots
<1>2. amount \in 0..254 /\ amount < total
  BY SlotsAssumption DEF SlotsInv, TypeOK, AmountInv, Filling
<1>3. active' = (active + 1) % 256 /\ amount' = (active' + closed) % 256 /\ closed' = closed
  BY DEF makeActiveProcess
<1>4. amount' = amount + 1 /\ active' \in 0..255
  <2>1. active \in 0..255 /\ closed \in 0..255 /\ amount = (active + closed) % 256
    BY DEF SlotsInv, TypeOK, AmountInv
  <2>2. amount \in 0..254
    BY <1>2
  <2> QED BY <1>3, <2>1, <2>2, CountUp, Zenon
<1>5. status' \in [Slots -> {"active", "inactive"}]
  BY DEF SlotsInv, TypeOK, makeActiveProcess
<1>6. Active' = Active \cup {i} /\ i \notin Active
  BY <1>1 DEF SlotsInv, TypeOK, makeActiveProcess, Active, Used
<1>7. Cardinality(Active') = Cardinality(Active) + 1
  BY <1>6, Finite, FS_AddElement
<1>8. Cardinality(Active) < size
  <2>1. IsFiniteSet(0..(size - 1)) /\ Cardinality(0..(size - 1)) = size
    BY <1>1, FS_Interval DEF Used
  <2>2. Active' \in SUBSET (0..(size - 1))
    BY <1>1 DEF Active, Used, Slots
  <2>3. Cardinality(Active') <= size
    BY <2>1, <2>2, FS_Subset
  <2> QED BY <1>1, <1>7, <2>3, Finite
<1>9. \A s \in Used : s # i => status'[s] = status[s]
  BY DEF SlotsInv, TypeOK, makeActiveProcess, Used
<1> QED BY <1>1, <1>2, <1>3, <1>4, <1>5, <1>7, <1>8, <1>9

(* The program that is started next is the next of the list.               *)
LEMMA StartedGrows ==
  ASSUME SlotsInv, started' = Append(started, amount), amount \in 0..254, amount < total,
         UNCHANGED <<total, scarce>>
  PROVE  /\ started' \in Seq(-1..254) /\ Len(started') = Len(started) + 1
         /\ StartedInv'
<1>1. started \in Seq(-1..254) /\ Len(started) \in Nat
  BY DEF SlotsInv, TypeOK
<1>2. /\ started' \in Seq(-1..254) /\ Len(started') = Len(started) + 1
      /\ \A k \in 1..Len(started) : started'[k] = started[k]
      /\ started'[Len(started) + 1] = amount
  BY <1>1
<1>3. ~scarce => Len(started) = amount
  BY DEF SlotsInv, AmountInv
<1>4. ASSUME NEW k \in 1..Len(started')
      PROVE  started'[k] \in 0..(total - 1) /\ (~scarce => started'[k] = k - 1)
  <2>1. CASE k \in 1..Len(started)
    BY <1>2, <2>1 DEF SlotsInv, StartedInv
  <2>2. CASE k = Len(started) + 1
    <3>1. total \in Nat
      BY SlotsAssumption DEF SlotsInv, TypeOK
    <3> QED BY <1>1, <1>2, <1>3, <2>2, <3>1
  <2> QED BY <1>1, <1>2, <2>1, <2>2
<1> QED BY <1>2, <1>4 DEF StartedInv

(* PidInv after slot i was filled with q.                                  *)
LEMMA PidsGrow ==
  ASSUME SlotsInv, Filling, NEW q \in Pids \cup {0, ERROR}, pid' = [pid EXCEPT ![i] = q],
         i \in Used, i' = i + 1, amount' = amount + 1, pc' = pc,
         UNCHANGED <<total, size, scarce>>,
         \A s \in Used : s # i => status'[s] = status[s],
         q = 0 => astray', q = ERROR => scarce, astray => astray'
  PROVE  PidInv' /\ pid' \in [Slots -> Pids \cup {0, ERROR, Garbage}]
<1>1. q # Garbage /\ i \in Slots /\ i \in Nat /\ pc = "fill" /\ Used' = Used
  BY SlotsAssumption DEF Filling, Used, Slots
<1>2. pid' \in [Slots -> Pids \cup {0, ERROR, Garbage}] /\ pid'[i] = q
      /\ \A s \in Used : s # i => pid'[s] = pid[s]
  BY <1>1 DEF SlotsInv, TypeOK, Used
<1>3. \A s \in Used : /\ pid'[s] = 0 => astray'
                      /\ pid'[s] = ERROR => scarce
  BY <1>2 DEF SlotsInv, PidInv
<1>4. size <= total
  BY <1>1 DEF SlotsInv, PidInv
<1>5. \/ \A s \in Used : pid'[s] # Garbage
      \/ amount' = i' /\ \A s \in Used : /\ s < i' => pid'[s] # Garbage
                                         /\ s >= i' => status'[s] = "inactive"
  <2>1. CASE \A s \in Used : pid[s] # Garbage
    BY <1>1, <1>2, <2>1
  <2>2. CASE amount = i /\ \A s \in Used : /\ s < i => pid[s] # Garbage
                                           /\ s >= i => status[s] = "inactive"
    <3>1. \A s \in Used : s \in Nat /\ (s < i + 1 => s < i \/ s = i) /\ (s >= i + 1 => s >= i /\ s # i)
      BY <1>1, SlotsAssumption DEF Used, Slots
    <3> QED BY <1>1, <1>2, <2>2, <3>1
  <2> QED BY <1>1, <2>1, <2>2 DEF SlotsInv, PidInv
<1>6. pc' = "fill"
  BY <1>1
<1> QED BY <1>1, <1>2, <1>3, <1>4, <1>5, <1>6 DEF PidInv, AsksOnlyFilledSlots
LEMMA ExistingGrows ==
  ASSUME SlotsInv, NEW p \in Pids, process[p] = "none",
         process' = [process EXCEPT ![p] = "running"]
  PROVE  /\ process' \in [Pids -> {"none", "running", "ended"}]
         /\ Cardinality(Existing') = Cardinality(Existing) + 1
<1>1. process' \in [Pids -> {"none", "running", "ended"}]
  BY DEF SlotsInv, TypeOK
<1>2. Existing' = Existing \cup {p} /\ p \notin Existing
  BY DEF SlotsInv, TypeOK, Existing
<1> QED BY <1>1, <1>2, Finite, FS_AddElement

LEMMA LaunchKeeps ==
  ASSUME SlotsInv, NEW p \in Pids, Launch(p)
  PROVE  /\ SlotsInv' /\ Len(started) < total
         /\ Len(started') = Len(started) + 1
         /\ Cardinality(Existing') = Cardinality(Existing) + 1
         /\ ~astray => Cardinality(Existing) < size
<1>1. /\ Filling /\ status[i] = "inactive" /\ makeActiveProcess(i) /\ i' = i + 1
      /\ UNCHANGED <<total, size, scarce, missing, astray, pc>>
      /\ pid' = [pid EXCEPT ![i] = p] /\ started' = Append(started, amount' - 1)
      /\ process[p] = "none" /\ process' = [process EXCEPT ![p] = "running"]
  BY DEF Launch, setting
<1>2. /\ i \in Used /\ amount \in 0..254 /\ amount < total /\ amount' = amount + 1
      /\ amount' = (active' + closed') % 256
      /\ active' \in 0..255 /\ closed' = closed
      /\ status' \in [Slots -> {"active", "inactive"}]
      /\ Cardinality(Active') = Cardinality(Active) + 1
      /\ Cardinality(Active) < size
      /\ \A s \in Used : s # i => status'[s] = status[s]
  BY <1>1, MakeActive
<1>3. started' = Append(started, amount)
  BY <1>1, <1>2
<1>4. /\ started' \in Seq(-1..254) /\ Len(started') = Len(started) + 1 /\ StartedInv'
  BY <1>1, <1>2, <1>3, StartedGrows
<1>5. PidInv' /\ pid' \in [Slots -> Pids \cup {0, ERROR, Garbage}]
  BY <1>1, <1>2, PidsGrow, SlotsAssumption
<1>6. /\ process' \in [Pids -> {"none", "running", "ended"}]
      /\ Cardinality(Existing') = Cardinality(Existing) + 1
  BY <1>1, ExistingGrows
<1>7. Len(started) <= amount /\ total <= 255 /\ Len(started) \in Nat /\ total \in Nat
  BY SlotsAssumption DEF SlotsInv, TypeOK, AmountInv
<1>8. TypeOK'
  <2>1. i' \in 0..size' /\ amount' \in 0..255
    BY <1>1, <1>2, SlotsAssumption DEF Used, Slots, SlotsInv, TypeOK
  <2> QED BY <1>1, <1>2, <1>4, <1>5, <1>6, <2>1 DEF SlotsInv, TypeOK
<1>9. AmountInv'
  BY <1>1, <1>2, <1>4, <1>7 DEF SlotsInv, AmountInv
<1>10. ~astray => Cardinality(Existing) <= Cardinality(Active)
  BY DEF SlotsInv, ExistingInv
<1>11. ExistingInv'
  <2>1. /\ scarce' = scarce /\ astray' = astray /\ closed' = closed
        /\ Len(started') = Len(started) + 1
        /\ Cardinality(Existing') = Cardinality(Existing) + 1
        /\ Cardinality(Active') = Cardinality(Active) + 1
    BY <1>1, <1>2, <1>4, <1>6
  <2>2. Cardinality(Existing) \in Nat /\ Cardinality(Active) \in Nat
    BY Finite DEF SlotsInv
  <2>3. ~astray' => Cardinality(Existing') <= Cardinality(Active')
    BY <1>10, <2>1, <2>2
  <2>4. ~scarce /\ ~astray => closed = Len(started) - Cardinality(Existing)
    BY DEF SlotsInv, ExistingInv, ClosesWhatEnds, Ran
  <2>5. ~scarce' /\ ~astray' => closed' = Len(started') - Cardinality(Existing')
    BY <1>7, <2>1, <2>2, <2>4
  <2> QED BY <2>3, <2>5 DEF ExistingInv, ClosesWhatEnds, Ran
<1>12. Len(started) < total
  BY <1>2, <1>7
<1>13. ~astray => Cardinality(Existing) < size
  BY <1>2, <1>10, Finite, SlotsAssumption DEF SlotsInv, TypeOK
<1> QED BY <1>4, <1>5, <1>6, <1>8, <1>9, <1>11, <1>12, <1>13 DEF SlotsInv

(* A fork that fails takes a slot and a number of the list.                *)
LEMMA LaunchFailsKeeps ==
  ASSUME SlotsInv, LaunchFails
  PROVE  SlotsInv'
<1>1. /\ scarce /\ Filling /\ status[i] = "inactive" /\ makeActiveProcess(i) /\ i' = i + 1
      /\ UNCHANGED <<total, size, scarce, missing, astray, pc, process, started>>
      /\ pid' = [pid EXCEPT ![i] = ERROR]
  BY DEF LaunchFails, setting
<1>2. /\ i \in Used /\ amount \in 0..254 /\ amount < total /\ amount' = amount + 1
      /\ amount' = (active' + closed') % 256
      /\ active' \in 0..255 /\ closed' = closed
      /\ status' \in [Slots -> {"active", "inactive"}]
      /\ Cardinality(Active') = Cardinality(Active) + 1
      /\ \A s \in Used : s # i => status'[s] = status[s]
  BY <1>1, MakeActive
<1>3. PidInv' /\ pid' \in [Slots -> Pids \cup {0, ERROR, Garbage}]
  <2>1. ERROR # 0
    BY DEF ERROR
  <2> QED BY <1>1, <1>2, <2>1, PidsGrow
<1>4. Len(started) <= amount /\ total <= 255 /\ Len(started) \in Nat /\ total \in Nat
  BY SlotsAssumption DEF SlotsInv, TypeOK, AmountInv
<1>5. TypeOK'
  <2>1. i' \in 0..size' /\ amount' \in 0..255
    BY <1>1, <1>2, SlotsAssumption DEF Used, Slots, SlotsInv, TypeOK
  <2> QED BY <1>1, <1>2, <1>3, <2>1 DEF SlotsInv, TypeOK
<1>6. AmountInv'
  BY <1>1, <1>2, <1>4 DEF SlotsInv, AmountInv
<1>7. StartedInv'
  BY <1>1 DEF SlotsInv, StartedInv
<1>8. ExistingInv'
  <2>1. Existing' = Existing
    BY <1>1 DEF Existing
  <2>2. ~astray => Cardinality(Existing) <= Cardinality(Active)
    BY DEF SlotsInv, ExistingInv
  <2> QED BY <1>1, <1>2, <2>1, <2>2, Finite DEF ExistingInv, ClosesWhatEnds
<1> QED BY <1>3, <1>5, <1>6, <1>7, <1>8 DEF SlotsInv

LEMMA GoAstrayKeeps ==
  ASSUME SlotsInv, GoAstray
  PROVE  SlotsInv'
<1>1. /\ Filling /\ status[i] = "inactive" /\ makeActiveProcess(i) /\ i' = i + 1
      /\ UNCHANGED <<total, size, scarce, missing, pc>> /\ astray' = TRUE
      /\ pid' = [pid EXCEPT ![i] = 0] /\ started' = Append(started, amount' - 1)
      /\ process' = [p \in Pids |-> "none"]
  BY DEF GoAstray
<1>2. /\ i \in Used /\ amount \in 0..254 /\ amount < total /\ amount' = amount + 1
      /\ amount' = (active' + closed') % 256
      /\ active' \in 0..255 /\ closed' = closed
      /\ status' \in [Slots -> {"active", "inactive"}]
      /\ \A s \in Used : s # i => status'[s] = status[s]
  BY <1>1, MakeActive
<1>3. started' = Append(started, amount)
  BY <1>1, <1>2
<1>4. /\ started' \in Seq(-1..254) /\ Len(started') = Len(started) + 1 /\ StartedInv'
  BY <1>1, <1>2, <1>3, StartedGrows
<1>5. PidInv' /\ pid' \in [Slots -> Pids \cup {0, ERROR, Garbage}]
  <2>1. ERROR # 0
    BY DEF ERROR
  <2> QED BY <1>1, <1>2, <2>1, PidsGrow
<1>6. Len(started) <= amount /\ total <= 255 /\ Len(started) \in Nat /\ total \in Nat
  BY SlotsAssumption DEF SlotsInv, TypeOK, AmountInv
<1>7. TypeOK'
  <2>1. i' \in 0..size' /\ amount' \in 0..255
    BY <1>1, <1>2, SlotsAssumption DEF Used, Slots, SlotsInv, TypeOK
  <2> QED BY <1>1, <1>2, <1>4, <1>5, <2>1 DEF SlotsInv, TypeOK
<1>8. AmountInv'
  BY <1>1, <1>2, <1>4, <1>6 DEF SlotsInv, AmountInv
<1>9. ExistingInv'
  BY <1>1 DEF ExistingInv, ClosesWhatEnds
<1> QED BY <1>4, <1>5, <1>7, <1>8, <1>9 DEF SlotsInv

-----------------------------------------------------------------------------
(* Asking a slot                                                           *)

(* What waitpid() does to the processes: it takes one that has ended, or   *)
(* nothing.                                                                *)
LEMMA WaitpidTakes ==
  ASSUME SlotsInv, pc = "reap", i # size, NEW p \in PidAt(i),
         NEW r \in Pids \cup {0, ERROR}, Waitpid(p, r)
  PROVE  /\ process' \in [Pids -> {"none", "running", "ended"}]
         /\ i \in Used /\ (p = 0 => astray) /\ (p = ERROR => scarce)
         /\ \/ /\ r \in Existing /\ Existing' = Existing \ {r}
               /\ p = r \/ scarce \/ astray
            \/ /\ process' = process /\ r \notin Pids
               /\ p = r => astray \/ (scarce /\ Existing = {})
<1>1. i \in Used /\ i \in Slots
  BY SlotsAssumption DEF SlotsInv, TypeOK, Used, Slots
<1>2. p = pid[i] /\ p # Garbage
  BY <1>1 DEF SlotsInv, PidInv, AsksOnlyFilledSlots, PidAt, TypeOK, Used, Slots
<1>3. (p = 0 => astray) /\ (p = ERROR => scarce) /\ p \in Pids \cup {0, ERROR}
  BY <1>1, <1>2 DEF SlotsInv, PidInv, TypeOK
<1>4. Existing \subseteq Pids /\ 0 \notin Pids /\ ERROR \notin Pids /\ ERROR # 0
  BY SlotsAssumption DEF Existing, ERROR
<1> DEFINE asked == IF p \in {0, ERROR} THEN Existing ELSE Existing \cap {p}
<1>5. asked \subseteq Existing /\ (p \notin {0, ERROR} => asked \subseteq {p})
  OBVIOUS
<1>6. CASE r \in asked /\ process[r] = "ended" /\ process' = [process EXCEPT ![r] = "none"]
  <2>1. process' \in [Pids -> {"none", "running", "ended"}]
    BY <1>6 DEF SlotsInv, TypeOK
  <2>2. Existing' = Existing \ {r}
    BY <1>4, <1>5, <1>6 DEF SlotsInv, TypeOK, Existing
  <2>3. p = r \/ scarce \/ astray
    BY <1>3, <1>5, <1>6
  <2> QED BY <1>1, <1>3, <1>5, <1>6, <2>1, <2>2, <2>3
<1>7. CASE /\ r = 0 /\ asked # {} /\ process' = process
  BY <1>1, <1>3, <1>4, <1>7 DEF SlotsInv, TypeOK
<1>8. CASE r = ERROR /\ asked = {} /\ process' = process
  BY <1>1, <1>3, <1>4, <1>8 DEF SlotsInv, TypeOK
<1> QED BY <1>6, <1>7, <1>8 DEF Waitpid

LEMMA CountsMove ==
  ASSUME active \in 0..255, closed \in 0..255,
         active' = (active - 1) % 256, closed' = (closed + 1) % 256
  PROVE  /\ active' \in 0..255 /\ closed' \in 0..255
         /\ (active' + closed') % 256 = (active + closed) % 256
         /\ closed < 255 => closed' = closed + 1
<1>1. closed' = IF closed = 255 THEN 0 ELSE closed + 1
  BY SMT
<1>2. active' = IF active = 0 THEN 255 ELSE active - 1
  BY SMT
<1>3. CASE active = 0 /\ closed = 255
  BY <1>1, <1>2, <1>3, SMT
<1>4. CASE active = 0 /\ closed # 255
  BY <1>1, <1>2, <1>4, SMT
<1>5. CASE active # 0 /\ closed = 255
  BY <1>1, <1>2, <1>5, SMT
<1>6. CASE active # 0 /\ closed # 255
  <2>1. active' + closed' = active + closed
    BY <1>1, <1>2, <1>6
  <2>2. active' \in 0..255 /\ closed' \in 0..255 /\ closed' = closed + 1
    BY <1>1, <1>2, <1>6
  <2> QED BY <2>1, <2>2
<1> QED BY <1>3, <1>4, <1>5, <1>6, Zenon

LEMMA MakeInactive ==
  ASSUME SlotsInv, i \in Used, makeInactiveProcess(i), size' = size
  PROVE  /\ amount' = amount /\ amount' = (active' + closed') % 256
         /\ active' \in 0..255 /\ closed' \in 0..255
         /\ closed < 255 => closed' = closed + 1
         /\ status' \in [Slots -> {"active", "inactive"}]
         /\ Cardinality(Active') \in Nat
         /\ Cardinality(Active) <= Cardinality(Active') + 1
<1>1. /\ active' = (active - 1) % 256 /\ closed' = (closed + 1) % 256
      /\ amount' = (active' + closed') % 256
      /\ status' = [status EXCEPT ![i] = "inactive"]
  BY DEF makeInactiveProcess
<1>2. active \in 0..255 /\ closed \in 0..255 /\ amount = (active + closed) % 256
  BY DEF SlotsInv, TypeOK, AmountInv
<1>3. /\ active' \in 0..255 /\ closed' \in 0..255
      /\ (active' + closed') % 256 = (active + closed) % 256
      /\ closed < 255 => closed' = closed + 1
  BY <1>1, <1>2, CountsMove, Zenon
<1>4. amount' = amount
  BY <1>1, <1>2, <1>3, Zenon
<1>5. status' \in [Slots -> {"active", "inactive"}]
  BY <1>1 DEF SlotsInv, TypeOK
<1>6. Active' = Active \ {i}
  BY <1>1 DEF SlotsInv, TypeOK, Active, Used
<1>7. Cardinality(Active') = IF i \in Active THEN Cardinality(Active) - 1 ELSE Cardinality(Active)
  BY <1>6, Finite, FS_RemoveElement
<1>8. Cardinality(Active') \in Nat
  BY <1>6, Finite, FS_RemoveElement, FS_CardinalityType
<1>9. Cardinality(Active) <= Cardinality(Active') + 1
  BY <1>7, Finite
<1> QED BY <1>1, <1>3, <1>4, <1>5, <1>8, <1>9

LEMMA ExistingShrinks ==
  ASSUME SlotsInv, NEW r \in Existing, Existing' = Existing \ {r}
  PROVE  /\ Cardinality(Existing) \in Nat \ {0}
         /\ Cardinality(Existing') = Cardinality(Existing) - 1
<1>1. Cardinality(Existing') = Cardinality(Existing) - 1
  BY Finite, FS_RemoveElement
<1>2. Cardinality(Existing) # 0
  BY Finite, FS_EmptySet
<1> QED BY <1>1, <1>2, Finite

(* What a step of asking leaves alone, and what follows of it.             *)
LEMMA AskingKeeps ==
  ASSUME SlotsInv, pc = "reap", i # size,
         UNCHANGED <<setting, pid, pc, started>>, i' = i + 1, i \in Used,
         amount' = amount, amount' = (active' + closed') % 256,
         active' \in 0..255, closed' \in 0..255,
         status' \in [Slots -> {"active", "inactive"}],
         process' \in [Pids -> {"none", "running", "ended"}],
         ExistingInv'
  PROVE  SlotsInv'
<1>1. UNCHANGED <<total, size, scarce, missing, astray>>
  BY DEF setting
<1>2. TypeOK'
  <2>1. i' \in 0..size'
    <3>1. size \in Nat
      BY SlotsAssumption DEF SlotsInv, TypeOK
    <3> QED BY <1>1, <3>1, SlotsAssumption DEF Used, Slots
  <2>2. amount' \in 0..255
    BY DEF SlotsInv, TypeOK
  <2> QED BY <1>1, <2>1, <2>2 DEF SlotsInv, TypeOK
<1>3. AmountInv'
  BY <1>1 DEF SlotsInv, AmountInv
<1>4. StartedInv'
  BY <1>1 DEF SlotsInv, StartedInv
<1>5. PidInv'
  BY <1>1 DEF SlotsInv, PidInv, AsksOnlyFilledSlots, Used
<1> QED BY <1>2, <1>3, <1>4, <1>5 DEF SlotsInv

LEMMA ReapEndedKeeps ==
  ASSUME SlotsInv, ReapEnded
  PROVE  SlotsInv'
<1>1. PICK p \in PidAt(i) : Waitpid(p, p)
  BY DEF ReapEnded
<1>2. /\ pc = "reap" /\ i # size /\ makeInactiveProcess(i) /\ i' = i + 1
      /\ UNCHANGED <<setting, pid, pc, started>>
  BY DEF ReapEnded
<1>3. p \in Pids \cup {0, ERROR}
  <2>1. i \in Slots
    BY <1>2, SlotsAssumption DEF SlotsInv, TypeOK, Slots
  <2> QED BY <2>1 DEF PidAt, SlotsInv, TypeOK
<1>4. /\ process' \in [Pids -> {"none", "running", "ended"}]
      /\ i \in Used
      /\ \/ p \in Existing /\ Existing' = Existing \ {p}
         \/ process' = process /\ (astray \/ (scarce /\ Existing = {}))
  BY <1>1, <1>2, <1>3, WaitpidTakes
<1>5. UNCHANGED <<total, size, scarce, missing, astray>>
  BY <1>2 DEF setting
<1>6. /\ amount' = amount /\ amount' = (active' + closed') % 256
      /\ active' \in 0..255 /\ closed' \in 0..255
      /\ closed < 255 => closed' = closed + 1
      /\ status' \in [Slots -> {"active", "inactive"}]
      /\ Cardinality(Active') \in Nat
      /\ Cardinality(Active) <= Cardinality(Active') + 1
  BY <1>2, <1>4, <1>5, MakeInactive
<1>7. ExistingInv'
  <2>1. CASE p \in Existing /\ Existing' = Existing \ {p}
    <3>1. /\ Cardinality(Existing) \in Nat \ {0}
          /\ Cardinality(Existing') = Cardinality(Existing) - 1
      BY <2>1, ExistingShrinks
    <3>2. ~astray => Cardinality(Existing) <= Cardinality(Active)
      BY DEF SlotsInv, ExistingInv
    <3>3. ~astray => Cardinality(Existing') <= Cardinality(Active')
      BY <1>6, <3>1, <3>2, Finite
    <3>4. /\ closed = Len(started) - Cardinality(Existing) => closed < 255
          /\ Len(started) \in Nat /\ closed \in Nat
      BY <3>1, SlotsAssumption DEF SlotsInv, AmountInv, TypeOK
    <3>5. ~scarce /\ ~astray => closed' = Len(started) - Cardinality(Existing')
      BY <1>6, <3>1, <3>4 DEF SlotsInv, ExistingInv, ClosesWhatEnds, Ran
    <3> QED BY <1>2, <1>5, <3>3, <3>5 DEF ExistingInv, ClosesWhatEnds, Ran
  <2>2. CASE process' = process /\ (astray \/ (scarce /\ Existing = {}))
    <3>1. Existing' = Existing
      BY <2>2 DEF Existing
    <3>2. scarce /\ Existing = {} => Cardinality(Existing') <= Cardinality(Active')
      BY <1>6, <3>1, FS_EmptySet
    <3> QED BY <1>5, <2>2, <3>2 DEF ExistingInv, ClosesWhatEnds
  <2> QED BY <1>4, <2>1, <2>2
<1> QED BY <1>2, <1>4, <1>6, <1>7, AskingKeeps

LEMMA ReapOtherKeeps ==
  ASSUME SlotsInv, ReapOther
  PROVE  SlotsInv'
<1>1. PICK p \in PidAt(i), r \in Pids \cup {0, ERROR} : r # p /\ Waitpid(p, r)
  BY DEF ReapOther
<1>2. /\ pc = "reap" /\ i # size /\ i' = i + 1
      /\ UNCHANGED <<setting, list, pid, pc, started>>
  BY DEF ReapOther
<1>3. /\ process' \in [Pids -> {"none", "running", "ended"}]
      /\ i \in Used
      /\ \/ r \in Existing /\ Existing' = Existing \ {r} /\ (scarce \/ astray)
         \/ process' = process
  BY <1>1, <1>2, WaitpidTakes
<1>4. UNCHANGED <<total, size, scarce, missing, astray, status, active, closed, amount>>
  BY <1>2 DEF setting, list
<1>5. Active' = Active
  BY <1>4 DEF Active, Used
<1>6. ExistingInv'
  <2>1. CASE r \in Existing /\ Existing' = Existing \ {r} /\ (scarce \/ astray)
    <3>1. /\ Cardinality(Existing) \in Nat \ {0}
          /\ Cardinality(Existing') = Cardinality(Existing) - 1
      BY <2>1, ExistingShrinks
    <3>2. ~astray => Cardinality(Existing') <= Cardinality(Active)
      BY <3>1, Finite DEF SlotsInv, ExistingInv
    <3> QED BY <1>4, <1>5, <2>1, <3>2 DEF ExistingInv, ClosesWhatEnds
  <2>2. CASE process' = process
    <3>1. Existing' = Existing
      BY <2>2 DEF Existing
    <3> QED BY <1>2, <1>4, <1>5, <3>1 DEF SlotsInv, ExistingInv, ClosesWhatEnds, Ran
  <2> QED BY <1>3, <2>1, <2>2
<1>7. /\ amount = (active + closed) % 256 /\ active \in 0..255 /\ closed \in 0..255
      /\ status \in [Slots -> {"active", "inactive"}]
  BY DEF SlotsInv, TypeOK, AmountInv
<1>8. /\ amount' = (active' + closed') % 256 /\ active' \in 0..255 /\ closed' \in 0..255
      /\ status' \in [Slots -> {"active", "inactive"}]
  BY <1>4, <1>7, Zenon
<1> QED BY <1>2, <1>3, <1>4, <1>6, <1>8, AskingKeeps

-----------------------------------------------------------------------------
(* The other steps                                                         *)

LEMMA EndFillingKeeps ==
  ASSUME SlotsInv, EndFilling
  PROVE  SlotsInv'
<1>1. /\ pc = "fill" /\ (i = size \/ amount = total) /\ pc' = "reap" /\ i' = 0
      /\ UNCHANGED <<total, size, scarce, missing, astray, status, active, closed, amount,
                     pid, process, started>>
  BY DEF EndFilling, setting, list
<1>2. Active' = Active /\ Existing' = Existing /\ Used' = Used
  BY <1>1 DEF Active, Existing, Used
<1>3. \A s \in Used : pid[s] # Garbage
  <2>1. CASE amount = i /\ \A s \in Used : s < i => pid[s] # Garbage
    <3>1. i = size \/ i = total
      BY <1>1, <2>1
    <3>2. \A s \in Used : s < i
      BY <1>1, <3>1, SlotsAssumption DEF SlotsInv, TypeOK, PidInv, Used, Slots
    <3> QED BY <2>1, <3>2
  <2> QED BY <1>1, <2>1 DEF SlotsInv, PidInv
<1>4. TypeOK'
  <2>1. 0 \in 0..size
    BY SlotsAssumption DEF SlotsInv, TypeOK
  <2> QED BY <1>1, <2>1 DEF SlotsInv, TypeOK
<1>5. AmountInv' /\ StartedInv'
  BY <1>1 DEF SlotsInv, AmountInv, StartedInv
<1>6. PidInv'
  <2>1. \A s \in 0..(size - 1) : s \in Used
    BY SlotsAssumption DEF SlotsInv, TypeOK, Used, Slots
  <2> QED BY <1>1, <1>2, <1>3, <2>1 DEF SlotsInv, PidInv, AsksOnlyFilledSlots
<1>7. ExistingInv'
  BY <1>1, <1>2 DEF SlotsInv, ExistingInv, ClosesWhatEnds, Ran
<1> QED BY <1>4, <1>5, <1>6, <1>7 DEF SlotsInv

LEMMA ControlKeeps ==
  ASSUME SlotsInv, Start \/ SkipActive \/ EndReaping
  PROVE  SlotsInv'
<1>1. UNCHANGED <<total, size, scarce, missing, astray, status, active, closed, amount,
                  pid, process, started>>
  BY DEF Start, SkipActive, EndReaping, setting, list
<1>2. Active' = Active /\ Existing' = Existing /\ Used' = Used
  BY <1>1 DEF Active, Existing, Used
<1>3. /\ pc' \in {"start", "fill", "reap", "done", "refused"}
      /\ i' \in 0..size
  BY SlotsAssumption DEF SlotsInv, TypeOK, Start, SkipActive, EndReaping, Filling
<1>4. TypeOK'
  BY <1>1, <1>3 DEF SlotsInv, TypeOK
<1>5. AmountInv' /\ StartedInv'
  BY <1>1 DEF SlotsInv, AmountInv, StartedInv
<1>6. ExistingInv'
  BY <1>1, <1>2 DEF SlotsInv, ExistingInv, ClosesWhatEnds, Ran
<1>7. \A s \in Used : s \in Nat /\ s \in 0..(size - 1)
  BY SlotsAssumption DEF SlotsInv, TypeOK, Used, Slots
<1>8. PidInv'
  <2>1. CASE Start
    <3>1. pc' = "fill" => size <= total /\ amount' = i' /\ i' = 0
      <4>1. size \in Int /\ total \in Int
        BY SlotsAssumption DEF SlotsInv, TypeOK
      <4>2. amount' = 0 /\ i' = 0
        BY <1>1, <2>1 DEF Start, SlotsInv, PidInv
      <4>3. pc' = "fill" => ~(size > total)
        BY <2>1 DEF Start
      <4> QED BY <4>1, <4>2, <4>3
    <3>2. pc' # "start" /\ pc' # "reap" /\ pc = "start"
      BY <2>1 DEF Start
    <3>3. \A s \in Used : ~(s < 0) /\ status[s] = "inactive"
      BY <1>7, <3>2 DEF SlotsInv, PidInv
    <3> QED BY <1>1, <1>2, <3>1, <3>2, <3>3 DEF SlotsInv, PidInv, AsksOnlyFilledSlots
  <2>2. CASE SkipActive
    <3>1. pc = "fill" /\ pc' = "fill" /\ i \in Used /\ status[i] = "active" /\ i \in Nat
      BY <2>2, SlotsAssumption DEF SkipActive, Filling, SlotsInv, TypeOK, Used, Slots
    <3>2. \A s \in Used : pid[s] # Garbage
      BY <3>1 DEF SlotsInv, PidInv
    <3> QED BY <1>1, <1>2, <3>1, <3>2 DEF SlotsInv, PidInv, AsksOnlyFilledSlots
  <2>3. CASE EndReaping
    <3>1. pc = "reap" /\ pc' \in {"done", "fill"}
      BY <2>3 DEF EndReaping
    <3>2. \A s \in Used : pid[s] # Garbage
      BY <1>7, <3>1 DEF SlotsInv, PidInv, AsksOnlyFilledSlots
    <3>3. size <= total
      BY <3>1 DEF SlotsInv, PidInv
    <3> QED BY <1>1, <1>2, <3>1, <3>2, <3>3 DEF SlotsInv, PidInv, AsksOnlyFilledSlots
  <2> QED BY <2>1, <2>2, <2>3
<1> QED BY <1>4, <1>5, <1>6, <1>8 DEF SlotsInv

LEMMA ProgramEndsKeeps ==
  ASSUME SlotsInv, NEW p \in Pids, ProgramEnds(p)
  PROVE  SlotsInv' /\ Existing' = Existing
<1>1. /\ UNCHANGED <<total, size, scarce, missing, astray, status, active, closed, amount,
                     pid, i, pc, started>>
      /\ process[p] = "running" /\ process' = [process EXCEPT ![p] = "ended"]
  BY DEF ProgramEnds, setting, list
<1>2. Active' = Active /\ Existing' = Existing /\ Used' = Used
  BY <1>1 DEF SlotsInv, TypeOK, Active, Existing, Used
<1>3. TypeOK'
  BY <1>1 DEF SlotsInv, TypeOK
<1>4. AmountInv' /\ StartedInv'
  BY <1>1 DEF SlotsInv, AmountInv, StartedInv
<1>5. PidInv'
  BY <1>1, <1>2 DEF SlotsInv, PidInv, AsksOnlyFilledSlots
<1>6. ExistingInv'
  BY <1>1, <1>2 DEF SlotsInv, ExistingInv, ClosesWhatEnds, Ran
<1> QED BY <1>2, <1>3, <1>4, <1>5, <1>6 DEF SlotsInv

LEMMA StutterKeeps == SlotsInv /\ UNCHANGED vars => SlotsInv'
BY DEF vars, SlotsInv, TypeOK, AmountInv, StartedInv, PidInv, AsksOnlyFilledSlots,
       ExistingInv, ClosesWhatEnds, Ran, Existing, Active, Used

LEMMA StepKeeps == SlotsInv /\ [Next]_vars => SlotsInv'
<1> SUFFICES ASSUME SlotsInv, [Next]_vars PROVE SlotsInv'
  OBVIOUS
<1>1. CASE \E p \in Pids : Launch(p)
  BY <1>1, LaunchKeeps
<1>2. CASE Start \/ SkipActive \/ EndReaping
  BY <1>2, ControlKeeps
<1>3. CASE \E p \in Pids : ProgramEnds(p)
  BY <1>3, ProgramEndsKeeps
<1> QED BY <1>1, <1>2, <1>3, LaunchFailsKeeps, GoAstrayKeeps, EndFillingKeeps,
           ReapEndedKeeps, ReapOtherKeeps, StutterKeeps DEF Next, Monitor

(* The invariant above holds in every behaviour, whatever the counts are.  *)
THEOREM InvAlways == Spec => []SlotsInv
BY InitiallyInv, StepKeeps, PTL DEF Spec

(* No index beyond the list of programs is used, whatever forks and execs  *)
(* fail and in whichever monitor (processLauncher.c 75-83).                *)
THEOREM NeverBeyondTheList == Spec => []StaysInTheList
<1>1. SlotsInv => StaysInTheList
  BY DEF SlotsInv, StartedInv, StaysInTheList
<1> QED BY <1>1, InvAlways, PTL

(* While no fork fails the programs are started in the order of the list.  *)
THEOREM ProgramsStartOnce == Spec => []StartsEachOnce
<1>1. SlotsInv => StartsEachOnce
  BY DEF SlotsInv, StartedInv, StartsEachOnce
<1> QED BY <1>1, InvAlways, PTL

(* No slot is asked before it was filled, for any counts (lines 66, 87-88).*)
THEOREM AskedSlotsAreFilled == Spec => []AsksOnlyFilledSlots
<1>1. SlotsInv => AsksOnlyFilledSlots
  BY DEF SlotsInv, PidInv
<1> QED BY <1>1, InvAlways, PTL

(* "closed", by which the monitor ends, counts what has ended, although    *)
(* free slots are asked and pids are used again (lines 86-89).             *)
THEOREM ClosedIsTrue == Spec => []ClosesWhatEnds
<1>1. SlotsInv => ClosesWhatEnds
  BY DEF SlotsInv, ExistingInv
<1> QED BY <1>1, InvAlways, PTL

-----------------------------------------------------------------------------
(* The pool of jobs                                                        *)

Counted == <<Len(started), Cardinality(Existing), total, size>>

LEMMA CountedStutters ==
  ASSUME UNCHANGED Counted PROVE UNCHANGED Pool!jobVars
BY DEF Counted, Pool!jobVars, Ran

(* A step of the monitor starts a job, ends one, or does neither.          *)
LEMMA StepIsOfThePool ==
  ASSUME SlotsInv, [Next]_vars
  PROVE  astray' \/ [Pool!PoolNext]_(Pool!jobVars)
<1>1. Len(started) \in Nat /\ total \in Nat /\ size \in Nat
  BY SlotsAssumption DEF SlotsInv, TypeOK
<1>2. ASSUME UNCHANGED <<total, size, process, started>> PROVE UNCHANGED Pool!jobVars
  <2>1. Existing' = Existing
    BY <1>2 DEF Existing
  <2> QED BY <1>2, <2>1, CountedStutters DEF Counted
<1>3. ASSUME UNCHANGED <<total, size, started>>,
             NEW r \in Existing, Existing' = Existing \ {r}
      PROVE  Pool!PoolNext
  <2>1. /\ Cardinality(Existing) \in Nat \ {0}
        /\ Cardinality(Existing') = Cardinality(Existing) - 1
    BY <1>3, ExistingShrinks
  <2> QED BY <1>1, <1>3, <2>1 DEF Pool!PoolNext, Pool!EndJob, Ran
<1>4. ASSUME NEW p \in Pids, Launch(p) PROVE astray' \/ Pool!PoolNext
  <2>1. /\ Len(started) < total /\ Len(started') = Len(started) + 1
        /\ Cardinality(Existing') = Cardinality(Existing) + 1
        /\ ~astray => Cardinality(Existing) < size
    BY <1>4, LaunchKeeps
  <2>2. UNCHANGED <<total, size, astray>>
    BY <1>4 DEF Launch, setting
  <2> QED BY <1>1, <2>1, <2>2, Finite DEF Pool!PoolNext, Pool!StartJob, Ran
<1>5. CASE GoAstray
  BY <1>5 DEF GoAstray
<1>6. CASE ReapEnded
  <2>1. PICK p \in PidAt(i) : Waitpid(p, p)
    BY <1>6 DEF ReapEnded
  <2>2. /\ pc = "reap" /\ i # size /\ UNCHANGED <<total, size, started>>
    BY <1>6 DEF ReapEnded, setting
  <2>3. p \in Pids \cup {0, ERROR}
    <3>1. i \in Slots
      BY <2>2, SlotsAssumption DEF SlotsInv, TypeOK, Slots
    <3> QED BY <3>1 DEF PidAt, SlotsInv, TypeOK
  <2>4. \/ p \in Existing /\ Existing' = Existing \ {p}
        \/ process' = process
    BY <2>1, <2>2, <2>3, WaitpidTakes
  <2> QED BY <1>2, <1>3, <2>2, <2>4
<1>7. CASE ReapOther
  <2>1. PICK p \in PidAt(i), r \in Pids \cup {0, ERROR} : r # p /\ Waitpid(p, r)
    BY <1>7 DEF ReapOther
  <2>2. /\ pc = "reap" /\ i # size /\ UNCHANGED <<total, size, started>>
    BY <1>7 DEF ReapOther, setting
  <2>3. \/ r \in Existing /\ Existing' = Existing \ {r}
        \/ process' = process
    BY <2>1, <2>2, WaitpidTakes
  <2> QED BY <1>2, <1>3, <2>2, <2>3
<1>8. CASE \E p \in Pids : ProgramEnds(p)
  <2>1. Existing' = Existing
    BY <1>8, ProgramEndsKeeps
  <2>2. UNCHANGED <<total, size, started>>
    BY <1>8 DEF ProgramEnds, setting
  <2> QED BY <2>1, <2>2, CountedStutters DEF Counted
<1>9. CASE Start \/ SkipActive \/ EndReaping \/ LaunchFails \/ EndFilling \/ UNCHANGED vars
  <2>1. UNCHANGED <<total, size, process, started>>
    BY <1>9 DEF Start, SkipActive, EndReaping, LaunchFails, EndFilling, vars, setting
  <2> QED BY <1>2, <2>1
<1> QED BY <1>4, <1>5, <1>6, <1>7, <1>8, <1>9 DEF Next, Monitor

(* For any counts: the monitor, unless it is one that execl() returned to, *)
(* never has more than N programs in existence and starts no more than it  *)
(* was asked for, even when forks fail.                                    *)
THEOREM MonitorImplementsPool == Spec => ImplementsPool
<1>1. Init => Pool!PoolInit
  <2> SUFFICES ASSUME Init PROVE Pool!PoolInit
    OBVIOUS
  <2>1. Existing = {} /\ Len(started) = 0
    BY DEF Init, Existing
  <2>2. Cardinality(Existing) = 0
    BY <2>1, FS_EmptySet
  <2> QED BY <2>1, <2>2, SlotsAssumption DEF Init, Pool!PoolInit, Ran
<1>2. SlotsInv /\ [Next]_vars => [astray' \/ [Pool!PoolNext]_(Pool!jobVars)]_vars
  BY StepIsOfThePool
<1> QED BY <1>1, <1>2, InvAlways, PTL DEF Spec, ImplementsPool

=============================================================================
