-------------------------- MODULE ProvisionProofs --------------------------
(***************************************************************************)
(* Proofs about Provision for any number of steps in each phase.           *)
(***************************************************************************)
EXTENDS Provision, TLAPS

LEMMA StepsAre ==
  Steps = {s \in [phase : 1..3, index : Nat] : s.index < Count[s.phase]}
  BY ProvisionAssumption DEF Steps, At

\* NextFrom passes over nothing that is not done.
LEMMA NextFromPassesAny ==
  ASSUME NEW p \in Places, NEW D, \A s \in Steps : Before(s, p) => s \in D
  PROVE  \/ NextFrom(p) = Complete /\ Steps \subseteq D
         \/ /\ NextFrom(p) \in Steps
            /\ \A s \in Steps : Before(s, NextFrom(p)) => s \in D
<1> DEFINE later == {ph \in 1..3 : ph > p.phase /\ Count[ph] > 0}
           next  == CHOOSE ph \in later : \A q \in later : ph <= q
<1>1. CASE p \in Steps
  BY <1>1 DEF NextFrom
<1>2. CASE p \notin Steps /\ later = {}
  <2>1. NextFrom(p) = Complete
    BY <1>2 DEF NextFrom
  <2>2. \A s \in Steps : Before(s, p)
    BY <1>2, StepsAre, ProvisionAssumption DEF Before, Places
  <2> QED
    BY <2>1, <2>2
<1>3. CASE p \notin Steps /\ later # {}
  <2>1. \E ph \in later : \A q \in later : ph <= q
    BY <1>3
  <2>2. next \in later /\ \A q \in later : next <= q
    BY <2>1
  <2>3. NextFrom(p) = At(next, 0)
    BY <1>3 DEF NextFrom
  <2>4. next \in 1..3 /\ next > p.phase /\ Count[next] > 0
    BY <2>2
  <2> HIDE DEF next
  <2>5. NextFrom(p) \in Steps
    <3>1. At(next, 0) \in [phase : 1..3, index : Nat]
      BY <2>4 DEF At
    <3>2. At(next, 0).index < Count[At(next, 0).phase]
      BY <2>4, ProvisionAssumption DEF At
    <3> QED
      BY <2>3, <3>1, <3>2, StepsAre
  <2>6. ASSUME NEW s \in Steps, Before(s, NextFrom(p))
        PROVE  Before(s, p)
    <3>1. s.phase \in 1..3 /\ s.index \in Nat /\ s.index < Count[s.phase]
      BY StepsAre
    <3>2. s.phase < next
      BY <2>3, <2>4, <2>6, <3>1 DEF Before, At
    <3>3. s.phase \notin later
      BY <2>2, <2>4, <3>1, <3>2
    <3>4. s.phase <= p.phase
      BY <3>1, <3>3, ProvisionAssumption DEF Places
    <3>5. s.phase = p.phase => s.index < p.index
      <4>1. p.phase \in 1..3 /\ p.index \in Nat => ~(p.index < Count[p.phase])
        BY <1>3, StepsAre DEF Places
      <4> QED
        BY <3>1, <4>1, ProvisionAssumption DEF Places
    <3> QED
      BY <3>1, <3>4, <3>5 DEF Before, Places
  <2> QED
    BY <2>5, <2>6
<1> QED
  BY <1>1, <1>2, <1>3

LEMMA NextFromPasses ==
  ASSUME NEW p \in Places, Behind(p)
  PROVE  \/ NextFrom(p) = Complete /\ Steps \subseteq done
         \/ NextFrom(p) \in Steps /\ Behind(NextFrom(p))
  BY NextFromPassesAny DEF Behind

LEMMA NextFromPlace ==
  ASSUME NEW p \in Places
  PROVE  NextFrom(p) \in Places /\ (p.phase # 4 => ~Before(NextFrom(p), p))
<1> DEFINE later == {ph \in 1..3 : ph > p.phase /\ Count[ph] > 0}
           next  == CHOOSE ph \in later : \A q \in later : ph <= q
<1>1. CASE p \in Steps
  BY <1>1 DEF NextFrom, Before, Places
<1>2. CASE p \notin Steps /\ later = {}
  <2>1. NextFrom(p) = Complete
    BY <1>2 DEF NextFrom
  <2> QED
    BY <2>1 DEF Complete, At, Before, Places
<1>3. CASE p \notin Steps /\ later # {}
  <2>1. \E ph \in later : \A q \in later : ph <= q
    BY <1>3
  <2>2. next \in later
    BY <2>1
  <2>3. NextFrom(p) = At(next, 0)
    BY <1>3 DEF NextFrom
  <2>4. next \in 1..3 /\ next > p.phase
    BY <2>2
  <2> HIDE DEF next
  <2> QED
    BY <2>3, <2>4 DEF At, Before, Places
<1> QED
  BY <1>1, <1>2, <1>3

LEMMA ProgressInit == Init => Progress
<1> SUFFICES ASSUME Init PROVE Progress
  OBVIOUS
<1>1. TypeOK
  <2>1. marker \in BOOLEAN
    BY Zenon DEF Init
  <2>2. cursor \in Places
    BY DEF Init, Fresh, At, Places
  <2> QED
    BY <2>1, <2>2 DEF Init, TypeOK
<1>2. InOrder /\ MarkerHolds
  BY DEF Init, InOrder, MarkerHolds
<1>3. Behind(Read)
  BY StepsAre DEF Init, Behind, Read, Fresh, At, Before
<1> QED
  BY <1>1, <1>2, <1>3 DEF Init, Progress

LEMMA ProgressStep ==
  ASSUME Progress, [Next]_vars
  PROVE  Progress'
<1> USE DEF Progress, TypeOK, InOrder, MarkerHolds, Behind, Read, Provisioned
<1>1. CASE UNCHANGED vars
  BY <1>1 DEF vars
<1>2. CASE Begin
  BY <1>2, ProvisionAssumption DEF Begin, Fresh, Complete, At, Places, Labels
<1>3. CASE WriteSshWait
  BY <1>3, StepsAre, ProvisionAssumption DEF WriteSshWait, Fresh, At, Before, Places, Labels
<1>4. CASE SshReady
  <2>1. cursor' \in Places
    BY <1>4, NextFromPlace DEF SshReady
  <2>2. at' \in {"idle", "step", "complete"} /\ UNCHANGED <<saved, marker, done>>
    BY <1>4 DEF SshReady, Onward
  <2>3. at' = "complete" => Steps \subseteq done /\ ~marker
    BY <1>4, NextFromPasses, StepsAre DEF SshReady, Onward, Complete, At
  <2>4. at' = "step" => cursor' \in Steps /\ Behind(cursor)' /\ ~marker
    BY <1>4, NextFromPasses DEF SshReady, Onward
  <2> QED
    BY <2>1, <2>2, <2>3, <2>4 DEF Labels
<1>5. CASE SshFails
  BY <1>5 DEF SshFails, Labels
<1>6. CASE WriteStep
  BY <1>6, StepsAre, ProvisionAssumption DEF WriteStep, Places, Labels
<1>7. CASE StepDone
  <2> DEFINE after == At(cursor.phase, cursor.index + 1)
  <2>1. after \in Places /\ cursor \in Steps
    BY <1>7, StepsAre DEF StepDone, At, Places
  <2>2. done' = done \cup {cursor} /\ UNCHANGED <<saved, marker>>
    BY <1>7 DEF StepDone
  <2>3. \A s \in Steps : Before(s, after) => s \in done'
    BY <1>7, <2>1, <2>2, StepsAre DEF StepDone, Before, At
  <2>4. cursor' = NextFrom(after) /\ cursor' \in Places
    BY <1>7, <2>1, NextFromPlace DEF StepDone
  <2>5. \/ cursor' = Complete /\ Steps \subseteq done'
        \/ cursor' \in Steps /\ Behind(cursor)'
    <3>1. ASSUME NEW D, \A s \in Steps : Before(s, after) => s \in D
          PROVE  \/ NextFrom(after) = Complete /\ Steps \subseteq D
                 \/ NextFrom(after) \in Steps /\ \A s \in Steps : Before(s, NextFrom(after)) => s \in D
      BY <2>1, <3>1, NextFromPassesAny
    <3> QED
      BY <2>3, <2>4, <3>1
  <2>6. at' = IF cursor' = Complete THEN "complete" ELSE "step"
    BY <1>7, <2>4 DEF StepDone, Onward
  <2>7. Complete \notin Steps
    BY StepsAre DEF Complete, At
  <2>8. InOrder'
    BY <1>7, <2>2, StepsAre DEF StepDone
  <2> QED
    BY <1>7, <2>1, <2>2, <2>4, <2>5, <2>6, <2>7, <2>8 DEF StepDone, Labels
<1>8. CASE StepFails
  BY <1>8 DEF StepFails, Labels
<1>9. CASE WriteComplete
  BY <1>9, StepsAre, ProvisionAssumption DEF WriteComplete, Complete, At, Places, Labels
<1>10. CASE WriteMarker
  <2>1. marker' \in BOOLEAN
    BY <1>10, Zenon DEF WriteMarker
  <2>2. Read' = IF saved # None THEN saved ELSE Complete
    BY <1>10 DEF WriteMarker
  <2>3. Read'.phase = 4
    BY <1>10, <2>2 DEF WriteMarker, Complete, Fresh, At
  <2>4. Steps \subseteq done
    BY <1>10, StepsAre, ProvisionAssumption DEF WriteMarker, Before, Places
  <2>5. (Behind(Read))'
    BY <1>10, <2>4 DEF WriteMarker
  <2> QED
    BY <1>10, <2>1, <2>3, <2>5 DEF WriteMarker
<1>11. CASE RecordError
  BY <1>11, ProvisionAssumption DEF RecordError, Fresh, Complete, At, Places, Labels
<1>12. CASE Killed
  BY <1>12, StepsAre, ProvisionAssumption DEF Killed, Fresh, Complete, At, Before,
     Places, Labels
<1> QED
  BY <1>1, <1>2, <1>3, <1>4, <1>5, <1>6, <1>7, <1>8, <1>9, <1>10, <1>11, <1>12 DEF Next

LEMMA ProgressHolds == Spec => []Progress
  BY ProgressInit, ProgressStep, PTL DEF Spec

\* Whatever fails, is killed or torn, and however many entries each phase has,
\* a VM that counts as provisioned has every step behind it.
THEOREM NothingIsMissed == Spec => []ProvisionedMeansDone
<1>1. Progress => ProvisionedMeansDone
  BY StepsAre, ProvisionAssumption
     DEF Progress, TypeOK, Behind, ProvisionedMeansDone, Provisioned, Before, Places
<1> QED
  BY <1>1, ProgressHolds, PTL

\* Files before setup before provision, and each in the order of the config.
THEOREM StepsAreOrdered == Spec => []InOrder
  BY ProgressHolds, PTL DEF Progress

\* The marker outlives a provision_state that was torn after it was written.
THEOREM MarkerIsEnough == Spec => []MarkerHolds
  BY ProgressHolds, PTL DEF Progress

-----------------------------------------------------------------------------
(* The documented promise of --retry, under the assumption it needs.       *)

LEMMA FrontierInit == Init => Frontier
  BY DEF Init, Frontier, Front

LEMMA FrontierStep ==
  ASSUME Steady, Progress, Frontier, [Next]_vars
  PROVE  Frontier'
<1> USE DEF Progress, TypeOK, Frontier, Front, Read
<1>1. CASE UNCHANGED vars
  BY <1>1 DEF vars
<1>2. CASE Begin
  BY <1>2 DEF Begin
<1>3. CASE WriteSshWait
  BY <1>3 DEF WriteSshWait
<1>4. CASE SshReady
  <2>1. at' = "idle" => Provisioned /\ UNCHANGED <<saved, marker, done>>
    BY <1>4 DEF SshReady, Onward
  <2>2. at' = "idle" => Front(Read)'
    BY <2>1, StepsAre, ProvisionAssumption DEF Provisioned, Before, Places
  <2>3. at' = "step" => Front(cursor)'
    <3>1. SUFFICES ASSUME at' = "step" PROVE Front(cursor)'
      OBVIOUS
    <3>2. cursor' = NextFrom(cursor) /\ cursor' # Complete /\ UNCHANGED done
      BY <1>4, <3>1 DEF SshReady, Onward
    <3>3. cursor.phase # 4
      BY <3>2, StepsAre, ProvisionAssumption DEF NextFrom, Places
    <3>4. ~Before(cursor', cursor) /\ cursor' \in Places
      BY <3>2, <3>3, NextFromPlace
    <3> QED
      BY <1>4, <3>2, <3>4, StepsAre DEF SshReady, Before, Places
  <2> QED
    BY <1>4, <2>2, <2>3 DEF SshReady, Onward
<1>5. CASE SshFails
  BY <1>5, StepsAre, ProvisionAssumption DEF SshFails, Steady, Provisioned, Before, Places
<1>6. CASE WriteStep
  BY <1>6, ProvisionAssumption DEF WriteStep
<1>7. CASE StepDone
  <2> DEFINE after == At(cursor.phase, cursor.index + 1)
  <2>1. after \in Places /\ cursor \in Steps /\ cursor \in Places /\ after.phase # 4
    BY <1>7, StepsAre DEF StepDone, At, Places
  <2>2. done' = done \cup {cursor} /\ cursor' = NextFrom(after)
    BY <1>7 DEF StepDone
  <2>3. ~Before(cursor', after) /\ cursor' \in Places
    BY <2>1, <2>2, NextFromPlace
  <2>4. \A t \in done : ~Before(cursor, t)
    BY <1>7 DEF StepDone
  <2>5. \A t \in done' : ~Before(cursor', t)
    BY <2>1, <2>2, <2>3, <2>4, StepsAre DEF Before, At, Places
  <2> QED
    BY <1>7, <2>5 DEF StepDone, Onward
<1>8. CASE StepFails
  BY <1>8 DEF StepFails
<1>9. CASE WriteComplete
  BY <1>9, StepsAre, ProvisionAssumption DEF WriteComplete, Complete, At, Before, Places
<1>10. CASE WriteMarker
  BY <1>10, StepsAre, ProvisionAssumption
     DEF WriteMarker, MarkerHolds, Provisioned, Complete, At, Before, Places
<1>11. CASE RecordError
  BY <1>11, ProvisionAssumption DEF RecordError
<1>12. CASE Killed
  BY <1>12 DEF Killed, Steady
<1> QED
  BY <1>1, <1>2, <1>3, <1>4, <1>5, <1>6, <1>7, <1>8, <1>9, <1>10, <1>11, <1>12 DEF Next

\* As long as SSH comes back on every retry and no command is killed while the
\* file says ssh_wait, a run goes on where the last one ended.
THEOREM RetryResumes == Steady /\ Spec => []NeverGoesBack
<1> SUFFICES ASSUME Steady PROVE Spec => []NeverGoesBack
  OBVIOUS
<1>1. Frontier => NeverGoesBack
  BY DEF Frontier, Front, NeverGoesBack
<1> QED
  BY <1>1, FrontierInit, FrontierStep, ProgressHolds, PTL DEF Spec
=============================================================================
