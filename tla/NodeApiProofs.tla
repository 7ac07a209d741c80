---------------------------- MODULE NodeApiProofs ----------------------------
(***************************************************************************)
(* Proofs about NodeApi, for any taints, savers and bounds: types, what is *)
(* left after uninstall, and that the taints of others stay.               *)
(***************************************************************************)
EXTENDS NodeApi, TLAPS

\* The steps of the others, of discover, of uninstall and of the savers.
Others == (\E t \in Foreign : ForeignWrite(t)) \/ Change \/ Establish

SaversStep == \E s \in Savers : SaverStep(s) \/ SaverFails(s) \/ Terminated(s)

\* Every step belongs to one of them.
LEMMA Actors ==
  ASSUME Next
  PROVE  Others \/ DiscoverStep \/ UninstallStep \/ SaversStep
BY DEF Next, Others, SaversStep

-----------------------------------------------------------------------------
(* Type correctness *)

\* The initial values have their types.
LEMMA InitType == Init => TypeOK
<1> SUFFICES ASSUME Init PROVE TypeOK
  OBVIOUS
<1>1. /\ saver \in [Savers -> SaverSteps] /\ shows \in [Savers -> 0 .. MaxChanges]
      /\ state \in 0 .. MaxChanges /\ foreignWrites \in 0 .. MaxForeign
      /\ faults \in 0 .. MaxFaults
  BY BoundsAssumption DEF Init, SaverSteps
<1>2. /\ taints \subseteq Foreign \cup {Cmk} /\ er \subseteq {Exclusive, NonIsolcpus}
      /\ discRead \subseteq Foreign \cup {Cmk} /\ unRead \subseteq Foreign \cup {Cmk}
      /\ lateFor \subseteq {"disc", "un"}
  BY DEF Init
<1> QED BY <1>1, <1>2 DEF Init, TypeOK, DiscSteps, UnSteps

\* A step of the others keeps the types.
LEMMA OthersType == TypeOK /\ Others => TypeOK'
<1> SUFFICES ASSUME TypeOK, Others PROVE TypeOK'
  OBVIOUS
<1> USE BoundsAssumption
<1> USE DEF TypeOK, nodeVars, reportVars, discVars, unVars, saverVars
<1>1. CASE \E t \in Foreign : ForeignWrite(t)
  BY <1>1 DEF ForeignWrite, Outdated
<1>2. CASE Change
  BY <1>2 DEF Change
<1>3. CASE Establish
  BY <1>3 DEF Establish
<1> QED BY <1>1, <1>2, <1>3 DEF Others

\* A step of discover keeps the types.
LEMMA DiscoverType == TypeOK /\ DiscoverStep => TypeOK'
<1> SUFFICES ASSUME TypeOK, DiscoverStep PROVE TypeOK'
  OBVIOUS
<1> USE DEF TypeOK, nodeVars, reportVars, unVars, saverVars, DiscFrame, DiscGoto,
            DiscEnds, Outlives, DiscSteps
<1>1. CASE Discover
  BY <1>1 DEF Discover
<1>2. CASE AddEr
  BY <1>2 DEF AddEr
<1>3. CASE AddNonIsolEr
  BY <1>3 DEF AddNonIsolEr
<1>4. CASE AddLabel
  BY <1>4 DEF AddLabel
<1>5. CASE ReadTaints
  BY <1>5 DEF ReadTaints
<1>6. CASE AddTaint
  BY <1>6 DEF AddTaint, Outdated
<1>7. CASE DiscoverFails
  BY <1>7 DEF DiscoverFails
<1> QED BY <1>1, <1>2, <1>3, <1>4, <1>5, <1>6, <1>7 DEF DiscoverStep

\* A step of uninstall keeps the types.
LEMMA UninstallType == TypeOK /\ UninstallStep => TypeOK'
<1> SUFFICES ASSUME TypeOK, UninstallStep PROVE TypeOK'
  OBVIOUS
<1> USE DEF TypeOK, reportVars, discVars, saverVars, UnFrame, UnGoto, UnSteps
<1>1. CASE Uninstall \/ DeletePod \/ DeleteDs
  BY <1>1 DEF Uninstall, DeletePod, DeleteDs
<1>2. CASE SaveTypeToRemove \/ RemoveReport
  BY <1>2 DEF SaveTypeToRemove, RemoveReport
<1>3. CASE ReadTaintsToRemove
  BY <1>3 DEF ReadTaintsToRemove
<1>4. CASE RemoveTaint
  BY <1>4 DEF RemoveTaint, Outdated
<1>5. CASE RemoveEr \/ UninstallFails
  BY <1>5 DEF RemoveEr, UninstallFails
<1> QED BY <1>1, <1>2, <1>3, <1>4, <1>5 DEF UninstallStep

\* A step of a saver keeps the types.
LEMMA SaversType == TypeOK /\ SaversStep => TypeOK'
<1> SUFFICES ASSUME TypeOK, NEW s \in Savers,
                    SaverStep(s) \/ SaverFails(s) \/ Terminated(s)
             PROVE  TypeOK'
  BY DEF SaversStep
<1> USE BoundsAssumption
<1> USE DEF TypeOK, nodeVars, reportVars, discVars, unVars, SaverFrame, SaverGoto,
            SaverSteps, Rest, SaverOutlives
<1>1. CASE Generate(s)
  BY <1>1 DEF Generate
<1>2. CASE SaveType(s) \/ Skipped(s)
  BY <1>2 DEF SaveType, Skipped
<1>3. CASE Create(s)
  <2>1. shows[s] \in 0 .. MaxChanges
    OBVIOUS
  <2>2. saver' \in [Savers -> SaverSteps] /\ report' \in 0 .. MaxChanges \cup {None}
    BY <1>3, <2>1 DEF Create
  <2>3. outlived' \in BOOLEAN
    BY <1>3 DEF Create
  <2> QED BY <1>3, <2>2, <2>3 DEF Create
<1>4. CASE RemoveOld(s) \/ RecreateConflict(s)
  BY <1>4 DEF RemoveOld, RecreateConflict
<1>5. CASE Recreate(s)
  <2>1. shows[s] \in 0 .. MaxChanges
    OBVIOUS
  <2>2. saver' \in [Savers -> SaverSteps] /\ report' \in 0 .. MaxChanges
    BY <1>5, <2>1 DEF Recreate
  <2>3. outlived' \in BOOLEAN
    BY <1>5 DEF Recreate
  <2> QED BY <1>5, <2>2, <2>3 DEF Recreate
<1>6. CASE SaverFails(s)
  BY <1>6 DEF SaverFails
<1>7. CASE Restart(s) \/ Terminated(s)
  BY <1>7 DEF Restart, Terminated
<1> QED BY <1>1, <1>2, <1>3, <1>4, <1>5, <1>6, <1>7 DEF SaverStep

\* Type correctness of NodeApi.
THEOREM TypeCorrect == Spec => []TypeOK
<1>1. TypeOK /\ [Next]_vars => TypeOK'
  <2> SUFFICES ASSUME TypeOK, [Next]_vars PROVE TypeOK'
    OBVIOUS
  <2>1. CASE Next
    BY <2>1, Actors, OthersType, DiscoverType, UninstallType, SaversType
  <2>2. CASE UNCHANGED vars
    BY <2>2 DEF TypeOK, vars, nodeVars, reportVars, discVars, unVars, saverVars
  <2> QED BY <2>1, <2>2
<1> QED BY <1>1, InitType, PTL DEF Spec

-----------------------------------------------------------------------------
(* What uninstall has removed, and what is read of the taints *)

\* Nothing is removed and nothing is read at first.
LEMMA InitApi == Init => ApiInv
BY InitType DEF Init, ApiInv, CleanInv, ReadInv

\* The others write taints of their own only.
LEMMA OthersApi == ApiInv /\ Others => ApiInv'
<1> SUFFICES ASSUME ApiInv, Others PROVE ApiInv'
  OBVIOUS
<1> USE DEF nodeVars, reportVars, discVars, unVars, saverVars
<1>1. TypeOK'
  BY OthersType DEF ApiInv
<1>2. CleanInv'
  BY ForeignAssumption
     DEF ApiInv, CleanInv, Others, ForeignWrite, Change, Establish
<1>3. ReadInv'
  BY DEF ApiInv, ReadInv, Others, ForeignWrite, Outdated, Change, Establish
<1> QED BY <1>1, <1>2, <1>3 DEF ApiInv

\* What discover writes when something is removed already is noted.
LEMMA DiscoverApi == ApiInv /\ DiscoverStep => ApiInv'
<1> SUFFICES ASSUME ApiInv, DiscoverStep PROVE ApiInv'
  OBVIOUS
<1> USE DEF nodeVars, reportVars, unVars, saverVars, DiscFrame, DiscGoto, DiscEnds,
            DiscoverStep, Discover, AddEr, AddNonIsolEr, AddLabel, ReadTaints,
            DiscoverFails
<1>1. TypeOK'
  BY DiscoverType DEF ApiInv
<1>2. CleanInv'
  BY DEF ApiInv, CleanInv, AddTaint, Outlives
<1>3. ReadInv'
  <2>1. CASE AddTaint
    BY <2>1 DEF ApiInv, ReadInv, AddTaint, Outdated
  <2>2. CASE ~AddTaint
    BY <2>2 DEF ApiInv, ReadInv
  <2> QED BY <2>1, <2>2
<1> QED BY <1>1, <1>2, <1>3 DEF ApiInv

\* uninstall does not put back what it has removed.
LEMMA UninstallApi == ApiInv /\ UninstallStep => ApiInv'
<1> SUFFICES ASSUME ApiInv, UninstallStep PROVE ApiInv'
  OBVIOUS
<1> USE DEF reportVars, discVars, saverVars, UnFrame, UnGoto, UninstallStep,
            Uninstall, DeletePod, DeleteDs, SaveTypeToRemove, RemoveReport,
            ReadTaintsToRemove, RemoveEr, UninstallFails
<1>1. TypeOK'
  BY UninstallType DEF ApiInv
<1>2. CleanInv'
  BY DEF ApiInv, CleanInv, RemoveTaint
<1>3. ReadInv'
  <2>1. CASE RemoveTaint
    BY <2>1 DEF ApiInv, ReadInv, RemoveTaint, Outdated
  <2>2. CASE ~RemoveTaint
    BY <2>2 DEF ApiInv, ReadInv
  <2> QED BY <2>1, <2>2
<1> QED BY <1>1, <1>2, <1>3 DEF ApiInv

\* A report that is saved after uninstall has removed it is noted.
LEMMA SaversApi == ApiInv /\ SaversStep => ApiInv'
<1> SUFFICES ASSUME ApiInv, NEW s \in Savers,
                    SaverStep(s) \/ SaverFails(s) \/ Terminated(s)
             PROVE  ApiInv'
  BY DEF SaversStep
<1> USE DEF nodeVars, reportVars, discVars, unVars, SaverFrame, SaverStep
<1>1. TypeOK'
  BY SaversType DEF ApiInv, SaversStep
<1>2. UNCHANGED <<nodeVars, discVars, unVars, lateFor>>
  BY DEF Generate, SaveType, Create, Skipped, RemoveOld, Recreate,
         RecreateConflict, Restart, SaverFails, Terminated
<1>3. \/ UNCHANGED <<report, outlived>>
      \/ SaverOutlives(s)
  BY DEF Generate, SaveType, Create, Skipped, RemoveOld, Recreate,
         RecreateConflict, Restart, SaverFails, Terminated
<1>4. CleanInv'
  BY <1>2, <1>3 DEF ApiInv, CleanInv, SaverOutlives
<1>5. ReadInv'
  BY <1>2 DEF ApiInv, ReadInv
<1> QED BY <1>1, <1>4, <1>5 DEF ApiInv

\* The inductive invariant.
THEOREM ApiInvariant == Spec => []ApiInv
<1>1. ApiInv /\ [Next]_vars => ApiInv'
  <2> SUFFICES ASSUME ApiInv, [Next]_vars PROVE ApiInv'
    OBVIOUS
  <2>1. CASE Next
    BY <2>1, Actors, OthersApi, DiscoverApi, UninstallApi, SaversApi
  <2>2. CASE UNCHANGED vars
    BY <2>2 DEF ApiInv, TypeOK, CleanInv, ReadInv, vars, nodeVars, reportVars,
                discVars, unVars, saverVars
  <2> QED BY <2>1, <2>2
<1> QED BY <1>1, InitApi, PTL DEF Spec

\* No CMK taint, exclusive cores or report after uninstall, whatever happened
\* before or meanwhile, unless somebody has written in a grace period.
THEOREM NodeIsCleanAfterUninstall == Spec => []CleanAfterUninstall
<1>1. ApiInv => CleanAfterUninstall
  BY DEF ApiInv, CleanInv, CleanAfterUninstall
<1> QED BY <1>1, ApiInvariant, PTL

\* Only a list that is out of date changes the taints of others.
THEOREM TaintsOfOthersStay == Spec => ForeignTaintsKept
<1> DEFINE Kept ==
      [foreignWrites' = foreignWrites
         /\ ~(disc = "write" /\ "disc" \in lateFor)
         /\ ~(un = "write" /\ "un" \in lateFor)
       => taints' \cap Foreign = taints \cap Foreign]_taints
<1>1. ApiInv /\ [Next]_vars => Kept
  <2> SUFFICES ASSUME ApiInv, Next,
                      foreignWrites' = foreignWrites,
                      ~(disc = "write" /\ "disc" \in lateFor),
                      ~(un = "write" /\ "un" \in lateFor)
               PROVE  taints' \cap Foreign = taints \cap Foreign
    BY DEF vars, nodeVars
  <2>1. CASE Others
    BY <2>1 DEF Others, ForeignWrite, Change, Establish, nodeVars, ApiInv, TypeOK
  <2>2. CASE DiscoverStep
    <3>1. CASE AddTaint
      BY <3>1, ForeignAssumption DEF AddTaint, ApiInv, ReadInv
    <3>2. CASE ~AddTaint
      BY <2>2, <3>2 DEF DiscoverStep, Discover, AddEr, AddNonIsolEr, AddLabel,
                        ReadTaints, DiscoverFails, nodeVars
    <3> QED BY <3>1, <3>2
  <2>3. CASE UninstallStep
    <3>1. CASE RemoveTaint
      BY <3>1, ForeignAssumption DEF RemoveTaint, ApiInv, ReadInv
    <3>2. CASE ~RemoveTaint
      BY <2>3, <3>2 DEF UninstallStep, Uninstall, DeletePod, DeleteDs,
           SaveTypeToRemove, RemoveReport, ReadTaintsToRemove, RemoveEr,
           UninstallFails
    <3> QED BY <3>1, <3>2
  <2>4. CASE SaversStep
    BY <2>4 DEF SaversStep, SaverStep, Generate, SaveType, Create, Skipped,
         RemoveOld, Recreate, RecreateConflict, Restart, SaverFails, Terminated,
         SaverFrame, nodeVars
  <2> QED BY <2>1, <2>2, <2>3, <2>4, Actors
<1> QED BY <1>1, ApiInvariant, PTL DEF Spec, ForeignTaintsKept
=============================================================================
