------------------------------- MODULE NodeApi -------------------------------
(***************************************************************************)
(* What CMK keeps in the API server about one node besides its configmap:  *)
(* extended resources, label and taint of the node object, written by      *)
(* `discover` and `uninstall`, and the report of the node, a custom        *)
(* resource that `node-report` (and `reconcile`, for its own) saves.       *)
(*                                                                         *)
(* No write is conditional on what was read before it. Taints are read,    *)
(* filtered and written back whole, while others write them too; a report  *)
(* is removed and created again, by any number of savers.                  *)
(***************************************************************************)
EXTENDS Integers, FiniteSets

CONSTANTS
  Foreign,     \* taints of others
  Timed,       \* those that carry a time, which json cannot write
  Daemons,     \* node reports of the daemon set
  Manual,      \* node reports that somebody runs by hand, once
  Exclusive, NonIsolcpus,  \* the names of the two extended resources
  HasNonIsol,  \* the node has an exclusive-non-isolcpus pool with lists
  NoTaint,     \* discover --no-taint
  MaxForeign, MaxChanges, MaxFaults  \* bounds

Savers == Daemons \cup Manual
Cmk == "cmk"
None == -1

ASSUME ForeignAssumption == Cmk \notin Foreign /\ Timed \subseteq Foreign
ASSUME SaversAssumption == Daemons \cap Manual = {}
ASSUME BoundsAssumption ==
  MaxForeign \in Nat /\ MaxChanges \in Nat /\ MaxFaults \in Nat
ASSUME FlagsAssumption == HasNonIsol \in BOOLEAN /\ NoTaint \in BOOLEAN

VARIABLES
  taints,    \* spec.taints, by key
  er,        \* the extended resources in status.capacity
  label,     \* the node has the label cmk-node
  crd,       \* the type of the report: none, pending, ready
  report,    \* the state that the report shows, None without a report
  state,     \* the state of the node: what generate_report sees
  disc,      \* where discover is
  discRead,  \* the taints it has read
  un,        \* where uninstall is
  unRead,    \* the taints it has read
  saver,     \* where each saver is
  shows,     \* the state in its report
  foreignWrites, faults,
  lateFor,   \* history: those whose reading of others' taints is out of date
  outlived   \* history: somebody has written after uninstall deleted its pod

nodeVars == <<taints, er, label>>
reportVars == <<crd, report>>
discVars == <<disc, discRead>>
unVars == <<un, unRead>>
saverVars == <<saver, shows>>
vars == <<nodeVars, reportVars, state, discVars, unVars, saverVars,
          foreignWrites, faults, lateFor, outlived>>

Init ==
  /\ taints \in SUBSET Foreign /\ er = {} /\ label = FALSE
  /\ crd = "none" /\ report = None /\ state = 0
  /\ disc = "off" /\ discRead = {}
  /\ un = "off" /\ unRead = {}
  /\ saver = [s \in Savers |-> "idle"] /\ shows = [s \in Savers |-> 0]
  /\ foreignWrites = 0 /\ faults = 0
  /\ lateFor = {} /\ outlived = FALSE

-----------------------------------------------------------------------------
(* Others *)

Outdated ==
  lateFor' = IF taints' \cap Foreign # taints \cap Foreign THEN {"disc", "un"}
                                                          ELSE lateFor

\* Somebody taints the node, or takes the taint away.
ForeignWrite(t) ==
  /\ foreignWrites < MaxForeign
  /\ foreignWrites' = foreignWrites + 1
  /\ taints' = IF t \in taints THEN taints \ {t} ELSE taints \cup {t}
  /\ Outdated
  /\ UNCHANGED <<er, label, reportVars, state, discVars, unVars, saverVars,
                 faults, outlived>>

Change ==
  /\ state < MaxChanges
  /\ state' = state + 1
  /\ UNCHANGED <<nodeVars, reportVars, discVars, unVars, saverVars,
                 foreignWrites, faults, lateFor, outlived>>

\* The API server begins to serve the type.
Establish ==
  /\ crd = "pending"
  /\ crd' = "ready"
  /\ UNCHANGED <<nodeVars, report, state, discVars, unVars, saverVars,
                 foreignWrites, faults, lateFor, outlived>>

-----------------------------------------------------------------------------
(* discover *)

\* uninstall has deleted the pod, which has its grace period.
Outlives == outlived' = (outlived \/ un \notin {"off", "pod"})

DiscGoto(s) == disc' = s
DiscEnds == disc' = "end" /\ discRead' = {}

DiscFrame == UNCHANGED <<reportVars, state, unVars, saverVars, foreignWrites, faults>>

Discover ==
  /\ disc = "off" /\ un = "off"
  /\ DiscGoto("er")
  /\ UNCHANGED <<nodeVars, discRead, lateFor, outlived>> /\ DiscFrame

AddEr ==
  /\ disc = "er"
  /\ er' = er \cup {Exclusive}
  /\ DiscGoto(IF HasNonIsol THEN "er2" ELSE "label")
  /\ Outlives
  /\ UNCHANGED <<taints, label, discRead, lateFor>> /\ DiscFrame

\* Mutant: the name of the taint takes the place of that of the resource.
AddNonIsolErWrongName ==
  /\ disc = "er2"
  /\ er' = er \cup {Cmk}
  /\ DiscGoto("label")
  /\ Outlives
  /\ UNCHANGED <<taints, label, discRead, lateFor>> /\ DiscFrame

AddNonIsolEr ==
  /\ disc = "er2"
  /\ er' = er \cup {NonIsolcpus}
  /\ DiscGoto("label")
  /\ Outlives
  /\ UNCHANGED <<taints, label, discRead, lateFor>> /\ DiscFrame

AddLabel ==
  /\ disc = "label"
  /\ label' = TRUE
  /\ DiscGoto(IF NoTaint THEN "end" ELSE "read")
  /\ Outlives
  /\ UNCHANGED <<taints, er, discRead, lateFor>> /\ DiscFrame

ReadTaints ==
  /\ disc = "read"
  /\ discRead' = taints
  /\ lateFor' = lateFor \ {"disc"}
  /\ DiscGoto("write")
  /\ UNCHANGED <<nodeVars, outlived>> /\ DiscFrame

\* Mutant: the taint is written without the ones that were read.
AddTaintAlone ==
  /\ disc = "write" /\ discRead \cap Timed = {}
  /\ taints' = {Cmk}
  /\ DiscEnds
  /\ Outlives /\ Outdated
  /\ UNCHANGED <<er, label>> /\ DiscFrame

AddTaint ==
  /\ disc = "write" /\ discRead \cap Timed = {}
  /\ taints' = (discRead \ {Cmk}) \cup {Cmk}
  /\ DiscEnds
  /\ Outlives /\ Outdated
  /\ UNCHANGED <<er, label>> /\ DiscFrame

\* A call fails, json.dumps raises because of a time, or the pod is deleted.
DiscoverFails ==
  /\ disc \in {"er", "er2", "label", "read", "write"}
  /\ DiscEnds
  /\ UNCHANGED <<nodeVars, lateFor, outlived>> /\ DiscFrame

-----------------------------------------------------------------------------
(* uninstall *)

UnGoto(s) == un' = s

UnFrame == UNCHANGED <<label, state, discVars, saverVars, foreignWrites, faults,
                       outlived>>

Uninstall ==
  /\ un = "off"
  /\ UnGoto("pod")
  /\ UNCHANGED <<taints, er, reportVars, unRead, lateFor>> /\ UnFrame

\* delete_cmk_pod: the pod of discover, if it is there.
DeletePod ==
  /\ un = "pod"
  /\ UnGoto("ds")
  /\ UNCHANGED <<taints, er, reportVars, unRead, lateFor>> /\ UnFrame

DeleteDs ==
  /\ un = "ds"
  /\ UnGoto("type")
  /\ UNCHANGED <<taints, er, reportVars, unRead, lateFor>> /\ UnFrame

\* remove_report_crd creates the type, to have an object that it can remove.
SaveTypeToRemove ==
  /\ un = "type"
  /\ crd' = IF crd = "none" THEN "pending" ELSE crd
  /\ UnGoto("report")
  /\ UNCHANGED <<taints, er, report, unRead, lateFor>> /\ UnFrame

\* NotFound is no error.
RemoveReport ==
  /\ un = "report"
  /\ report' = None
  /\ UnGoto("taint")
  /\ UNCHANGED <<taints, er, crd, unRead, lateFor>> /\ UnFrame

ReadTaintsToRemove ==
  /\ un = "taint"
  /\ unRead' = taints
  /\ lateFor' = lateFor \ {"un"}
  /\ UnGoto("write")
  /\ UNCHANGED <<taints, er, reportVars>> /\ UnFrame

\* Mutant: the list goes back as it was read.
RemoveTaintUnfiltered ==
  /\ un = "write" /\ unRead \cap Timed = {} /\ taints # {}
  /\ taints' = unRead
  /\ UnGoto("er") /\ unRead' = {}
  /\ Outdated
  /\ UNCHANGED <<er, reportVars>> /\ UnFrame

\* "replace" needs a list of taints on the node.
RemoveTaint ==
  /\ un = "write" /\ unRead \cap Timed = {} /\ taints # {}
  /\ taints' = unRead \ {Cmk}
  /\ UnGoto("er") /\ unRead' = {}
  /\ Outdated
  /\ UNCHANGED <<er, reportVars>> /\ UnFrame

\* remove_node_cmk_er knows one of the two resources. That it is not there
\* ("nonexistant") is no error; the patch of allocatable may fail for itself.
RemoveEr ==
  /\ un = "er"
  /\ er' = er \ {Exclusive}
  /\ un' \in {"confDir", "aborted"}
  /\ UNCHANGED <<taints, reportVars, unRead, lateFor>> /\ UnFrame

\* A call fails, or there is no list of taints, or one with a time.
UninstallFails ==
  /\ un \in {"pod", "ds", "type", "report", "taint", "write", "er"}
  /\ UnGoto("aborted") /\ unRead' = {}
  /\ UNCHANGED <<taints, er, reportVars, lateFor>> /\ UnFrame

-----------------------------------------------------------------------------
(* node-report *)

SaverGoto(s, step) == saver' = [saver EXCEPT ![s] = step]

\* After the cycle the daemon sleeps and the one by hand is done.
Rest(s) == IF s \in Daemons THEN "idle" ELSE "gone"

SaverFrame == UNCHANGED <<nodeVars, state, discVars, unVars, foreignWrites, lateFor>>

\* uninstall has deleted the daemon set, or looks after no saver by hand.
SaverOutlives(s) ==
  outlived' = (outlived \/ (IF s \in Daemons THEN un \notin {"off", "pod", "ds"}
                                             ELSE un # "off"))

Generate(s) ==
  /\ saver[s] = "idle"
  /\ shows' = [shows EXCEPT ![s] = state]
  /\ SaverGoto(s, "type")
  /\ UNCHANGED <<reportVars, faults, outlived>> /\ SaverFrame

\* CustomResourceDefinitionType.save: a CONFLICT is no error, and the type
\* exists as soon as it is there, served or not.
SaveType(s) ==
  /\ saver[s] = "type"
  /\ crd' = IF crd = "none" THEN "pending" ELSE crd
  /\ SaverGoto(s, "create")
  /\ UNCHANGED <<report, shows, faults, outlived>> /\ SaverFrame

\* Mutant: a report that is there is left alone.
CreateKeeps(s) ==
  /\ saver[s] = "create" /\ crd = "ready"
  /\ IF report = None
       THEN report' = shows[s] /\ SaverOutlives(s)
       ELSE UNCHANGED <<report, outlived>>
  /\ SaverGoto(s, Rest(s))
  /\ UNCHANGED <<crd, shows, faults>> /\ SaverFrame

Create(s) ==
  /\ saver[s] = "create" /\ crd = "ready"
  /\ IF report = None
       THEN report' = shows[s] /\ SaverOutlives(s) /\ SaverGoto(s, Rest(s))
       ELSE SaverGoto(s, "remove") /\ UNCHANGED <<report, outlived>>
  /\ UNCHANGED <<crd, shows, faults>> /\ SaverFrame

\* NOT_FOUND: the type is not served yet, the report is skipped.
Skipped(s) ==
  /\ saver[s] = "create" /\ crd # "ready"
  /\ SaverGoto(s, Rest(s))
  /\ UNCHANGED <<reportVars, shows, faults, outlived>> /\ SaverFrame

RemoveOld(s) ==
  /\ saver[s] = "remove"
  /\ report' = None
  /\ SaverGoto(s, "recreate")
  /\ SaverOutlives(s)
  /\ UNCHANGED <<crd, shows, faults>> /\ SaverFrame

Recreate(s) ==
  /\ saver[s] = "recreate" /\ report = None
  /\ report' = shows[s]
  /\ SaverGoto(s, Rest(s))
  /\ SaverOutlives(s)
  /\ UNCHANGED <<crd, shows, faults>> /\ SaverFrame

\* Another saver has been faster: CONFLICT, and no handler for it.
RecreateConflict(s) ==
  /\ saver[s] = "recreate" /\ report # None
  /\ SaverGoto(s, "dead")
  /\ UNCHANGED <<reportVars, shows, faults, outlived>> /\ SaverFrame

\* A call fails, or the container is killed, between any two of its steps.
SaverFails(s) ==
  /\ saver[s] \notin {"gone", "dead"} /\ faults < MaxFaults
  /\ faults' = faults + 1
  /\ SaverGoto(s, "dead")
  /\ UNCHANGED <<reportVars, shows, outlived>> /\ SaverFrame

\* The container of a daemon is started again, the other is not; nor is the
\* daemon when its set has been deleted.
Restart(s) ==
  /\ saver[s] = "dead"
  /\ SaverGoto(s, IF un \in {"off", "pod", "ds"} THEN Rest(s) ELSE "gone")
  /\ UNCHANGED <<reportVars, shows, faults, outlived>> /\ SaverFrame

\* The pods of the daemon set end their grace period.
Terminated(s) ==
  /\ s \in Daemons /\ saver[s] # "gone" /\ un \notin {"off", "pod", "ds"}
  /\ SaverGoto(s, "gone")
  /\ UNCHANGED <<reportVars, shows, faults, outlived>> /\ SaverFrame

SaverStep(s) ==
  \/ Generate(s) \/ SaveType(s) \/ Create(s) \/ Skipped(s) \/ RemoveOld(s)
  \/ Recreate(s) \/ RecreateConflict(s) \/ Restart(s)

DiscoverStep ==
  \/ Discover \/ AddEr \/ AddNonIsolEr \/ AddLabel \/ ReadTaints \/ AddTaint
  \/ DiscoverFails

UninstallStep ==
  \/ Uninstall \/ DeletePod \/ DeleteDs \/ SaveTypeToRemove \/ RemoveReport
  \/ ReadTaintsToRemove \/ RemoveTaint \/ RemoveEr \/ UninstallFails

Next ==
  \/ (\E t \in Foreign : ForeignWrite(t)) \/ Change \/ Establish
  \/ DiscoverStep \/ UninstallStep
  \/ \E s \in Savers : SaverStep(s) \/ SaverFails(s) \/ Terminated(s)

Spec == Init /\ [][Next]_vars

\* Daemons are scheduled and restarted, and a type that was created is served.
Fairness == WF_vars(Establish) /\ \A s \in Daemons : WF_vars(SaverStep(s))

FairSpec == Spec /\ Fairness

-----------------------------------------------------------------------------
(* Properties *)

DiscSteps == {"off", "er", "er2", "label", "read", "write", "end"}
UnSteps == {"off", "pod", "ds", "type", "report", "taint", "write", "er",
            "confDir", "aborted"}
SaverSteps == {"idle", "type", "create", "remove", "recreate", "dead", "gone"}

TypeOK ==
  /\ taints \subseteq Foreign \cup {Cmk} /\ er \subseteq {Exclusive, NonIsolcpus}
  /\ label \in BOOLEAN /\ outlived \in BOOLEAN
  /\ crd \in {"none", "pending", "ready"}
  /\ state \in 0 .. MaxChanges
  /\ report \in 0 .. MaxChanges \cup {None}
  /\ disc \in DiscSteps /\ discRead \subseteq Foreign \cup {Cmk}
  /\ un \in UnSteps /\ unRead \subseteq Foreign \cup {Cmk}
  /\ saver \in [Savers -> SaverSteps] /\ shows \in [Savers -> 0 .. MaxChanges]
  /\ foreignWrites \in 0 .. MaxForeign /\ faults \in 0 .. MaxFaults
  /\ lateFor \subseteq {"disc", "un"}

\* Neither discover nor uninstall changes a taint of others, unless the
\* taints of others have changed since they read the list.
ForeignTaintsKept ==
  [][foreignWrites' = foreignWrites
       /\ ~(disc = "write" /\ "disc" \in lateFor)
       /\ ~(un = "write" /\ "un" \in lateFor)
     => taints' \cap Foreign = taints \cap Foreign]_taints

\* Once uninstall has come to the configuration directory, the node has no CMK
\* taint, exclusive cores or report, whatever was installed, unless somebody
\* has written in the grace period of a deleted pod.
CleanAfterUninstall ==
  un = "confDir" /\ ~outlived =>
    /\ Cmk \notin taints /\ Exclusive \notin er
    /\ report = None

\* What uninstall has removed so far stays away.
CleanInv ==
  ~outlived =>
    /\ un \in {"taint", "write", "er", "confDir"} => report = None
    /\ un \in {"er", "confDir"} => Cmk \notin taints
    /\ un = "confDir" => Exclusive \notin er

\* A list of taints that is about to be written has the taints of others.
ReadInv ==
  /\ disc = "write" /\ "disc" \notin lateFor => discRead \cap Foreign = taints \cap Foreign
  /\ un = "write" /\ "un" \notin lateFor => unRead \cap Foreign = taints \cap Foreign

ApiInv == TypeOK /\ CleanInv /\ ReadInv

\* A node that has a daemon and is not uninstalled: again and again its report
\* shows what the node has come to, after crashes between remove and create, with
\* savers that end each other and a type that is served late.
ReportCurrent == []<>(un # "off" \/ report = state)

=============================================================================
