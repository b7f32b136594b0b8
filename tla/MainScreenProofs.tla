---------------------------- MODULE MainScreenProofs ----------------------------
(***************************************************************************)
(* Proofs about module MainScreen: the panel and the pushes, for any       *)
(* servers, ports, number of pushes and of quick connects.                 *)
(***************************************************************************)
EXTENDS MainScreen, TLAPS

(***************************************************************************)
(* What makes ReportIsTrue inductive: while a push has been alone, no other *)
(* request is on its way, and once it is applied qBittorrent has its port. *)
(***************************************************************************)
PushInv ==
  \A p \in Push : alone[p] =>
    /\ \A q \in Push \ {p} : push[q] \notin AtWork
    /\ push[p] \in {"applied", "reported"} => qbt = pushed[p]

MainInv == MainTypeOK /\ PanelIsCurrent /\ PushInv

USE MainAssumption, PushAssumption

-----------------------------------------------------------------------------
(* What the orchestrator may do, and what is drawn.                        *)

\* The orchestrator shows statuses, and servers or none.
LEMMA ViewTypes ==
  ASSUME shown \in Server \union {NoServer}, ViewNext
  PROVE  status' \in Statuses /\ shown' \in Server \union {NoServer}
  BY DEF ViewNext, Attempt, Establish, Dismantle, Settle, Statuses

\* What is drawn of a well-typed state is a panel, and below "Disconnected" it
\* shows no server.
LEMMA RenderingIsAPanel ==
  ASSUME status \in Statuses, shown \in Server \union {NoServer},
         port \in Port \union {NoPort}
  PROVE  /\ Rendering \in Panels
         /\ status = "DISCONNECTED" => Rendering.server \in {"stale", "hidden", "error"}
  BY DEF Rendering, ServerLine, PortCard, Panels, Statuses

LEMMA MainInitInv == MainInit => MainInv
  <1> SUFFICES ASSUME MainInit PROVE MainInv
    OBVIOUS
  <1> USE DEF MainInit, ViewInit, PushInit
  <1>1. status \in Statuses /\ shown \in Server \union {NoServer}
    BY DEF Statuses
  <1>2. Rendering \in Panels
    BY <1>1, RenderingIsAPanel
  <1>3. PushTypeOK
    BY DEF PushTypeOK
  <1>4. MainTypeOK
    <2>1. panel \in Panels
      BY <1>2
    <2>2. quick \in 0 .. MaxQuick
      OBVIOUS
    <2>3. failed \in BOOLEAN
      OBVIOUS
    <2> QED
      BY <1>1, <1>3, <2>1, <2>2, <2>3 DEF MainTypeOK
  <1>5. PanelIsCurrent
    BY DEF PanelIsCurrent, Rendering
  <1>6. PushInv
    BY DEF PushInv
  <1> QED
    BY <1>4, <1>5, <1>6 DEF MainInv

-----------------------------------------------------------------------------
(* The type invariant.                                                     *)

\* Pushes, and whoever edits the config file, keep their variables in their sets.
LEMMA PushTypes ==
  ASSUME PushTypeOK, NEW p \in Push, PushKey(p) \/ PushThread(p) \/ EditConfig
  PROVE  PushTypeOK'
  <1> USE DEF PushTypeOK, PushGoes, InThread, AtWork
  <1>1. CASE PressPush(p)
    BY <1>1 DEF PressPush, NothingToPush, NotConfigured, StartPush, Configs
  <1>2. CASE PushStep(p)
    BY <1>2 DEF PushStep, LoggedIn, PortIsSet, PushReported, PushFails, LateApplies
  <1>3. CASE UserEditsConfig
    BY <1>3 DEF UserEditsConfig
  <1> QED
    BY <1>1, <1>2, <1>3 DEF PushKey, PushThread, EditConfig

LEMMA MainTypes ==
  ASSUME MainTypeOK, [MainNext]_allVars
  PROVE  MainTypeOK'
  <1> USE DEF MainTypeOK
  <1> DEFINE T == /\ PushTypeOK
                  /\ status \in Statuses
                  /\ shown \in Server \union {NoServer}
                  /\ failed \in BOOLEAN
                  /\ linkPresent \in BOOLEAN
                  /\ quick \in 0 .. MaxQuick
  <1>1. ASSUME T', Refresh PROVE MainTypeOK'
    <2>1. port' \in Port \union {NoPort}
      BY <1>1 DEF PushTypeOK
    <2>2. Rendering' \in Panels
      BY <1>1, <2>1 DEF Rendering, ServerLine, PortCard, Panels, Statuses
    <2> QED
      BY <1>1, <2>2 DEF Refresh
  <1>2. CASE StatusChanges
    <2> USE <1>2 DEF StatusChanges
    <2>1. status' \in Statuses /\ shown' \in Server \union {NoServer}
      BY ViewTypes
    <2>2. PushTypeOK'
      BY DEF PushTypeOK, pushVars
    <2>3. failed' \in BOOLEAN
      BY DEF Errors
    <2> QED
      BY <1>1, <2>1, <2>2, <2>3
  <1>3. CASE AgentReportsPort
    <2>1. PushTypeOK'
      BY <1>3 DEF AgentReportsPort, PushTypeOK, pushVars
    <2> QED
      BY <1>1, <1>3, <2>1 DEF AgentReportsPort, view
  <1>4. CASE LinkChanges
    BY <1>4 DEF LinkChanges, view, pushVars, PushTypeOK
  <1>5. CASE Tick
    BY <1>1, <1>5 DEF Tick, view, pushVars, PushTypeOK
  <1>6. CASE PressQuick \/ QuickDispatched \/ QuickRefused
    BY <1>6 DEF PressQuick, QuickDispatched, QuickRefused, Overlay, Overlays, Panels,
       view, pushVars, PushTypeOK
  <1>7. ASSUME NEW p \in Push, PushKey(p) \/ PushThread(p) \/ EditConfig
        PROVE  MainTypeOK'
    <2>1. PushTypeOK'
      BY <1>7, PushTypes
    <2> QED
      BY <1>7, <2>1 DEF PushKey, PushThread, EditConfig, mainVars, view
  <1>8. CASE EditConfig
    BY <1>8 DEF EditConfig, UserEditsConfig, PushTypeOK, mainVars, view
  <1>9. CASE UNCHANGED allVars
    BY <1>9 DEF allVars, mainVars, view, pushVars, PushTypeOK
  <1> QED
    BY <1>2, <1>3, <1>4, <1>5, <1>6, <1>7, <1>8, <1>9 DEF MainNext

-----------------------------------------------------------------------------
(* The panel.                                                              *)

LEMMA PanelStaysCurrent ==
  ASSUME MainTypeOK, MainTypeOK', PanelIsCurrent, [MainNext]_allVars
  PROVE  PanelIsCurrent'
  <1> USE DEF MainTypeOK
  <1>1. ASSUME Refresh PROVE PanelIsCurrent'
    BY <1>1 DEF Refresh, PanelIsCurrent, Rendering
  <1>2. ASSUME UNCHANGED <<status, shown, failed, linkPresent, port>>,
               \/ UNCHANGED panel
               \/ \E m \in Overlays : Overlay(m)
        PROVE  PanelIsCurrent'
    <2>1. UNCHANGED Rendering
      BY <1>2 DEF Rendering
    <2>2. panel'.line \in {status} \union Overlays
      BY <1>2 DEF Overlay, PanelIsCurrent, Panels
    <2>3. panel'.card = panel.card /\ panel'.server = panel.server
      BY <1>2 DEF Overlay, Panels
    <2> QED
      BY <1>2, <2>1, <2>2, <2>3 DEF PanelIsCurrent
  <1>3. CASE StatusChanges \/ AgentReportsPort \/ Tick
    BY <1>1, <1>3 DEF StatusChanges, AgentReportsPort, Tick
  <1>4. CASE LinkChanges
    <2>1. UNCHANGED <<status, shown, failed, port, panel>>
      BY <1>4 DEF LinkChanges, view
    <2>2. Rendering'.card = Rendering.card
      BY <2>1 DEF Rendering, PortCard
    <2>3. CASE status = "DISCONNECTED"
      <3>1. Rendering.server \in {"stale", "hidden", "error"}
        BY <2>3, RenderingIsAPanel DEF PushTypeOK
      <3> QED
        BY <2>1, <2>2, <2>3, <3>1 DEF PanelIsCurrent
    <2>4. CASE status # "DISCONNECTED"
      <3>1. Rendering'.server = Rendering.server
        BY <2>1, <2>4 DEF Rendering, ServerLine
      <3> QED
        BY <2>1, <2>2, <3>1 DEF PanelIsCurrent
    <2> QED
      BY <2>3, <2>4
  <1>5. CASE PressQuick \/ QuickDispatched \/ QuickRefused
    BY <1>2, <1>5 DEF PressQuick, QuickDispatched, QuickRefused, Overlays, view
  <1>6. ASSUME NEW p \in Push, PushKey(p) \/ PushThread(p)
        PROVE  PanelIsCurrent'
    BY <1>2, <1>6 DEF PushKey, PushThread, mainVars, view
  <1>7. CASE EditConfig \/ UNCHANGED allVars
    BY <1>2, <1>7 DEF EditConfig, allVars, mainVars, view
  <1> QED
    BY <1>3, <1>4, <1>5, <1>6, <1>7 DEF MainNext

-----------------------------------------------------------------------------
(* The pushes.                                                             *)

LEMMA PushStaysTrue ==
  ASSUME MainTypeOK, PushInv, [MainNext]_allVars
  PROVE  PushInv'
  <1> USE DEF MainTypeOK, PushTypeOK
  <1>1. ASSUME UNCHANGED <<qbt, push, pushed, alone>> PROVE PushInv'
    BY <1>1 DEF PushInv
  <1>2. CASE StatusChanges \/ AgentReportsPort \/ LinkChanges \/ Tick
             \/ PressQuick \/ QuickDispatched \/ QuickRefused
             \/ EditConfig \/ UNCHANGED allVars
    BY <1>1, <1>2 DEF StatusChanges, AgentReportsPort, LinkChanges, Tick, PressQuick,
       QuickDispatched, QuickRefused, EditConfig, UserEditsConfig, allVars, mainVars,
       pushVars
  <1>3. ASSUME NEW p \in Push, NothingToPush(p) \/ NotConfigured(p)
        PROVE  PushInv'
    BY <1>3 DEF NothingToPush, NotConfigured, PushInv, PushGoes, InThread, AtWork
  <1>4. ASSUME NEW p \in Push, StartPush(p) PROVE PushInv'
    BY <1>4 DEF StartPush, PushInv, PushGoes, InThread, AtWork
  <1>5. ASSUME NEW p \in Push, PushStep(p) PROVE PushInv'
    <2>1. CASE LoggedIn(p)
      BY <2>1 DEF LoggedIn, PushInv, PushGoes, InThread, AtWork
    <2>2. CASE PortIsSet(p)
      BY <2>2 DEF PortIsSet, PushInv, PushGoes, InThread, AtWork
    <2>3. CASE PushReported(p) \/ PushFails(p)
      BY <2>3 DEF PushReported, PushFails, PushInv, PushGoes, InThread, AtWork
    <2>4. CASE LateApplies(p)
      BY <2>4 DEF LateApplies, PushInv, PushGoes, InThread, AtWork
    <2> QED
      BY <1>5, <2>1, <2>2, <2>3, <2>4 DEF PushStep
  <1> QED
    BY <1>2, <1>3, <1>4, <1>5
       DEF MainNext, PushKey, PushThread, PressPush

-----------------------------------------------------------------------------
(* Theorems.                                                               *)

THEOREM MainInvariant == MainSpec => []MainInv
  <1>1. MainInv /\ [MainNext]_allVars => MainInv'
    BY MainTypes, PanelStaysCurrent, PushStaysTrue DEF MainInv
  <1> QED
    BY MainInitInv, <1>1, PTL DEF MainSpec

\* Whatever the orchestrator and the keys do, the screen draws what it can draw,
\* and every push is in a state that its code has.
THEOREM MainTypeCorrect == MainSpec => []MainTypeOK
  BY MainInvariant, PTL DEF MainInv

\* The server and the port on the panel are those of now, for any number of
\* servers, ports and pushes.
THEOREM PanelShowsNow == MainSpec => []PanelIsCurrent
  BY MainInvariant, PTL DEF MainInv

\* However many pushes there are, and whatever the port does meanwhile, one that
\* reports success, and that no other has met, has left qBittorrent with the port
\* that it reports.
THEOREM PushTellsTheTruth == MainSpec => []ReportIsTrue
  <1>1. MainInv => ReportIsTrue
    BY DEF MainInv, PushInv, ReportIsTrue
  <1> QED
    BY MainInvariant, <1>1, PTL

\* No push writes over a config file that exists.
THEOREM ConfigStaysTheUsers == MainSpec => ConfigIsTheUsers
  <1> DEFINE A == config' # config /\ ~UserEditsConfig
                    => config = "absent" /\ config' = "blank"
  <1>1. [MainNext]_allVars => [A]_config
    <2> SUFFICES ASSUME [MainNext]_allVars, config' # config, ~UserEditsConfig
                 PROVE  config = "absent" /\ config' = "blank"
      OBVIOUS
    <2>1. ASSUME NEW p \in Push, PushKey(p) \/ PushThread(p)
          PROVE  config = "absent" /\ config' = "blank"
      BY <2>1 DEF PushKey, PushThread, PressPush, NothingToPush, NotConfigured, StartPush,
         PushStep, LoggedIn, PortIsSet, PushReported, PushFails, LateApplies
    <2>2. ~(StatusChanges \/ AgentReportsPort \/ LinkChanges \/ Tick \/ PressQuick
              \/ QuickDispatched \/ QuickRefused \/ EditConfig \/ UNCHANGED allVars)
      BY DEF StatusChanges, AgentReportsPort, LinkChanges, Tick, PressQuick,
         QuickDispatched, QuickRefused, EditConfig, allVars, pushVars
    <2> QED
      BY <2>1, <2>2 DEF MainNext
  <1> QED
    BY <1>1, PTL DEF MainSpec, ConfigIsTheUsers
=============================================================================
