---------------------- MODULE PreferencesDialogProofs ----------------------
(***************************************************************************)
(* For all servers, keys and fields: a menu that is shown beside    *)
(* the dialog has no switch, and one that was open before toggles the      *)
(* settings once; a question is about the fields that are saved when it is *)
(* answered.                                                               *)
(***************************************************************************)
EXTENDS PreferencesDialog, TLAPS

\* A menu that offers its switch was shown without the dialog, and is gone when the
\* dialog is shown; the settings are loaded while there is no dialog yet.
MenuIsAlone == (menu = "offered" => ~visible) /\ (visible => running)

LEMMA InitMenu == Init => MenuIsAlone
  BY DEF Init, MenuIsAlone

\* Handlers change the visibility in three ways only.
LEMMA StepMenu == MenuIsAlone /\ [Next]_vars => MenuIsAlone'
  <1>. SUFFICES ASSUME MenuIsAlone, [Next]_vars PROVE MenuIsAlone'
    OBVIOUS
  <1>. USE DEF MenuIsAlone
  <1>1. CASE Start \/ Stop \/ OpenDialog
    BY <1>1 DEF Start, Stop, OpenDialog, Open, dialog
  <1>2. CASE Reset \/ (\E entry \in Entries : Edit(entry)) 
          \/ GenerateKey \/ ImportKey \/ CopyPublicKey
    BY <1>2 DEF Reset, Edit, GenerateKey, ImportKey, CopyPublicKey, dialog
  <1>3. CASE Accept
    BY <1>3 DEF Accept, FinishAccept, Hide, dialog
  <1>4. CASE Reject
    BY <1>4 DEF Reject, Hide, dialog
  <1>5. CASE TrustCheckButton \/ RunTrustCheck \/ Dismiss \/ ChooseFile
    BY <1>5 DEF TrustCheckButton, RunTrustCheck, Dismiss, ChooseFile, dialog
  <1>6. CASE ConfirmExposure \/ TrustKey \/ DiscardEdits
    BY <1>6 DEF ConfirmExposure, TrustKey, DiscardEdits, FinishAccept, Hide, dialog
  <1>7. CASE ShowMenu \/ ToggleInMenu \/ ChangeOther
    BY <1>7 DEF ShowMenu, ToggleInMenu, ChangeOther, Open, dialog
  <1>8. CASE UNCHANGED vars
    BY <1>8 DEF vars, dialog
  <1>. QED  BY <1>1, <1>2, <1>3, <1>4, <1>5, <1>6, <1>7, <1>8 DEF Next

\* "The dialog would overwrite the state toggled in the menu when saved, so it's
\* toggled in one place at a time": behind a visible dialog the settings change by
\* the switch of a menu that was open before it, which closes, and by nothing else.
THEOREM OnePlaceAtATime == Spec => ToggledInOnePlace
  <1>. DEFINE Kept ==
          (visible /\ visible') =>
             /\ values' # values => menu = "left" /\ menu' = "hidden"
             /\ menu' = "left" => menu = "left"
  <1>1. MenuIsAlone /\ [Next]_vars => [Kept]_vars
    <2>. SUFFICES ASSUME MenuIsAlone, [Next]_vars PROVE Kept \/ UNCHANGED vars
      OBVIOUS
    <2>1. CASE Start \/ Stop \/ OpenDialog
      BY <2>1 DEF MenuIsAlone, Start, Stop, OpenDialog, Open, store, dialog
    <2>2. CASE Reset \/ (\E entry \in Entries : Edit(entry)) 
            \/ GenerateKey \/ ImportKey \/ CopyPublicKey
      BY <2>2 DEF Reset, Edit, GenerateKey, ImportKey, CopyPublicKey, store, dialog
    <2>3. CASE Accept
      BY <2>3 DEF Accept, FinishAccept, Hide, store, dialog
    <2>4. CASE Reject
      BY <2>4 DEF Reject, Hide, store, dialog
    <2>5. CASE TrustCheckButton \/ RunTrustCheck \/ Dismiss \/ ChooseFile
      BY <2>5 DEF TrustCheckButton, RunTrustCheck, Dismiss, ChooseFile, SetOther, store, dialog
    <2>6. CASE ConfirmExposure \/ TrustKey \/ DiscardEdits
      BY <2>6 DEF ConfirmExposure, TrustKey, DiscardEdits, FinishAccept, Hide, store, dialog
    <2>7. CASE ShowMenu \/ ToggleInMenu \/ ChangeOther
      BY <2>7 DEF MenuIsAlone, ShowMenu, ToggleInMenu, ChangeOther, SetOther, store, dialog
    <2>. QED
      BY <2>1, <2>2, <2>3, <2>4, <2>5, <2>6, <2>7 DEF Next
  <1>2. Spec => []MenuIsAlone
    BY InitMenu, StepMenu, PTL DEF Spec
  <1>. QED  BY <1>1, <1>2, PTL DEF Spec, ToggledInOnePlace

-----------------------------------------------------------------------------
(* Types *)

LEMMA DefaultsType == Defaults \in TunnelSettings
  BY PreferencesAssumption DEF Defaults, TunnelSettings

LEMMA InitTypes == Init => TypeOK
  <1>. SUFFICES ASSUME Init PROVE TypeOK
    OBVIOUS
  <1>1. boxes \in Seq(Boxes) /\ under \in Nat
    BY DEF Init
  <1>2. {values, file, edits, agreed} \subseteq TunnelSettings
    BY DefaultsType DEF Init
  <1>3. knownHosts \in [Servers -> Keys \cup {NoKey}]
    BY DEF Init
  <1>. QED  BY <1>1, <1>2, <1>3 DEF Init, TypeOK

LEMMA BoxTypes ==
    ASSUME TypeOK
    PROVE  /\ \A handler \in {"accept", "check", "key"} : Notice(handler) \in Boxes
           /\ Box("accept", "exposure", NoServer, NoKey) \in Boxes
           /\ Box("reject", "discard", NoServer, NoKey) \in Boxes
           /\ Box("key", "file", NoServer, NoKey) \in Boxes
           /\ edits.server \in Servers =>
                \A key \in Keys :
                   /\ \A handler \in {"accept", "check"} :
                         Box(handler, "unknown", edits.server, key) \in Boxes
                   /\ Box("check", "changed", edits.server, key) \in Boxes
  BY DEF TypeOK, Notice, Box, Boxes

LEMMA ServerOfEdits ==
    ASSUME TypeOK, IsValid(edits), edits.enabled
    PROVE  edits.server \in Servers
  BY DEF IsValid

LEMMA HideType ==
    ASSUME TypeOK, NEW settings \in TunnelSettings, Hide(settings)
    PROVE  /\ {values, file, edits}' \subseteq TunnelSettings
           /\ visible' \in BOOLEAN /\ under' \in Nat
  BY DEF TypeOK, Hide, SetTunnelSettings, SaveOrFail

\* Of the whole accept, after what may have been asked before
LEMMA FinishType ==
    ASSUME TypeOK, NEW waiting \in Seq(Boxes), NEW agreement,
           FinishAccept(waiting, agreement), IsValid(edits)
    PROVE  /\ {values, file, edits}' \subseteq TunnelSettings
           /\ visible' \in BOOLEAN /\ under' \in Nat
           /\ boxes' \in Seq(Boxes)
  <1>1. CASE edits.enabled /\ knownHosts[edits.server] = NoKey
    <2>1. UNCHANGED <<store, dialog>>
      BY <1>1 DEF FinishAccept
    <2>2. \E box \in Boxes : boxes' = Append(waiting, box)
      BY <1>1, BoxTypes, ServerOfEdits DEF FinishAccept, ProbeFails, AskAboutKey
    <2>. QED  BY <2>1, <2>2 DEF TypeOK, store, dialog
  <1>2. CASE ~(edits.enabled /\ knownHosts[edits.server] = NoKey)
    <2>1. Hide(edits) /\ boxes' = waiting
      BY <1>2 DEF FinishAccept
    <2>. QED  BY <2>1, HideType DEF TypeOK
  <1>. QED  BY <1>1, <1>2

LEMMA NewestType ==
    ASSUME TypeOK, BoxIsUsable
    PROVE  /\ Newest \in Boxes /\ Older \in Seq(Boxes)
           /\ Len(boxes) \in Nat \ {0} /\ Len(Older) = Len(boxes) - 1
           /\ \A i \in DOMAIN Older : i \in DOMAIN boxes /\ Older[i] = boxes[i]
  <1>1. boxes \in Seq(Boxes) /\ boxes # <<>>
    BY DEF TypeOK, BoxIsUsable
  <1>2. Len(boxes) \in Nat \ {0}
    BY <1>1
  <1>3. Newest \in Boxes
    BY <1>1, <1>2 DEF Newest
  <1>4. Older = SubSeq(boxes, 1, Len(boxes) - 1)
    BY DEF Older, Front
  <1>5. Older \in Seq(Boxes) /\ Len(Older) = Len(boxes) - 1
    <2>. DEFINE n == Len(boxes) - 1
    <2>1. n \in Nat /\ n <= Len(boxes)
      BY <1>2
    <2>2. SubSeq(boxes, 1, n) \in Seq(Boxes) /\ Len(SubSeq(boxes, 1, n)) = n
      <3>. HIDE DEF n
      <3>. QED  BY <1>1, <2>1
    <2>. QED  BY <1>4, <2>2
  <1>6. \A i \in DOMAIN Older : i \in DOMAIN boxes /\ Older[i] = boxes[i]
    BY <1>1, <1>2, <1>4
  <1>. QED  BY <1>2, <1>3, <1>5, <1>6

-----------------------------------------------------------------------------
(* Questions *)

\* What keeps the handlers in order: the boxes above a dialog that is visible are
\* newer, and a hidden dialog has only the check waiting.  The menu has toggled the
\* settings only once since accept compared the fields with them.
DialogInv ==
    /\ TypeOK /\ MenuIsAlone
    /\ visible => under <= Len(boxes)
    /\ toggled => AcceptWaits /\ menu # "left"
    /\ QuestionsAreAboutEdits

AllChecks(waiting) == \A i \in DOMAIN waiting : waiting[i].handler = "check"

LEMMA ChecksAreFree == AllChecks(boxes) => QuestionsAreAboutEdits
  BY DEF AllChecks, QuestionsAreAboutEdits

LEMMA FreeDialog ==
    ASSUME DialogInv, ~visible \/ DialogIsUsable
    PROVE  AllChecks(boxes) /\ ~toggled
  BY DEF DialogInv, TypeOK, DialogIsUsable, AllChecks, AcceptWaits, QuestionsAreAboutEdits

LEMMA OthersAreChecks ==
    ASSUME DialogInv, BoxIsUsable, Newest.handler # "check"
    PROVE  /\ visible /\ AllChecks(Older)
           /\ Newest.question \in {"exposure", "unknown"} => IsValid(edits)
           /\ Newest.question = "exposure" => BecomesExposed(ComparedWith, edits)
           /\ Newest.question = "unknown" =>
                 /\ edits.enabled /\ Newest.server = edits.server
                 /\ BecomesExposed(ComparedWith, edits) => agreed = edits
           /\ toggled => Newest.handler = "accept"
  <1>1. Len(boxes) \in DOMAIN boxes /\ Newest = boxes[Len(boxes)]
    BY NewestType DEF DialogInv, TypeOK, Newest
  <1>2. visible /\ \A j \in DOMAIN boxes : boxes[j].handler = "check" \/ j = Len(boxes)
    BY <1>1 DEF DialogInv, QuestionsAreAboutEdits
  <1>3. ASSUME NEW i \in DOMAIN Older PROVE Older[i].handler = "check"
    <2>1. i \in DOMAIN boxes /\ Older[i] = boxes[i] /\ i # Len(boxes)
      BY <1>3, NewestType DEF DialogInv, TypeOK
    <2>. QED  BY <1>2, <2>1
  <1>4. toggled => Newest.handler = "accept"
    BY <1>1, <1>2 DEF DialogInv, AcceptWaits
  <1>. QED  BY <1>1, <1>2, <1>3, <1>4 DEF DialogInv, QuestionsAreAboutEdits, AllChecks

\* A handler of the dialog asks while nothing but the check is waiting.
LEMMA AskQuestion ==
    ASSUME NEW waiting \in Seq(Boxes), AllChecks(waiting), NEW box \in Boxes,
           boxes' = Append(waiting, box), visible', under' \in Nat, under' <= Len(waiting),
           box.question \in {"exposure", "unknown"} => IsValid(edits)',
           box.question = "exposure" => BecomesExposed(ComparedWith, edits)',
           box.question = "unknown" =>
              /\ edits'.enabled /\ box.server = edits'.server
              /\ BecomesExposed(ComparedWith, edits)' => agreed' = edits',
           toggled' => box.handler = "accept"
    PROVE  /\ QuestionsAreAboutEdits' /\ boxes' \in Seq(Boxes)
           /\ under' <= Len(boxes') /\ (toggled' => AcceptWaits')
  <1>1. /\ boxes' \in Seq(Boxes) /\ Len(boxes') = Len(waiting) + 1
        /\ DOMAIN boxes' = 1..Len(waiting) + 1
    OBVIOUS
  <1>2. ASSUME NEW i \in DOMAIN boxes'
        PROVE  \/ i = Len(waiting) + 1 /\ boxes'[i] = box
               \/ i # Len(waiting) + 1 /\ boxes'[i].handler = "check"
    BY <1>1, <1>2 DEF AllChecks
  <1>3. QuestionsAreAboutEdits'
    BY <1>1, <1>2 DEF QuestionsAreAboutEdits
  <1>4. boxes'[Len(waiting) + 1] = box /\ Len(waiting) + 1 \in DOMAIN boxes'
    BY <1>1
  <1>. QED  BY <1>1, <1>3, <1>4 DEF AcceptWaits

LEMMA AddCheck ==
    ASSUME DialogInv, NEW box \in Boxes, box.handler = "check",
           boxes' = Append(boxes, box), UNCHANGED <<values, edits, visible, under, history>>
    PROVE  /\ QuestionsAreAboutEdits' /\ boxes' \in Seq(Boxes)
           /\ visible' => under' <= Len(boxes')
           /\ toggled' => AcceptWaits'
  <1>. USE DEF history
  <1>1. /\ boxes' \in Seq(Boxes) /\ Len(boxes') = Len(boxes) + 1 /\ Len(boxes) \in Nat
        /\ \A i \in DOMAIN boxes' :
              \/ i \in DOMAIN boxes /\ boxes'[i] = boxes[i]
              \/ boxes'[i].handler = "check"
        /\ \A i \in DOMAIN boxes : i \in DOMAIN boxes' /\ boxes'[i] = boxes[i]
    BY DEF DialogInv, TypeOK
  <1>2. under' \in Nat /\ ComparedWith' = ComparedWith
    BY DEF DialogInv, TypeOK, ComparedWith
  <1>3. toggled' => AcceptWaits'
    BY <1>1 DEF DialogInv, AcceptWaits
  <1>. QED  BY <1>1, <1>2, <1>3 DEF DialogInv, QuestionsAreAboutEdits

LEMMA RemoveNewest ==
    ASSUME DialogInv, BoxIsUsable, boxes' = Older, UNCHANGED <<values, edits, visible, under>>,
           IF Newest.handler = "accept" THEN ~toggled' ELSE UNCHANGED history
    PROVE  /\ QuestionsAreAboutEdits' /\ boxes' \in Seq(Boxes)
           /\ visible' => under' <= Len(boxes')
           /\ toggled' => AcceptWaits'
  <1>1. /\ boxes' \in Seq(Boxes) /\ Len(boxes') = Len(boxes) - 1 /\ Len(boxes) \in Nat
        /\ \A i \in DOMAIN boxes' : i \in DOMAIN boxes /\ boxes'[i] = boxes[i]
    BY NewestType DEF DialogInv
  <1>2. under \in Nat /\ (visible => under < Len(boxes))
    BY DEF DialogInv, TypeOK, BoxIsUsable
  <1>3. CASE Newest.handler = "accept"
    <2>1. AllChecks(boxes')
      BY <1>3, OthersAreChecks
    <2>2. QuestionsAreAboutEdits'
      BY <2>1 DEF QuestionsAreAboutEdits, AllChecks
    <2>. QED  BY <1>1, <1>2, <1>3, <2>2
  <1>4. CASE Newest.handler # "accept"
    <2>1. ComparedWith' = ComparedWith /\ UNCHANGED <<agreed, toggled>>
      BY <1>4 DEF ComparedWith, history
    <2>2. QuestionsAreAboutEdits'
      BY <1>1, <1>2, <2>1 DEF DialogInv, QuestionsAreAboutEdits
    <2>3. toggled' => AcceptWaits'
      <3>. SUFFICES ASSUME toggled PROVE AcceptWaits'
        BY <2>1
      <3>1. PICK i \in DOMAIN boxes : boxes[i].handler = "accept"
        BY DEF DialogInv, AcceptWaits
      <3>2. i # Len(boxes) /\ DOMAIN boxes = 1..Len(boxes)
        BY <1>4, <3>1 DEF Newest, DialogInv, TypeOK
      <3>3. i \in DOMAIN boxes' /\ boxes'[i] = boxes[i]
        BY <1>1, <3>1, <3>2
      <3>. QED  BY <3>1, <3>3 DEF AcceptWaits
    <2>. QED  BY <1>1, <1>2, <2>2, <2>3
  <1>. QED  BY <1>3, <1>4

-----------------------------------------------------------------------------
(* The invariant *)

\* The part of the invariant that the handlers of the dialog can disturb
DialogStep ==
    /\ {values, file, edits}' \subseteq TunnelSettings
    /\ boxes' \in Seq(Boxes) /\ visible' \in BOOLEAN /\ under' \in Nat
    /\ visible' => under' <= Len(boxes')
    /\ toggled' => AcceptWaits'
    /\ QuestionsAreAboutEdits'

\* Hidden, and nothing but the check waits.
LEMMA HideStep ==
    ASSUME DialogInv, NEW settings \in TunnelSettings, Hide(settings),
           boxes' \in Seq(Boxes), AllChecks(boxes')
    PROVE  DialogStep
  <1>1. QuestionsAreAboutEdits'
    BY ChecksAreFree DEF QuestionsAreAboutEdits, AllChecks
  <1>2. visible' = FALSE /\ toggled' = FALSE
    BY DEF Hide, Forget
  <1>. QED  BY <1>1, <1>2, HideType DEF DialogStep, DialogInv

\* accept, with the questions it asked before answered
LEMMA FinishStep ==
    ASSUME DialogInv, visible, IsValid(edits), NEW waiting \in Seq(Boxes),
           AllChecks(waiting), under <= Len(waiting),
           NEW agreement, FinishAccept(waiting, agreement),
           BecomesExposed(ComparedWith, edits) => agreement = edits
    PROVE  DialogStep
  <1>0. TypeOK
    BY DEF DialogInv
  <1>1. CASE edits.enabled /\ knownHosts[edits.server] = NoKey
    <2>1. UNCHANGED <<store, dialog, toggled>> /\ agreed' = agreement
      BY <1>1 DEF FinishAccept
    <2>2. edits.server \in Servers
      BY <1>0, <1>1, ServerOfEdits
    <2>3. PICK box \in Boxes :
             /\ boxes' = Append(waiting, box)
             /\ box.question # "exposure" /\ box.handler = "accept"
             /\ box.question = "unknown" => box.server = edits.server
      <3>1. CASE ProbeFails("accept", waiting)
        BY <3>1, <1>0, BoxTypes DEF ProbeFails, Notice, Box
      <3>2. CASE \E key \in Keys : AskAboutKey("accept", "unknown", key, waiting)
        BY <3>2, <1>0, <2>2, BoxTypes DEF AskAboutKey, Box
      <3>. QED  BY <1>1, <3>1, <3>2 DEF FinishAccept
    <2>4. /\ UNCHANGED <<values, edits, visible, under>> /\ under' \in Nat
          /\ {values, file, edits}' \subseteq TunnelSettings /\ visible' \in BOOLEAN
      BY <2>1, <1>0 DEF store, dialog, TypeOK
    <2>5. IsValid(edits)' /\ (BecomesExposed(ComparedWith, edits)' => agreed' = edits')
      BY <2>1, <2>4 DEF IsValid, ProxyAddressesConflict, BecomesExposed, HostBecomesExposed,
                        ComparedWith
    <2>. QED  BY <1>1, <2>3, <2>4, <2>5, AskQuestion DEF DialogStep
  <1>2. CASE ~(edits.enabled /\ knownHosts[edits.server] = NoKey)
    <2>1. Hide(edits) /\ boxes' = waiting
      BY <1>2 DEF FinishAccept
    <2>2. edits \in TunnelSettings
      BY <1>0 DEF TypeOK
    <2>. QED  BY <2>1, <2>2, HideStep
  <1>. QED  BY <1>1, <1>2

LEMMA AcceptStep == DialogInv /\ Accept => DialogStep
  <1>. SUFFICES ASSUME DialogInv, Accept PROVE DialogStep
    OBVIOUS
  <1>1. /\ visible /\ AllChecks(boxes) /\ boxes \in Seq(Boxes) /\ under <= Len(boxes)
        /\ ~toggled /\ ComparedWith = values
    BY FreeDialog DEF Accept, DialogIsUsable, DialogInv, TypeOK, ComparedWith
  <1>2. CASE ~IsValid(edits) \/ (IsValid(edits) /\ BecomesExposed(values, edits))
    <2>1. UNCHANGED <<values, file, edits, visible, under, toggled>>
      BY <1>2 DEF Accept, store, dialog, history
    <2>2. PICK box \in Boxes :
             /\ boxes' = Append(boxes, box) /\ box.question # "unknown"
             /\ box.question = "exposure" => IsValid(edits) /\ BecomesExposed(values, edits)
      <3>1. CASE ~IsValid(edits)
        BY <3>1, BoxTypes DEF Accept, DialogInv, Notice, Box
      <3>2. CASE IsValid(edits) /\ BecomesExposed(values, edits)
        BY <3>2, BoxTypes DEF Accept, DialogInv, Box
      <3>. QED  BY <1>2, <3>1, <3>2
    <2>3. (IsValid(edits)' <=> IsValid(edits)) /\
          (BecomesExposed(ComparedWith, edits)' <=> BecomesExposed(values, edits))
      BY <1>1, <2>1 DEF IsValid, ProxyAddressesConflict, BecomesExposed, HostBecomesExposed,
                        ComparedWith
    <2>. QED
      BY <1>1, <2>1, <2>2, <2>3, AskQuestion DEF DialogStep, DialogInv, TypeOK
  <1>3. CASE IsValid(edits) /\ ~BecomesExposed(values, edits)
    <2>1. FinishAccept(boxes, Defaults)
      BY <1>3 DEF Accept
    <2>. QED  BY <1>1, <1>3, <2>1, FinishStep
  <1>. QED  BY <1>2, <1>3

LEMMA RejectStep == DialogInv /\ Reject => DialogStep
  <1>. SUFFICES ASSUME DialogInv, Reject PROVE DialogStep
    OBVIOUS
  <1>1. /\ visible /\ AllChecks(boxes) /\ boxes \in Seq(Boxes) /\ under <= Len(boxes)
        /\ ~toggled
    BY FreeDialog DEF Reject, DialogIsUsable, DialogInv, TypeOK
  <1>2. CASE edits # values
    <2>. DEFINE box == Box("reject", "discard", NoServer, NoKey)
    <2>1. /\ boxes' = Append(boxes, box)
          /\ UNCHANGED <<values, file, edits, visible, under, toggled>>
      BY <1>2 DEF Reject, store, dialog, history
    <2>2. box \in Boxes /\ box.question = "discard"
      BY BoxTypes DEF DialogInv, Box
    <2>. HIDE DEF box
    <2>. QED
      BY <1>1, <2>1, <2>2, AskQuestion DEF DialogStep, DialogInv, TypeOK
  <1>3. CASE edits = values
    <2>1. Hide(values) /\ UNCHANGED boxes /\ values \in TunnelSettings
      BY <1>3 DEF Reject, DialogInv, TypeOK
    <2>. QED  BY <1>1, <2>1, HideStep
  <1>. QED  BY <1>2, <1>3

LEMMA AnswerStep ==
    DialogInv /\ (ConfirmExposure \/ TrustKey \/ DiscardEdits \/ Dismiss) => DialogStep
  <1>. SUFFICES ASSUME DialogInv, ConfirmExposure \/ TrustKey \/ DiscardEdits \/ Dismiss
                PROVE  DialogStep
    OBVIOUS
  <1>0. TypeOK /\ BoxIsUsable
    BY DEF DialogInv, ConfirmExposure, TrustKey, DiscardEdits, Dismiss
  <1>1. /\ Newest \in Boxes /\ Older \in Seq(Boxes) /\ Len(Older) = Len(boxes) - 1
        /\ values \in TunnelSettings /\ edits \in TunnelSettings
    BY <1>0, NewestType DEF TypeOK
  <1>2. CASE ConfirmExposure
    <2>1. Newest.question = "exposure" /\ Newest.handler # "check"
      BY <1>1, <1>2 DEF ConfirmExposure, Boxes
    <2>2. under <= Len(Older)
      BY <1>0, <1>1, <2>1, OthersAreChecks DEF BoxIsUsable, TypeOK
    <2>3. FinishAccept(Older, edits)
      BY <1>2 DEF ConfirmExposure
    <2>. QED  BY <1>0, <1>1, <2>1, <2>2, <2>3, OthersAreChecks, FinishStep
  <1>3. CASE Dismiss \/ (TrustKey /\ Newest.handler # "accept")
    <2>1. /\ boxes' = Older /\ UNCHANGED <<values, file, edits, visible, under>>
          /\ IF Newest.handler = "accept" THEN ~toggled' ELSE UNCHANGED history
      BY <1>3 DEF Dismiss, TrustKey, Forget, store, dialog
    <2>. QED  BY <1>0, <1>1, <2>1, RemoveNewest DEF DialogStep, TypeOK
  <1>4. CASE TrustKey /\ Newest.handler = "accept"
    <2>1. Hide(edits) /\ boxes' = Older
      BY <1>4 DEF TrustKey
    <2>. QED  BY <1>0, <1>1, <1>4, <2>1, OthersAreChecks, HideStep
  <1>5. CASE DiscardEdits
    <2>1. Hide(values) /\ boxes' = Older /\ Newest.handler # "check"
      BY <1>1, <1>5 DEF DiscardEdits, Boxes
    <2>. QED  BY <1>0, <1>1, <2>1, OthersAreChecks, HideStep
  <1>. QED  BY <1>2, <1>3, <1>4, <1>5

LEMMA CheckStep == DialogInv /\ RunTrustCheck => DialogStep
  <1>. SUFFICES ASSUME DialogInv, RunTrustCheck PROVE DialogStep
    OBVIOUS
  <1>1. UNCHANGED <<values, file, edits, visible, under, history>>
    BY DEF RunTrustCheck, store, dialog
  <1>2. PICK box \in Boxes : boxes' = Append(boxes, box) /\ box.handler = "check"
    <2>1. CASE ProbeFails("check", boxes) \/ boxes' = Append(boxes, Notice("check"))
      BY <2>1, BoxTypes DEF ProbeFails, DialogInv, Notice, Box
    <2>2. CASE \E key \in Keys :
                  /\ edits.server \in Servers
                  /\ \/ AskAboutKey("check", "unknown", key, boxes)
                     \/ AskAboutKey("check", "changed", key, boxes)
      BY <2>2, BoxTypes DEF AskAboutKey, DialogInv, Box
    <2>. QED  BY <2>1, <2>2 DEF RunTrustCheck
  <1>. QED  BY <1>1, <1>2, AddCheck DEF DialogStep, DialogInv, TypeOK

LEMMA FieldStep ==
    DialogInv /\ (GenerateKey \/ ImportKey \/ CopyPublicKey \/ ChooseFile) => DialogStep
  <1>. SUFFICES ASSUME DialogInv, GenerateKey \/ ImportKey \/ CopyPublicKey \/ ChooseFile
                PROVE  DialogStep
    OBVIOUS
  <1>. DEFINE file_ == Box("key", "file", NoServer, NoKey)
  <1>1. /\ visible' = visible /\ under' = under /\ under \in Nat /\ visible \in BOOLEAN
        /\ {values, file}' \subseteq TunnelSettings /\ toggled' = toggled
    BY DEF GenerateKey, ImportKey, CopyPublicKey, ChooseFile, SetOther, SaveOrFail, store,
           dialog, history, DialogInv, TypeOK
  <1>2. edits' \in TunnelSettings
    <2>1. \/ edits' = edits
          \/ \E key \in {"valid", "none"} : edits' = [edits EXCEPT !.key = key]
      BY DEF GenerateKey, ImportKey, CopyPublicKey, ChooseFile, dialog
    <2>. QED  BY <2>1 DEF DialogInv, TypeOK, TunnelSettings
  <1>3. PICK waiting \in Seq(Boxes) :
           /\ AllChecks(waiting) /\ visible /\ under <= Len(waiting) /\ ~toggled
           /\ \/ boxes' = waiting
              \/ boxes' = Append(waiting, Notice("key"))
              \/ boxes' = Append(waiting, file_)
    <2>1. CASE GenerateKey \/ ImportKey \/ CopyPublicKey
      <3>1. DialogIsUsable
        BY <2>1 DEF GenerateKey, ImportKey, CopyPublicKey
      <3>2. boxes \in Seq(Boxes) /\ AllChecks(boxes) /\ visible /\ ~toggled
        BY <3>1, FreeDialog DEF DialogIsUsable, DialogInv, TypeOK
      <3>3. under <= Len(boxes)
        BY <3>2 DEF DialogInv
      <3>. QED  BY <2>1, <3>2, <3>3 DEF GenerateKey, ImportKey, CopyPublicKey
    <2>2. CASE ChooseFile
      <3>1. BoxIsUsable /\ Newest.handler = "key" /\ TypeOK
        BY <2>2, NewestType DEF ChooseFile, DialogInv, Boxes
      <3>2. /\ Older \in Seq(Boxes) /\ AllChecks(Older) /\ visible
            /\ under <= Len(Older) /\ ~toggled
        BY <3>1, NewestType, OthersAreChecks DEF BoxIsUsable, TypeOK
      <3>. QED  BY <2>2, <3>2 DEF ChooseFile
    <2>. QED  BY <2>1, <2>2
  <1>4. CASE boxes' = waiting
    BY <1>1, <1>2, <1>3, <1>4 DEF DialogStep, AllChecks, QuestionsAreAboutEdits
  <1>5. ASSUME NEW box \in {Notice("key"), file_}, boxes' = Append(waiting, box)
        PROVE  DialogStep
    <2>1. box \in Boxes /\ box.question \notin {"exposure", "unknown"}
      BY <1>5, BoxTypes DEF DialogInv, Notice, Box
    <2>. HIDE DEF file_
    <2>. QED  BY <1>1, <1>2, <1>3, <1>5, <2>1, AskQuestion DEF DialogStep
  <1>. QED  BY <1>3, <1>4, <1>5

\* The menu toggles the settings behind the fields: what was asked was asked with
\* the settings of before.
LEMMA ToggleStep ==
    ASSUME DialogInv, ToggleInMenu, values' # values
    PROVE  DialogStep
  <1>0. TypeOK /\ MenuIsAlone
    BY DEF DialogInv
  <1>1. /\ values' = [values EXCEPT !.enabled = ~@] /\ file' \in {file, values'}
        /\ UNCHANGED <<edits, visible, under, boxes, agreed>>
        /\ toggled' = AcceptWaits /\ menu \in {"offered", "left"}
    BY DEF ToggleInMenu, SetTunnelSettings, SaveOrFail, store, dialog
  <1>2. values' \in TunnelSettings
    BY <1>0, <1>1 DEF TypeOK, TunnelSettings
  <1>3. {values, file, edits}' \subseteq TunnelSettings
    BY <1>0, <1>1, <1>2 DEF TypeOK
  <1>4. ASSUME AcceptWaits
        PROVE  BecomesExposed(ComparedWith, edits)' <=> BecomesExposed(ComparedWith, edits)
    <2>1. visible /\ ~toggled
      BY <1>0, <1>1, <1>4
         DEF DialogInv, AcceptWaits, QuestionsAreAboutEdits, MenuIsAlone
    <2>2. /\ ComparedWith = values /\ toggled' = TRUE
          /\ ComparedWith' = [values' EXCEPT !.enabled = ~@]
      BY <1>1, <1>4, <2>1 DEF ComparedWith
    <2>3. ComparedWith' = values
      BY <1>0, <1>1, <2>2 DEF TypeOK, TunnelSettings
    <2>. QED
      BY <1>1, <2>2, <2>3 DEF BecomesExposed, HostBecomesExposed
  <1>5. IsValid(edits)' <=> IsValid(edits)
    BY <1>1 DEF IsValid, ProxyAddressesConflict
  <1>6. ~AcceptWaits =>
           \A i \in DOMAIN boxes :
              boxes[i].handler # "check" => boxes[i].question \notin {"exposure", "unknown"}
    <2>1. \A i \in DOMAIN boxes : boxes[i] \in Boxes
      BY <1>0 DEF TypeOK
    <2>. QED  BY <2>1 DEF AcceptWaits, Boxes
  <1>7. QuestionsAreAboutEdits'
    <2>1. CASE AcceptWaits
      BY <1>1, <1>4, <1>5, <2>1 DEF DialogInv, QuestionsAreAboutEdits
    <2>2. CASE ~AcceptWaits
      BY <1>1, <1>6, <2>2 DEF DialogInv, QuestionsAreAboutEdits
    <2>. QED  BY <2>1, <2>2
  <1>8. toggled' => AcceptWaits'
    BY <1>1 DEF AcceptWaits
  <1>. QED
    BY <1>0, <1>1, <1>3, <1>7, <1>8 DEF DialogStep, DialogInv, TypeOK

\* A toggle changes the settings, or opens the dialog, or does nothing.
LEMMA ToggleKeeps ==
    ASSUME TypeOK, ToggleInMenu, values' = values
    PROVE  /\ UNCHANGED <<store, boxes, history>>
           /\ Open \/ UNCHANGED dialog
  <1>1. ASSUME SetTunnelSettings([values EXCEPT !.enabled = ~@]) PROVE FALSE
    <2>1. values'.enabled = ~values.enabled /\ values.enabled \in BOOLEAN
      BY <1>1 DEF SetTunnelSettings, TypeOK, TunnelSettings
    <2>. QED  BY <2>1
  <1>. QED  BY <1>1 DEF ToggleInMenu

\* Steps of everything else: the fields and the boxes stay, or the dialog is free.
LEMMA OtherStep ==
    ASSUME DialogInv,
           \/ Start \/ Stop \/ OpenDialog \/ Reset
           \/ \E entry \in Entries : Edit(entry)
           \/ TrustCheckButton \/ ShowMenu \/ ChangeOther
           \/ (ToggleInMenu /\ values' = values)
    PROVE  DialogStep
  <1>0. TypeOK /\ MenuIsAlone
    BY DEF DialogInv
  <1>1. CASE Start \/ OpenDialog \/ Reset \/ (\E entry \in Entries : Edit(entry))
             \/ (ToggleInMenu /\ values' = values /\ Open)
    <2>1. AllChecks(boxes) /\ ~toggled
      <3>1. ~visible \/ DialogIsUsable
        BY <1>0, <1>1 DEF Start, OpenDialog, Open, Reset, Edit, MenuIsAlone
      <3>. QED  BY <3>1, FreeDialog
    <2>2. UNCHANGED <<boxes, toggled>>
      <3>1. CASE ToggleInMenu /\ values' = values /\ Open
        BY <1>0, <3>1, <2>1, ToggleKeeps DEF history
      <3>. QED
        BY <1>1, <3>1 DEF Start, OpenDialog, Reset, Edit, history
    <2>3. {values, file, edits}' \subseteq TunnelSettings
      <3>2. /\ Entries \subseteq TunnelSettings
            /\ values \in TunnelSettings /\ file \in TunnelSettings /\ edits \in TunnelSettings
        BY <1>0, DialogAssumption DEF TypeOK
      <3>3. values' \in {values, file, Defaults} /\ file' \in {file, values'}
        <4>1. CASE Start
          BY <4>1 DEF Start, Load
        <4>2. CASE ToggleInMenu /\ values' = values
          BY <4>2 DEF ToggleInMenu, SetTunnelSettings, SaveOrFail, store
        <4>3. CASE OpenDialog \/ Reset \/ (\E entry \in Entries : Edit(entry))
          BY <4>3 DEF OpenDialog, Reset, Edit, store
        <4>. QED  BY <1>1, <4>1, <4>2, <4>3
      <3>4. edits' \in Entries \cup {values, edits}
        BY <1>1 DEF Start, OpenDialog, Open, Reset, Edit, dialog
      <3>. QED  BY <3>2, <3>3, <3>4, DefaultsType
    <2>4. /\ visible' \in BOOLEAN /\ under' \in Nat
          /\ visible' => under' <= Len(boxes')
      <3>1. /\ visible \in BOOLEAN /\ under \in Nat /\ Len(boxes) \in Nat
            /\ visible => under <= Len(boxes)
        BY <1>0 DEF TypeOK, DialogInv
      <3>2. CASE Open
        BY <2>2, <3>1, <3>2 DEF Open
      <3>3. CASE UNCHANGED <<visible, under>>
        BY <2>2, <3>1, <3>3
      <3>. QED
        BY <1>1, <3>2, <3>3 DEF Start, OpenDialog, Reset, Edit, dialog
    <2>5. QuestionsAreAboutEdits'
      BY <2>1, <2>2 DEF QuestionsAreAboutEdits, AllChecks
    <2>. QED  BY <1>0, <2>1, <2>2, <2>3, <2>4, <2>5 DEF DialogStep, TypeOK
  <1>2. CASE Stop
    <2>1. boxes' = <<>> /\ visible' = FALSE /\ under' = 0 /\ toggled' = FALSE
      BY <1>2 DEF Stop, Forget
    <2>2. {values, file, edits}' \subseteq TunnelSettings
      BY <1>0, <1>2, DefaultsType DEF Stop, TypeOK
    <2>3. AllChecks(boxes') /\ boxes' \in Seq(Boxes)
      BY <2>1 DEF AllChecks
    <2>4. QuestionsAreAboutEdits'
      BY <2>3 DEF QuestionsAreAboutEdits, AllChecks
    <2>. QED  BY <2>1, <2>2, <2>3, <2>4 DEF DialogStep
  <1>3. CASE TrustCheckButton \/ ShowMenu \/ ChangeOther
             \/ (ToggleInMenu /\ values' = values /\ ~Open)
    <2>1. /\ UNCHANGED <<values, edits, boxes, visible, under, history>>
          /\ file' \in {file, values}
      <3>1. CASE ToggleInMenu /\ values' = values /\ ~Open
        BY <1>0, <3>1, ToggleKeeps DEF store, dialog
      <3>. QED
        BY <1>3, <3>1 DEF TrustCheckButton, ShowMenu, ChangeOther, SetOther, SaveOrFail, store,
                          dialog
    <2>2. QuestionsAreAboutEdits' /\ (toggled' => AcceptWaits')
      BY <2>1
         DEF DialogInv, QuestionsAreAboutEdits, IsValid, ProxyAddressesConflict,
             BecomesExposed, HostBecomesExposed, ComparedWith, AcceptWaits, history
    <2>. QED  BY <1>0, <2>1, <2>2 DEF DialogStep, DialogInv, TypeOK
  <1>. QED  BY <1>1, <1>2, <1>3

\* The variables that DialogStep says nothing of
LEMMA RestType ==
    ASSUME TypeOK, [Next]_vars
    PROVE  /\ running' \in BOOLEAN /\ agreed' \in TunnelSettings /\ toggled' \in BOOLEAN
           /\ trustCheck' \in {"idle", "delayed", "asking"}
           /\ menu' \in {"hidden", "offered", "left", "plain"}
           /\ knownHosts' \in [Servers -> Keys \cup {NoKey}]
  <1>. USE DefaultsType DEF TypeOK, history, Forget
  <1>1. CASE Start \/ Stop \/ OpenDialog \/ Reset \/ (\E entry \in Entries : Edit(entry))
    BY <1>1 DEF Start, Stop, OpenDialog, Reset, Edit
  <1>2. CASE GenerateKey \/ ImportKey \/ CopyPublicKey \/ ChooseFile
    BY <1>2 DEF GenerateKey, ImportKey, CopyPublicKey, ChooseFile
  <1>3. CASE Accept \/ Reject
    BY <1>3 DEF Accept, Reject, FinishAccept, Hide
  <1>4. CASE TrustCheckButton \/ RunTrustCheck \/ Dismiss
    BY <1>4 DEF TrustCheckButton, RunTrustCheck, Dismiss, HandlerReturns
  <1>5. CASE ConfirmExposure \/ DiscardEdits
    BY <1>5 DEF ConfirmExposure, FinishAccept, DiscardEdits, Hide
  <1>6. CASE TrustKey
    <2>1. Newest.key \in Keys \cup {NoKey}
      BY <1>6, NewestType DEF TrustKey, Boxes
    <2>2. knownHosts' \in [Servers -> Keys \cup {NoKey}]
      BY <1>6, <2>1 DEF TrustKey
    <2>. QED  BY <1>6, <2>2 DEF TrustKey, HandlerReturns, Hide
  <1>7. CASE ShowMenu \/ ToggleInMenu \/ ChangeOther
    BY <1>7 DEF ShowMenu, ToggleInMenu, AcceptWaits, ChangeOther
  <1>8. CASE UNCHANGED vars
    BY <1>8 DEF vars
  <1>. QED  BY <1>1, <1>2, <1>3, <1>4, <1>5, <1>6, <1>7, <1>8 DEF Next

\* A menu with the switch is only left beside a dialog that has just been opened.
LEMMA ToggledOnce ==
    ASSUME DialogInv, [Next]_vars, toggled'
    PROVE  menu' # "left"
  <1>1. CASE Stop \/ OpenDialog
    <2>1. OpenDialog => ~toggled
      BY FreeDialog DEF OpenDialog, Open
    <2>. QED  BY <1>1, <2>1 DEF Stop, OpenDialog, Forget, history
  <1>2. CASE ShowMenu \/ ToggleInMenu
    BY <1>2 DEF ShowMenu, ToggleInMenu
  <1>3. CASE \/ Start \/ Reset \/ (\E entry \in Entries : Edit(entry)) \/ GenerateKey
             \/ ImportKey \/ CopyPublicKey \/ ChooseFile \/ TrustCheckButton \/ RunTrustCheck
             \/ ChangeOther \/ UNCHANGED vars
    <2>1. UNCHANGED <<menu, history>>
      BY <1>3 DEF Start, Reset, Edit, GenerateKey, ImportKey, CopyPublicKey, ChooseFile,
                  TrustCheckButton, RunTrustCheck, ChangeOther, vars
    <2>. QED  BY <2>1 DEF history, DialogInv
  <1>4. CASE Accept \/ Reject \/ ConfirmExposure \/ TrustKey \/ DiscardEdits \/ Dismiss
    <2>1. UNCHANGED menu
      BY <1>4 DEF Accept, Reject, ConfirmExposure, TrustKey, DiscardEdits, Dismiss
    <2>2. toggled' = FALSE \/ UNCHANGED toggled
      BY <1>4 DEF Accept, Reject, ConfirmExposure, TrustKey, DiscardEdits, Dismiss,
                  FinishAccept, Hide, Forget, history
    <2>. QED  BY <2>1, <2>2 DEF DialogInv
  <1>. QED  BY <1>1, <1>2, <1>3, <1>4 DEF Next

LEMMA InitDialog == Init => DialogInv
  BY InitTypes, InitMenu DEF Init, DialogInv, QuestionsAreAboutEdits

LEMMA StepDialog == DialogInv /\ [Next]_vars => DialogInv'
  <1>. SUFFICES ASSUME DialogInv, [Next]_vars PROVE DialogInv'
    OBVIOUS
  <1>1. CASE Next
    <2>1. DialogStep
      BY <1>1, AcceptStep, RejectStep, AnswerStep, CheckStep, FieldStep, ToggleStep, OtherStep
         DEF Next
    <2>2. TypeOK'
      BY <2>1, RestType DEF TypeOK, DialogStep, DialogInv
    <2>. QED  BY <2>1, <2>2, StepMenu, ToggledOnce DEF DialogInv, DialogStep
  <1>2. CASE UNCHANGED vars
    BY <1>2
       DEF vars, store, dialog, history, DialogInv, TypeOK, MenuIsAlone, AcceptWaits,
           QuestionsAreAboutEdits, ComparedWith, IsValid, ProxyAddressesConflict,
           BecomesExposed, HostBecomesExposed
  <1>. QED  BY <1>1, <1>2

LEMMA DialogInvariance == Spec => []DialogInv
  BY InitDialog, StepDialog, PTL DEF Spec

\* However the check of the button and the handlers of the dialog nest, what a
\* handler asked about is what it will save.
THEOREM QuestionsStayTrue == Spec => []QuestionsAreAboutEdits
  BY DialogInvariance, PTL DEF DialogInv

-----------------------------------------------------------------------------
(* What hides the dialog *)

Hides == visible /\ ~visible' /\ running'

LEMMA HidingSteps ==
    ASSUME [Next]_vars, Hides
    PROVE  Accept \/ Reject \/ ConfirmExposure \/ TrustKey \/ DiscardEdits
  <1>1. ~(Start \/ Stop \/ OpenDialog \/ ToggleInMenu)
    BY DEF Hides, Start, Stop, OpenDialog, Open, ToggleInMenu, dialog
  <1>2. ~(\/ Reset \/ (\E entry \in Entries : Edit(entry))
          \/ GenerateKey \/ ImportKey \/ CopyPublicKey \/ ChooseFile)
    BY DEF Hides, Reset, Edit, GenerateKey, ImportKey, CopyPublicKey, ChooseFile, dialog
  <1>3. ~(TrustCheckButton \/ RunTrustCheck \/ Dismiss \/ ShowMenu \/ ChangeOther)
    BY DEF Hides, TrustCheckButton, RunTrustCheck, Dismiss, ShowMenu, ChangeOther, dialog
  <1>4. ~UNCHANGED vars
    BY DEF Hides, vars, dialog
  <1>. QED  BY <1>1, <1>2, <1>3, <1>4 DEF Next

\* The ways to hide the dialog: with all questions answered, or leaving the fields.
LEMMA HidingEnds ==
    ASSUME DialogInv, [Next]_vars, Hides
    PROVE  \/ /\ values' = edits /\ IsValid(edits)
              /\ edits.enabled => \/ knownHosts[edits.server] # NoKey
                                  \/ /\ boxes # <<>> /\ Newest.question = "unknown"
                                     /\ Newest.server = edits.server
              /\ BecomesExposed(ComparedWith, edits) =>
                    \/ agreed = edits
                    \/ boxes # <<>> /\ Newest.question = "exposure"
           \/ values' = values /\ edits = values
           \/ values' = values /\ boxes # <<>> /\ Newest.question = "discard"
  <1>0. TypeOK
    BY DEF DialogInv
  <1>1. ASSUME NEW waiting, NEW agreement, FinishAccept(waiting, agreement)
        PROVE  values' = edits /\ (edits.enabled => knownHosts[edits.server] # NoKey)
    BY <1>1 DEF FinishAccept, Hide, SetTunnelSettings, Hides, dialog
  <1>2. CASE Accept
    <2>1. /\ IsValid(edits) /\ ~BecomesExposed(values, edits)
          /\ FinishAccept(boxes, Defaults)
      BY <1>2 DEF Accept, Hides, dialog
    <2>2. ComparedWith = values
      BY <1>2, FreeDialog DEF Accept, ComparedWith
    <2>. QED  BY <1>1, <2>1, <2>2
  <1>3. CASE Reject
    BY <1>3 DEF Reject, Hides, Hide, SetTunnelSettings, dialog
  <1>4. CASE ConfirmExposure
    <2>1. BoxIsUsable /\ Newest.question = "exposure" /\ Newest.handler # "check"
      BY <1>0, <1>4, NewestType DEF ConfirmExposure, Boxes
    <2>2. IsValid(edits) /\ FinishAccept(Older, edits) /\ boxes # <<>>
      BY <1>4, <2>1, OthersAreChecks DEF ConfirmExposure, BoxIsUsable
    <2>. QED  BY <1>1, <2>1, <2>2
  <1>5. CASE TrustKey
    <2>1. BoxIsUsable /\ Newest.handler = "accept" /\ Hide(edits)
      BY <1>5 DEF TrustKey, Hides, dialog
    <2>2. boxes # <<>> /\ Newest.question = "unknown"
      BY <1>0, <1>5, <2>1, NewestType DEF TrustKey, Boxes, BoxIsUsable
    <2>3. /\ IsValid(edits) /\ Newest.server = edits.server
          /\ BecomesExposed(ComparedWith, edits) => agreed = edits
      BY <2>1, <2>2, OthersAreChecks
    <2>. QED  BY <2>1, <2>2, <2>3 DEF Hide, SetTunnelSettings
  <1>6. CASE DiscardEdits
    BY <1>6 DEF DiscardEdits, BoxIsUsable, Hide, SetTunnelSettings
  <1>. QED  BY <1>2, <1>3, <1>4, <1>5, <1>6, HidingSteps

\* What the dialog saves was validated, confirmed and accepted, all of it for the
\* settings that are saved.
THEOREM SavedWhatWasAgreed == Spec => SavedAsAgreed
  <1>. DEFINE Agreed ==
          (visible /\ ~visible' /\ running' /\ values' # values) =>
             /\ values' = edits /\ IsValid(edits)
             /\ edits.enabled => \/ knownHosts[edits.server] # NoKey
                                 \/ /\ boxes # <<>> /\ Newest.question = "unknown"
                                    /\ Newest.server = edits.server
             /\ BecomesExposed(ComparedWith, edits) =>
                   \/ agreed = edits
                   \/ boxes # <<>> /\ Newest.question = "exposure"
  <1>1. DialogInv /\ [Next]_vars => Agreed
    BY HidingEnds DEF Hides
  <1>2. DialogInv /\ [Next]_vars => [Agreed]_vars
    BY <1>1
  <1>. HIDE DEF Agreed
  <1>3. Spec => [][Agreed]_vars
    BY <1>2, DialogInvariance, PTL DEF Spec
  <1>. QED  BY <1>3 DEF Agreed, SavedAsAgreed

\* Fields that were edited are never dropped without the question whether to.
THEOREM EditsAreKept == Spec => EditsAreNotLost
  <1>. DEFINE Kept ==
          (visible /\ ~visible' /\ running' /\ values' # edits) =>
             boxes # <<>> /\ Newest.question = "discard"
  <1>1. DialogInv /\ [Next]_vars => Kept
    BY HidingEnds DEF Hides
  <1>2. DialogInv /\ [Next]_vars => [Kept]_vars
    BY <1>1
  <1>. HIDE DEF Kept
  <1>3. Spec => [][Kept]_vars
    BY <1>2, DialogInvariance, PTL DEF Spec
  <1>. QED  BY <1>3 DEF Kept, EditsAreNotLost
=============================================================================
