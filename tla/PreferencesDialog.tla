------------------------- MODULE PreferencesDialog -------------------------
(***************************************************************************)
(* Class PreferencesDialog: the fields are edited, and saved after they    *)
(* were validated, their exposure was confirmed and the key of the server  *)
(* was accepted.  Each question is a message box with an event loop of its *)
(* own, inside the handler that asks it: the check that the Trust Check    *)
(* button starts 50 ms later may run inside accept or reject, and the      *)
(* handlers end in the reverse order.  Meanwhile the menu of the tray      *)
(* stays outside the boxes, and changes the settings too.                  *)
(***************************************************************************)
EXTENDS Preferences, Sequences, SequencesExt

CONSTANTS
    Keys, NoKey,        \* host keys
    Entries             \* what the user enters in the fields

ASSUME DialogAssumption ==
    /\ NoKey \notin Keys
    /\ Entries \subseteq TunnelSettings

VARIABLES
    running,            \* the application runs
    visible,            \* the dialog is
    edits,              \* the fields of the dialog
    boxes,              \* message boxes, the newest one last
    under,              \* how many of them are older than the dialog is visible
    trustCheck,         \* the button's check: "idle", "delayed" or "asking"
    menu,               \* of the tray: "hidden", "offered" with its switch, "left"
                        \* open with it when the dialog appeared, or "plain"
    knownHosts,         \* the key in the known hosts file of each server
    agreed,             \* history: the settings whose exposure accept has confirmed
    toggled             \* history: the menu toggled what accept has compared with

dialog == <<visible, edits, under>>
history == <<agreed, toggled>>
vars == <<store, dialog, running, boxes, trustCheck, menu, knownHosts, history>>

\* A box, the handler that waits for its answer, and what the box is about
Box(handler, question, server, key) ==
    [handler |-> handler, question |-> question, server |-> server, key |-> key]
Notice(handler) == Box(handler, "notice", NoServer, NoKey)

\* A visible dialog is blocked by the boxes that are newer, and blocks the others.
DialogIsUsable == running /\ visible /\ Len(boxes) = under
BoxIsUsable == boxes # <<>> /\ (visible => Len(boxes) > under)

\* Which handler asks what: the dialog's own, the check, or one of those that
\* generate, import and copy the key.
Boxes ==
    {box \in [handler : {"accept", "reject", "check", "key"},
              question : {"notice", "exposure", "unknown", "changed", "discard", "file"},
              server : Servers \cup {NoServer},
              key : Keys \cup {NoKey}] :
        /\ box.question = "exposure" => box.handler = "accept"
        /\ box.question = "unknown" => box.handler \in {"accept", "check"}
        /\ box.question = "changed" => box.handler = "check"
        /\ box.question = "discard" => box.handler = "reject"
        /\ box.question = "file" => box.handler = "key"}

TypeOK ==
    /\ {values, file, edits, agreed} \subseteq TunnelSettings
    /\ running \in BOOLEAN /\ visible \in BOOLEAN
    /\ boxes \in Seq(Boxes) /\ under \in Nat
    /\ trustCheck \in {"idle", "delayed", "asking"}
    /\ menu \in {"hidden", "offered", "left", "plain"}
    /\ toggled \in BOOLEAN
    /\ knownHosts \in [Servers -> Keys \cup {NoKey}]

-----------------------------------------------------------------------------
Init ==
    /\ values = Defaults /\ file = Defaults
    /\ running = FALSE /\ visible = FALSE /\ edits = Defaults
    /\ boxes = <<>> /\ under = 0
    /\ trustCheck = "idle" /\ menu = "hidden"
    /\ knownHosts = [server \in Servers |-> NoKey]
    /\ agreed = Defaults /\ toggled = FALSE

Forget == agreed' = Defaults /\ toggled' = FALSE

Start ==
    /\ ~running /\ running' = TRUE
    /\ Load
    /\ UNCHANGED <<dialog, boxes, trustCheck, menu, knownHosts, history>>

\* The application ends, or crashes, with whatever is open and not saved.
Stop ==
    /\ running /\ running' = FALSE
    /\ values' = Defaults /\ UNCHANGED file
    /\ visible' = FALSE /\ edits' = Defaults
    /\ boxes' = <<>> /\ under' = 0
    /\ trustCheck' = "idle" /\ menu' = "hidden"
    /\ Forget
    /\ UNCHANGED knownHosts

\* open() of a hidden dialog resets it first; a visible one is only raised.
Open ==
    /\ ~visible /\ visible' = TRUE
    /\ edits' = values
    /\ under' = Len(boxes)

\* An open menu may close, or stay with the switch it was shown with: the dialog is
\* also opened by an instance that is started, and menus drawn by a panel stay.
OpenDialog ==
    /\ running /\ Open
    /\ menu' \in {"hidden", IF menu = "offered" THEN "left" ELSE menu}
    /\ UNCHANGED <<store, running, boxes, trustCheck, knownHosts, history>>

EditBehindBoxes(entry) ==   \* mutant
    /\ running /\ visible
    /\ edits' = entry
    /\ UNCHANGED <<store, visible, under, running, boxes, trustCheck, menu, knownHosts, history>>
Edit(entry) ==
    /\ DialogIsUsable
    /\ edits' = entry
    /\ UNCHANGED <<store, visible, under, running, boxes, trustCheck, menu, knownHosts, history>>

Reset == Edit(values)

\* Hidden by accept or reject: hideEvent saves the geometry.
Hide(settings) ==
    /\ visible' = FALSE
    /\ SetTunnelSettings(settings)
    /\ Forget
    /\ UNCHANGED <<edits, under>>

-----------------------------------------------------------------------------
(* runTrustCheck: the probe blocks the event loop until it is over.  It     *)
(* finds any key: a server may be installed again, with another one.        *)

\* The probe failed, or there is no ssh to make it with.
ProbeFails(handler, waiting) == boxes' = Append(waiting, Notice(handler))

AskAboutKey(handler, question, key, waiting) ==
    boxes' = Append(waiting, Box(handler, question, edits.server, key))

\* accept() after its other questions: a known server is not probed again.
FinishUntrusted(waiting, agreement) ==   \* mutant
    Hide(edits) /\ boxes' = waiting
FinishAccept(waiting, agreement) ==
    IF edits.enabled /\ knownHosts[edits.server] = NoKey
    THEN /\ \/ ProbeFails("accept", waiting)
            \/ \E key \in Keys : AskAboutKey("accept", "unknown", key, waiting)
         /\ agreed' = agreement
         /\ UNCHANGED <<store, dialog, toggled>>
    ELSE /\ Hide(edits)
         /\ boxes' = waiting

\* The button: the check runs later, with the fields of that moment.
TrustCheckButton ==
    /\ DialogIsUsable /\ trustCheck = "idle"
    /\ trustCheck' = "delayed"
    /\ UNCHANGED <<store, dialog, running, boxes, menu, knownHosts, history>>

RunTrustCheck ==
    /\ running /\ trustCheck = "delayed"
    /\ trustCheck' = "asking"
    /\ \/ ProbeFails("check", boxes)
       \/ \E key \in Keys :
             /\ edits.server \in Servers
             /\ CASE knownHosts[edits.server] = NoKey ->
                       AskAboutKey("check", "unknown", key, boxes)
                  [] knownHosts[edits.server] = key ->
                       boxes' = Append(boxes, Notice("check"))
                  [] OTHER -> AskAboutKey("check", "changed", key, boxes)
    /\ UNCHANGED <<store, dialog, running, menu, knownHosts, history>>

-----------------------------------------------------------------------------
(* accept and reject *)

Accept ==
    /\ DialogIsUsable
    /\ CASE ~IsValid(edits) ->
              /\ boxes' = Append(boxes, Notice("accept"))
              /\ UNCHANGED <<store, dialog, history>>
         [] IsValid(edits) /\ BecomesExposed(values, edits) ->
              /\ boxes' = Append(boxes, Box("accept", "exposure", NoServer, NoKey))
              /\ UNCHANGED <<store, dialog, history>>
         [] OTHER -> FinishAccept(boxes, Defaults)
    /\ UNCHANGED <<running, trustCheck, menu, knownHosts>>

RejectAtOnce ==   \* mutant
    /\ DialogIsUsable
    /\ Hide(values)
    /\ UNCHANGED <<boxes, running, trustCheck, menu, knownHosts>>
Reject ==
    /\ DialogIsUsable
    /\ IF edits # values
       THEN /\ boxes' = Append(boxes, Box("reject", "discard", NoServer, NoKey))
            /\ UNCHANGED <<store, dialog, history>>
       ELSE Hide(values) /\ UNCHANGED boxes
    /\ UNCHANGED <<running, trustCheck, menu, knownHosts>>

\* generateSshPrivateKey: a failure of ssh-keygen leaves an empty field.
GenerateKey ==
    /\ DialogIsUsable
    /\ \/ boxes' = Append(boxes, Notice("key")) /\ UNCHANGED edits
       \/ /\ \E key \in {"valid", "none"} : edits' = [edits EXCEPT !.key = key]
          /\ UNCHANGED boxes
    /\ UNCHANGED <<store, visible, under, running, trustCheck, menu, knownHosts, history>>

\* importSshPrivateKey asks for a file.
ImportKey ==
    /\ DialogIsUsable
    /\ boxes' = Append(boxes, Box("key", "file", NoServer, NoKey))
    /\ UNCHANGED <<store, dialog, running, trustCheck, menu, knownHosts, history>>

\* copySshPublicKey of a key that is encrypted or invalid, or without ssh-keygen
CopyPublicKey ==
    /\ DialogIsUsable
    /\ boxes' = Append(boxes, Notice("key"))
    /\ UNCHANGED <<store, dialog, running, trustCheck, menu, knownHosts, history>>

-----------------------------------------------------------------------------
(* The answers *)

Newest == boxes[Len(boxes)]
Older == Front(boxes)

\* The handler that asked returns; the button can be clicked again.
HandlerReturns(box) == trustCheck' = IF box.handler = "check" THEN "idle" ELSE trustCheck

\* No, or the only button of a notice
Dismiss ==
    /\ BoxIsUsable
    /\ boxes' = Older
    /\ HandlerReturns(Newest)
    /\ IF Newest.handler = "accept" THEN Forget ELSE UNCHANGED history
    /\ UNCHANGED <<store, dialog, running, menu, knownHosts>>

ConfirmExposure ==
    /\ BoxIsUsable /\ Newest.question = "exposure"
    /\ FinishAccept(Older, edits)
    /\ UNCHANGED <<running, trustCheck, menu, knownHosts>>

\* The result of setKnownHostRecord is not looked at: the file may be unwritable.
TrustKey ==
    /\ BoxIsUsable /\ Newest.question \in {"unknown", "changed"}
    /\ \/ knownHosts' = [knownHosts EXCEPT ![Newest.server] = Newest.key]
       \/ UNCHANGED knownHosts
    /\ boxes' = Older
    /\ HandlerReturns(Newest)
    /\ IF Newest.handler = "accept" THEN Hide(edits)
       ELSE UNCHANGED <<store, dialog, history>>
    /\ UNCHANGED <<running, menu>>

DiscardEdits ==
    /\ BoxIsUsable /\ Newest.question = "discard"
    /\ boxes' = Older
    /\ Hide(values)
    /\ UNCHANGED <<running, trustCheck, menu, knownHosts>>

\* A file was chosen: the key is replaced, or the file has no usable one.
ChooseFile ==
    /\ BoxIsUsable /\ Newest.question = "file"
    /\ SetOther
    /\ \/ boxes' = Older /\ edits' = [edits EXCEPT !.key = "valid"]
       \/ boxes' = Append(Older, Notice("key")) /\ UNCHANGED edits
    /\ UNCHANGED <<visible, under, running, trustCheck, menu, knownHosts, history>>

-----------------------------------------------------------------------------
(* Around the dialog *)

\* aboutToShow: the switch is not offered next to a visible dialog.
ShowMenuAlways ==   \* mutant
    /\ running
    /\ menu' = "offered"
    /\ UNCHANGED <<store, dialog, running, boxes, trustCheck, knownHosts, history>>
ShowMenu ==
    /\ running
    /\ menu' = IF visible THEN "plain" ELSE "offered"
    /\ UNCHANGED <<store, dialog, running, boxes, trustCheck, knownHosts, history>>

AcceptWaits == \E i \in DOMAIN boxes : boxes[i].handler = "accept"

\* setTunnelEnabled: a tunnel that was never configured opens the preferences.
ToggleInMenu ==
    /\ running /\ menu \in {"offered", "left"}
    /\ menu' = "hidden"
    /\ IF ~values.enabled /\ ~IsConfigured(values)
       THEN /\ UNCHANGED <<store, history>>
            /\ IF visible THEN UNCHANGED dialog ELSE Open
       ELSE /\ SetTunnelSettings([values EXCEPT !.enabled = ~@])
            /\ toggled' = AcceptWaits
            /\ UNCHANGED <<dialog, agreed>>
    /\ UNCHANGED <<running, boxes, trustCheck, knownHosts>>

ChangeOther ==
    /\ running /\ SetOther
    /\ UNCHANGED <<dialog, running, boxes, trustCheck, menu, knownHosts, history>>

Next ==
    \/ Start \/ Stop
    \/ OpenDialog \/ Reset \/ Accept \/ Reject
    \/ GenerateKey \/ ImportKey \/ CopyPublicKey
    \/ \E entry \in Entries : Edit(entry)
    \/ TrustCheckButton \/ RunTrustCheck
    \/ Dismiss \/ ConfirmExposure \/ TrustKey \/ DiscardEdits \/ ChooseFile
    \/ ShowMenu \/ ToggleInMenu \/ ChangeOther

Spec == Init /\ [][Next]_vars

-----------------------------------------------------------------------------
\* What accept compared the fields with: the settings before the menu toggled them.
ComparedWith == IF toggled THEN [values EXCEPT !.enabled = ~@] ELSE values

\* While accept or reject waits for an answer, the fields stay as they were when
\* it asked, whatever the check of the button asks above: the fields are valid,
\* the server is the one of the question, and there is no second such handler.
QuestionsAreAboutEdits ==
    \A i \in DOMAIN boxes :
        LET box == boxes[i]
        IN  box.handler # "check" =>
                /\ visible /\ i > under
                /\ \A j \in DOMAIN boxes : boxes[j].handler = "check" \/ j = i
                /\ box.question \in {"exposure", "unknown"} => IsValid(edits)
                /\ box.question = "exposure" => BecomesExposed(ComparedWith, edits)
                /\ box.question = "unknown" =>
                      /\ edits.enabled /\ box.server = edits.server
                      /\ BecomesExposed(ComparedWith, edits) => agreed = edits

\* The dialog saves what it shows: valid settings, of a server whose key is
\* recorded or was accepted just now, with their exposure confirmed for these
\* very settings.
SavedAsAgreed ==
    [][(visible /\ ~visible' /\ running' /\ values' # values) =>
          /\ values' = edits /\ IsValid(edits)
          /\ edits.enabled => \/ knownHosts[edits.server] # NoKey
                              \/ /\ boxes # <<>> /\ Newest.question = "unknown"
                                 /\ Newest.server = edits.server
          /\ BecomesExposed(ComparedWith, edits) =>
                \/ agreed = edits
                \/ boxes # <<>> /\ Newest.question = "exposure"]_vars

\* "The dialog would overwrite the state toggled in the menu when saved, so it's
\* toggled in one place at a time": behind a dialog that stays visible the settings
\* change at most once, by the switch of a menu that was open before it; that menu
\* closes, and no menu shown later has the switch.
ToggledInOnePlace ==
    [][(visible /\ visible') =>
          /\ values' # values => menu = "left" /\ menu' = "hidden"
          /\ menu' = "left" => menu = "left"]_vars

\* Fields that differ from the settings are only left behind by a user who said so.
EditsAreNotLost ==
    [][(visible /\ ~visible' /\ running' /\ values' # edits) =>
          boxes # <<>> /\ Newest.question = "discard"]_vars
=============================================================================
