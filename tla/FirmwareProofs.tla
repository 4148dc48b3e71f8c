---------------------------- MODULE FirmwareProofs ----------------------------
(***************************************************************************)
(* Proofs about the start and the update: whenever the power is cut, the   *)
(* slot that the bootloader prefers holds a whole image.                   *)
(***************************************************************************)
EXTENDS FirmwareUpdate, TLAPS

\* A slot that is trusted: nothing will take it back.
Trusted(s) == img_state[s] \in {"undefined", "valid"}

\* The slot chosen last is whole, unless its image was given up.  The other one
\* is trusted, and whole as long as it may be needed: until the chosen image has
\* proved itself.
Slots ==
    /\ ~rollback => \A s \in OtaSlots : img_state[s] = "undefined"
    /\ Trusted(Other(boot_slot))
    /\ img_state[boot_slot] # "aborted" => slot[boot_slot] # Blank
    /\ ~Trusted(boot_slot) => slot[Other(boot_slot)] # Blank

\* The slot that runs is the chosen one, or the other if that was given up; once
\* an upload has chosen a slot, it is the other and whole.  An upload runs from a
\* slot that is trusted.
Running ==
    /\ running # None /\ ~(upload # None /\ upload.phase = "chosen") =>
         /\ running = IF img_state[boot_slot] = "aborted"
                      THEN Other(boot_slot) ELSE boot_slot
         /\ img_state[boot_slot] # "new"
    /\ upload # None =>
         /\ Trusted(running)
         /\ upload.phase = "written" => slot[Other(running)] # Blank
         /\ upload.phase = "chosen" =>
              running = Other(boot_slot) /\ slot[running] # Blank

FlashInv == TypeOK /\ Slots /\ Running

-----------------------------------------------------------------------------
(* Types *)

USE ImagesAssumption DEF OtaSlots, Blobs

LEMMA OtherSlot == \A s \in OtaSlots :
    Other(s) \in OtaSlots /\ Other(s) # s /\ Other(Other(s)) = s
                         /\ \A t \in OtaSlots : t = s \/ t = Other(s)
BY DEF Other

\* What is known of an image after it was judged.
ImgStates == {"undefined", "new", "pending", "valid", "aborted"}

LEMMA BootloaderType ==
    ASSUME TypeOK
    PROVE  /\ Preferred \in OtaSlots /\ Bootable \in OtaSlots
           /\ \A s \in OtaSlots : Judged(s) \in ImgStates
<1> USE DEF TypeOK, ImgStates
<1>1. \A s \in OtaSlots : Judged(s) \in ImgStates
  BY DEF Judged
<1>2. Preferred \in OtaSlots
  BY OtherSlot DEF Preferred
<1>3. Bootable \in OtaSlots
  BY <1>2, OtherSlot DEF Bootable
<1> QED BY <1>1, <1>2, <1>3

LEMMA TypeInit == Init => TypeOK
<1> SUFFICES ASSUME Init PROVE TypeOK
  OBVIOUS
<1>1. Defaults \in Fields
  BY DEF Defaults, Fields, Values
<1>2. /\ slot \in [OtaSlots -> Images \cup {Blank}]
      /\ img_state \in [OtaSlots -> ImgStates]
  BY DEF Init, ImgStates
<1>3. /\ rollback \in BOOLEAN /\ ap \in BOOLEAN /\ connected \in BOOLEAN
      /\ strayed \in BOOLEAN /\ erased \in BOOLEAN /\ ~connected
  BY DEF Init
<1>4. /\ boot_slot \in OtaSlots /\ settings = Defaults /\ chosen = Defaults
      /\ step = "off" /\ sta = "off"
      /\ running = None /\ upload = None /\ blob = None
  BY DEF Init
<1> QED BY <1>1, <1>2, <1>3, <1>4 DEF TypeOK, ImgStates

\* Each operation keeps every type.
LEMMA TypeStep == TypeOK /\ RunningImageWhole /\ [Next]_vars => TypeOK'
<1> SUFFICES ASSUME TypeOK, RunningImageWhole, [Next]_vars PROVE TypeOK'
  OBVIOUS
<1> USE DEF flash, otadata, wifi, history
<1>0. Defaults \in Fields
  BY DEF Defaults, Fields, Values
<1>1. CASE Bootloader
  <2>1. running' \in OtaSlots /\ running' # None
    BY <1>1, BootloaderType DEF Bootloader
  <2>2. img_state' \in [OtaSlots -> ImgStates]
    BY <1>1, BootloaderType DEF Bootloader, ImgStates
  <2> QED BY <1>1, <2>1, <2>2 DEF Bootloader, TypeOK, ImgStates
<1>2. CASE Confirm
  <2>1. img_state' \in [OtaSlots -> ImgStates] /\ strayed' \in BOOLEAN
    BY <1>2 DEF Confirm, TypeOK, ImgStates
  <2>2. UNCHANGED <<slot, boot_slot, blob, running, settings, upload, ap, rollback,
                    chosen, erased>>
        /\ step' = "wifi" /\ sta' = "connecting" /\ connected' = FALSE
        /\ step = "start"
    BY <1>2 DEF Confirm
  <2> QED BY <2>1, <2>2 DEF TypeOK, ImgStates
<1>3. CASE StartServices
  <2>1. Load(Image) \in Fields
    <3>1. CASE blob = None
      BY <1>0, <3>1 DEF Load
    <3>2. CASE blob # None
      <4>1. blob.fields \in Fields
        BY <3>2 DEF TypeOK
      <4>2. [blob.fields EXCEPT !.tail = Defaults.tail] \in Fields
        BY <4>1, <1>0 DEF Fields
      <4> QED BY <1>0, <4>1, <4>2 DEF Load
    <3> QED BY <3>1, <3>2
  <2> QED BY <1>3, <2>1 DEF StartServices, TypeOK
<1>4. CASE Dies \/ PowerCut \/ Restart
  BY <1>0, <1>4 DEF Dies, PowerCut, Restart, Reset, TypeOK
<1>5. CASE Associated \/ GotIp \/ Disconnected \/ RouterToggles \/ LostIp
  <2>1. UNCHANGED <<slot, boot_slot, img_state, blob, step, running, settings, upload,
                    rollback, chosen, strayed, erased>>
    BY <1>5 DEF Associated, GotIp, Disconnected, RouterToggles, LostIp, wifiOnly
  <2>2. /\ sta' \in {"off", "connecting", "linked"}
        /\ connected' => sta' = "linked"
    BY <1>5 DEF Associated, GotIp, Disconnected, RouterToggles, LostIp, wifiOnly, TypeOK
  <2>3. ap' \in BOOLEAN
    BY <1>5 DEF Associated, GotIp, Disconnected, RouterToggles, LostIp, TypeOK
  <2>4. connected' \in BOOLEAN
    BY <1>5 DEF Associated, GotIp, Disconnected, RouterToggles, LostIp, TypeOK
  <2> QED BY <2>1, <2>2, <2>3, <2>4 DEF TypeOK
<1>6. CASE UploadBegins
  <2>1. UNCHANGED <<boot_slot, img_state, blob, step, running, settings, ap, sta,
                    connected, rollback, chosen, strayed, erased>> /\ step = "serve"
    BY <1>6 DEF UploadBegins, uploadOnly
  <2>2. slot' \in [OtaSlots -> Images \cup {Blank}]
    BY <1>6 DEF UploadBegins, TypeOK
  <2>3. upload' \in Uploads
    BY <1>6 DEF UploadBegins, Uploads
  <2> QED BY <2>1, <2>2, <2>3 DEF TypeOK
<1>7. CASE UploadFails
  BY <1>7 DEF UploadFails, uploadOnly, TypeOK
<1>8. CASE UploadEnds \/ SetBoot
  <2>1. UNCHANGED <<blob, step, running, settings, ap, sta, connected, rollback,
                    chosen, erased>> /\ step = "serve" /\ running \in OtaSlots
    BY <1>8 DEF UploadEnds, SetBoot, Phase, uploadOnly, TypeOK
  <2>2. upload \in Uploads /\ upload' \in Uploads
    BY <1>8 DEF UploadEnds, SetBoot, Phase, Goes, TypeOK, Uploads
  <2>3. slot' \in [OtaSlots -> Images \cup {Blank}]
    BY <1>8, <2>2 DEF UploadEnds, SetBoot, TypeOK, Uploads
  <2>4. boot_slot' \in OtaSlots /\ strayed' \in BOOLEAN
    BY <1>8, <2>1, OtherSlot DEF UploadEnds, SetBoot, TypeOK
  <2>5. img_state' \in [OtaSlots -> ImgStates]
    BY <1>8 DEF UploadEnds, SetBoot, TypeOK, ImgStates
  <2> QED BY <2>1, <2>2, <2>3, <2>4, <2>5 DEF TypeOK, ImgStates
<1>9. CASE ChangeSettings
  <2>1. PICK new \in Fields :
          /\ settings' = new /\ chosen' = new
          /\ blob' = [layout |-> Layout[Image], fields |-> new]
    BY <1>9 DEF ChangeSettings
  <2>2. /\ step = "serve" /\ running \in OtaSlots
        /\ Layout[Image] \in {1, 2}
    BY <1>9 DEF ChangeSettings, TypeOK, RunningImageWhole, Image
  <2>3. UNCHANGED <<slot, boot_slot, img_state, step, running, upload, ap, sta,
                    connected, rollback>> /\ strayed' \in BOOLEAN /\ erased' = FALSE
    BY <1>9 DEF ChangeSettings, TypeOK
  <2> QED BY <2>1, <2>2, <2>3 DEF TypeOK
<1>10. CASE UNCHANGED vars
  BY <1>10 DEF vars, TypeOK
<1>11. CASE OpenNvs
  BY <1>11 DEF OpenNvs, TypeOK
<1> QED BY <1>1, <1>2, <1>3, <1>4, <1>5, <1>6, <1>7, <1>8, <1>9, <1>10, <1>11
        DEF Next, Start, Wifi, Upload

-----------------------------------------------------------------------------
(* The slots *)

\* What runs is whole, and so is what the bootloader prefers: it never has to
\* fall back on the other slot.
LEMMA InvGivesBoot == FlashInv => AlwaysBootable /\ RunningImageWhole
<1> SUFFICES ASSUME FlashInv PROVE AlwaysBootable /\ RunningImageWhole
  OBVIOUS
<1> USE DEF FlashInv, TypeOK, Slots, Running, Trusted
<1>1. \A s \in OtaSlots : Other(s) \in OtaSlots
  BY OtherSlot
<1>2. AlwaysBootable
  <2>1. Preferred = boot_slot \/ Preferred = Other(boot_slot)
    BY DEF Preferred, Judged
  <2>2. Preferred = boot_slot => img_state[boot_slot] # "aborted"
    BY OtherSlot DEF Preferred, Judged
  <2>3. Preferred = Other(boot_slot) => ~Trusted(boot_slot)
    BY OtherSlot DEF Preferred, Judged
  <2> QED BY <2>1, <2>2, <2>3 DEF AlwaysBootable
<1>3. RunningImageWhole
  BY OtherSlot DEF RunningImageWhole, Uploads
<1> QED BY <1>2, <1>3

LEMMA FlashInit == Init => Slots /\ Running
<1> SUFFICES ASSUME Init PROVE Slots /\ Running
  OBVIOUS
<1>1. /\ boot_slot = 0 /\ img_state = [s \in OtaSlots |-> "undefined"]
      /\ slot[0] = Factory /\ running = None /\ upload = None
  BY DEF Init
<1> QED BY <1>1, OtherSlot DEF Slots, Running, Trusted

\* Steps that leave the slots and the otadata alone, and neither start nor go on
\* with an upload.
LEMMA FlashQuiet ==
    ASSUME FlashInv, UNCHANGED <<slot, boot_slot, img_state, rollback>>,
           \/ running' = running /\ (upload' = upload \/ upload' = None)
                /\ ~(upload # None /\ upload.phase = "chosen" /\ upload' = None)
           \/ running' = None /\ upload' = None
    PROVE  Slots' /\ Running'
BY DEF FlashInv, Slots, Running, Trusted

LEMMA FlashStep == FlashInv /\ [Next]_vars => Slots' /\ Running'
<1> SUFFICES ASSUME FlashInv, [Next]_vars PROVE Slots' /\ Running'
  OBVIOUS
<1>0. /\ TypeOK /\ boot_slot \in OtaSlots /\ Other(boot_slot) \in OtaSlots
      /\ AlwaysBootable /\ RunningImageWhole
  BY InvGivesBoot, OtherSlot DEF FlashInv, TypeOK
<1> USE DEF flash, otadata, wifi, history
<1>1. CASE Bootloader
  <2>1. Bootable = Preferred
    BY <1>0 DEF AlwaysBootable, Bootable
  <2>2. /\ running' = Preferred /\ UNCHANGED <<slot, boot_slot, rollback, upload>>
        /\ upload = None
        /\ img_state' = [s \in OtaSlots |->
                            IF s = Preferred /\ rollback /\ img_state[s] = "new"
                            THEN "pending" ELSE Judged(s)]
    BY <1>0, <1>1, <2>1 DEF Bootloader, TypeOK
  <2>3. Trusted(Other(boot_slot)) /\ Judged(Other(boot_slot)) = img_state[Other(boot_slot)]
    BY DEF FlashInv, Slots, Trusted, Judged
  <2>4. CASE rollback /\ img_state[boot_slot] \in {"pending", "aborted"}
    <3>1. Preferred = Other(boot_slot) /\ Judged(boot_slot) = "aborted"
      BY <2>3, <2>4 DEF Preferred, Judged, Trusted
    <3>2. /\ img_state'[boot_slot] = "aborted"
          /\ img_state'[Other(boot_slot)] = img_state[Other(boot_slot)]
      BY <1>0, <2>2, <2>3, <2>4, <3>1, OtherSlot DEF Trusted
    <3> QED BY <1>0, <2>2, <2>3, <2>4, <3>1, <3>2 DEF FlashInv, Slots, Running, Trusted
  <2>5. CASE ~(rollback /\ img_state[boot_slot] \in {"pending", "aborted"})
    <3>1. img_state[boot_slot] \notin {"pending", "aborted"}
      BY <1>0, <2>5 DEF FlashInv, Slots
    <3>2. Preferred = boot_slot /\ Judged(boot_slot) = img_state[boot_slot]
      BY <3>1 DEF Preferred, Judged
    <3>3. /\ img_state'[boot_slot] = IF rollback /\ img_state[boot_slot] = "new"
                                     THEN "pending" ELSE img_state[boot_slot]
          /\ img_state'[Other(boot_slot)] = img_state[Other(boot_slot)]
      BY <1>0, <2>2, <2>3, <3>2, OtherSlot
    <3>4. ~rollback => \A s \in OtaSlots : img_state'[s] = "undefined"
      BY <2>2 DEF FlashInv, Slots, Judged
    <3>5. img_state[boot_slot] = "new" => rollback
      BY <1>0 DEF FlashInv, Slots
    <3> QED BY <1>0, <2>2, <2>3, <3>1, <3>2, <3>3, <3>4, <3>5
            DEF FlashInv, Slots, Running, Trusted
  <2> QED BY <2>4, <2>5
<1>2. CASE Confirm
  <2>1. /\ UNCHANGED <<slot, boot_slot, running, upload, rollback>>
        /\ upload = None /\ running \in OtaSlots
        /\ img_state' = img_state
           \/ /\ img_state[running] = "pending"
              /\ img_state' = [img_state EXCEPT ![running] = "valid"]
    BY <1>0, <1>2 DEF Confirm, TypeOK
  <2>2. CASE img_state' = img_state
    BY <2>1, <2>2, FlashQuiet
  <2>3. CASE /\ img_state[running] = "pending"
             /\ img_state' = [img_state EXCEPT ![running] = "valid"]
    <3>1. running = boot_slot
      BY <2>1, <2>3, OtherSlot DEF FlashInv, Slots, Running, Trusted
    <3>2. /\ img_state'[boot_slot] = "valid"
          /\ img_state'[Other(boot_slot)] = img_state[Other(boot_slot)]
      BY <1>0, <2>3, <3>1, OtherSlot DEF TypeOK
    <3>3. rollback
      BY <1>0, <2>1, <2>3 DEF FlashInv, Slots
    <3> QED BY <1>0, <2>1, <2>3, <3>1, <3>2, <3>3 DEF FlashInv, Slots, Running, Trusted
  <2> QED BY <2>1, <2>2, <2>3
<1>3. CASE OpenNvs \/ StartServices \/ ChangeSettings
  BY <1>3, FlashQuiet DEF OpenNvs, StartServices, ChangeSettings
<1>4. CASE Dies \/ PowerCut \/ Restart
  BY <1>4, FlashQuiet DEF Dies, PowerCut, Restart, Reset
<1>5. CASE Associated \/ GotIp \/ Disconnected \/ RouterToggles \/ LostIp
  BY <1>5, FlashQuiet DEF Associated, GotIp, Disconnected, RouterToggles, LostIp, wifiOnly
<1>6. CASE UploadBegins
  <2>1. /\ running \in OtaSlots /\ running # None /\ upload = None
        /\ UNCHANGED <<boot_slot, img_state, running, rollback>>
        /\ ~(rollback /\ img_state[running] = "pending")
        /\ slot' = [slot EXCEPT ![Other(running)] = Blank]
    BY <1>0, <1>6 DEF UploadBegins, uploadOnly, TypeOK
  <2>2. upload'.phase = "write"
    BY <1>6 DEF UploadBegins
  <2>3. Trusted(running)
    BY <1>0, <2>1, OtherSlot DEF FlashInv, Slots, Running, Trusted, TypeOK
  <2>4. CASE img_state[boot_slot] = "aborted"
    <3>1. running = Other(boot_slot) /\ slot'[Other(boot_slot)] = slot[Other(boot_slot)]
      BY <1>0, <2>1, <2>4, OtherSlot DEF FlashInv, Running, TypeOK
    <3> QED BY <2>1, <2>2, <2>3, <2>4, <3>1 DEF FlashInv, Slots, Running, Trusted
  <2>5. CASE img_state[boot_slot] # "aborted"
    <3>1. running = boot_slot /\ slot'[boot_slot] = slot[boot_slot]
      BY <1>0, <2>1, <2>5, OtherSlot DEF FlashInv, Running, TypeOK
    <3> QED BY <2>1, <2>2, <2>3, <2>5, <3>1 DEF FlashInv, Slots, Running, Trusted
  <2> QED BY <2>4, <2>5
<1>7. CASE UploadFails
  BY <1>7, FlashQuiet DEF UploadFails, Phase, uploadOnly
<1>8. CASE UploadEnds
  <2>1. /\ upload # None /\ upload \in Uploads /\ upload.phase = "write"
        /\ running \in OtaSlots /\ Other(running) \in OtaSlots /\ Trusted(running)
        /\ UNCHANGED <<boot_slot, img_state, running, rollback>>
        /\ slot' = [slot EXCEPT ![Other(running)] = upload.image]
        /\ upload' = [upload EXCEPT !.phase = "written"]
    BY <1>0, <1>8, OtherSlot
       DEF UploadEnds, Phase, Goes, uploadOnly, TypeOK, FlashInv, Running
  <2>2. upload.image # Blank /\ upload'.phase = "written"
    BY <2>1 DEF Uploads
  <2>3. \A s \in OtaSlots : slot[s] # Blank => slot'[s] # Blank
    BY <1>0, <2>1, <2>2 DEF TypeOK
  <2>4. slot'[Other(running)] # Blank
    BY <1>0, <2>1, <2>2 DEF TypeOK
  <2> QED BY <1>0, <2>1, <2>2, <2>3, <2>4 DEF FlashInv, Slots, Running, Trusted
<1>9. CASE SetBoot
  <2>1. /\ upload # None /\ upload \in Uploads /\ upload.phase = "written"
        /\ running \in OtaSlots /\ Trusted(running) /\ slot[Other(running)] # Blank
        /\ running # None
    BY <1>0, <1>9 DEF SetBoot, Phase, TypeOK, FlashInv, Running
  <2>2. /\ UNCHANGED <<slot, running, rollback>> /\ boot_slot' = Other(running)
        /\ upload' = [upload EXCEPT !.phase = "chosen"]
        /\ img_state' = [img_state EXCEPT ![Other(running)] =
                            IF rollback THEN "new" ELSE "undefined"]
    BY <1>9 DEF SetBoot, Goes, uploadOnly
  <2>3. /\ upload' \in Uploads /\ upload' # None /\ upload'.phase = "chosen"
    BY <2>1, <2>2 DEF Uploads
  <2>4. /\ Other(boot_slot') = running /\ running # Other(running)
        /\ img_state'[running] = img_state[running]
        /\ img_state'[Other(running)] = IF rollback THEN "new" ELSE "undefined"
    BY <1>0, <2>1, <2>2, OtherSlot DEF TypeOK
  <2>5. slot[running] # Blank
    BY <1>0, <2>1 DEF RunningImageWhole
  <2>6. ~rollback => \A s \in OtaSlots : img_state'[s] = "undefined"
    BY <1>0, <2>2 DEF FlashInv, Slots, TypeOK
  <2> QED BY <2>1, <2>2, <2>3, <2>4, <2>5, <2>6 DEF Slots, Running, Trusted
<1>10. CASE UNCHANGED vars
  BY <1>10, FlashQuiet DEF vars
<1> QED BY <1>1, <1>2, <1>3, <1>4, <1>5, <1>6, <1>7, <1>8, <1>9, <1>10
        DEF Next, Start, Wifi, Upload

\* FlashInv is inductive.
LEMMA FlashInvHolds == Spec => []FlashInv
<1>1. Init => FlashInv
  BY TypeInit, FlashInit DEF FlashInv
<1>2. FlashInv /\ [Next]_vars => FlashInv'
  BY TypeStep, FlashStep, InvGivesBoot DEF FlashInv
<1> QED BY <1>1, <1>2, PTL DEF Spec

\* The variables of the start and the update keep their types.
THEOREM FirmwareType == Spec => []TypeOK
<1>1. FlashInv => TypeOK
  BY DEF FlashInv
<1> QED BY <1>1, FlashInvHolds, PTL

\* Whenever the power is cut, before, during or after an upload, with or without
\* rollback and whatever images are sent, the slot that the bootloader prefers
\* holds a whole image: update_post_handler chooses a slot only after its image
\* is complete, and erases one only when nothing will go back to it.
THEOREM BoardBoots == Spec => []AlwaysBootable
<1> QED BY InvGivesBoot, FlashInvHolds, PTL

\* No upload ever touches the image that runs.
THEOREM RunningIsWhole == Spec => []RunningImageWhole
<1> QED BY InvGivesBoot, FlashInvHolds, PTL

-----------------------------------------------------------------------------
(* The trial of images *)

\* Steps that leave the slots and the otadata alone, and the running slot too,
\* change nothing the trial speaks of.
LEMMA TrialStutter ==
    ASSUME UNCHANGED <<slot, boot_slot, img_state, rollback, running>>
    PROVE  UNCHANGED Trial!avars
BY DEF Trial!avars, Settled, OnTrial, Image, Other

\* A reset stops the image.
LEMMA TrialStop ==
    ASSUME FlashInv, running # None, running' = None,
           UNCHANGED <<slot, boot_slot, img_state, rollback>>
    PROVE  Trial!Stop
<1>1. slot[running] # None
  BY OtherSlot DEF FlashInv, TypeOK
<1> QED BY <1>1 DEF Trial!Stop, Settled, OnTrial, Image, Other

\* The bootloader starts the trusted image, or the one on trial, once.
LEMMA TrialStart ==
    ASSUME FlashInv, Bootloader
    PROVE  Trial!StartCurrent \/ Trial!StartTrial \/ Trial!GiveUp
<1>0. /\ TypeOK /\ boot_slot \in OtaSlots /\ Other(boot_slot) \in OtaSlots
      /\ Other(boot_slot) # boot_slot /\ AlwaysBootable
      /\ Trusted(Other(boot_slot))
      /\ img_state[boot_slot] \in {"undefined", "new", "pending", "valid", "aborted"}
  BY InvGivesBoot, OtherSlot DEF FlashInv, TypeOK, Slots
<1>1. /\ running' = Preferred /\ running = None /\ running' # None
      /\ UNCHANGED <<slot, boot_slot, rollback>>
      /\ img_state' = [s \in OtaSlots |->
                          IF s = Preferred /\ rollback /\ img_state[s] = "new"
                          THEN "pending" ELSE Judged(s)]
  BY <1>0, BootloaderType DEF Bootloader, AlwaysBootable, Bootable, TypeOK
<1>2. img_state[boot_slot] \in {"new", "pending", "aborted"} => rollback
  BY <1>0 DEF FlashInv, Slots
<1>3. slot[boot_slot] # None
  BY <1>0 DEF TypeOK
<1>4. CASE Settled
  <2>1. Preferred = boot_slot /\ img_state'[boot_slot] = img_state[boot_slot]
    BY <1>0, <1>1, <1>4 DEF Preferred, Judged, Settled
  <2> QED BY <1>0, <1>1, <1>4, <2>1 DEF Trial!StartCurrent, Settled, OnTrial, Image
<1>5. CASE img_state[boot_slot] = "new"
  <2>1. Preferred = boot_slot /\ img_state'[boot_slot] = "pending"
    BY <1>0, <1>1, <1>2, <1>5 DEF Preferred, Judged
  <2> QED BY <1>0, <1>1, <1>3, <1>5, <2>1
          DEF Trial!StartTrial, Settled, OnTrial, Image, Other
<1>6. CASE img_state[boot_slot] \in {"pending", "aborted"}
  <2>1. Judged(boot_slot) = "aborted" /\ Judged(Other(boot_slot)) # "aborted"
    BY <1>0, <1>2, <1>6 DEF Judged, Trusted
  <2>2. Preferred = Other(boot_slot) /\ img_state'[boot_slot] = "aborted"
    BY <1>0, <1>1, <1>2, <1>6, <2>1 DEF Preferred
  <2>3. CASE img_state[boot_slot] = "pending"
    BY <1>0, <1>1, <2>2, <2>3 DEF Trial!GiveUp, Settled, OnTrial, Image, Other
  <2>4. CASE img_state[boot_slot] = "aborted"
    BY <1>0, <1>1, <2>2, <2>4 DEF Trial!StartCurrent, Settled, OnTrial, Image, Other
  <2> QED BY <1>6, <2>3, <2>4
<1> QED BY <1>0, <1>4, <1>5, <1>6 DEF Settled

\* The confirmation proves the image on trial, or, if it cannot be written, does
\* not.
LEMMA TrialConfirm ==
    ASSUME FlashInv, Confirm
    PROVE  Trial!Prove \/ UNCHANGED Trial!avars
<1>0. /\ TypeOK /\ boot_slot \in OtaSlots /\ Other(boot_slot) \in OtaSlots
      /\ Other(boot_slot) # boot_slot
      /\ running \in OtaSlots /\ running # None /\ upload = None
  BY OtherSlot DEF FlashInv, Confirm, TypeOK
<1>1. UNCHANGED <<slot, boot_slot, running, rollback>> /\ Health[Image] # "early"
  BY DEF Confirm
<1>2. CASE img_state' = img_state
  BY <1>1, <1>2, TrialStutter
<1>3. CASE /\ img_state[running] = "pending"
           /\ img_state' = [img_state EXCEPT ![running] = "valid"]
  <2>1. running = boot_slot
    BY <1>0, <1>3 DEF FlashInv, Slots, Running, Trusted
  <2>2. img_state'[boot_slot] = "valid" /\ img_state[boot_slot] = "pending"
    BY <1>0, <1>3, <2>1 DEF TypeOK
  <2>3. Image \notin {image \in Images : Health[image] = "early"}
    BY <1>1
  <2> QED BY <1>0, <1>1, <2>1, <2>2, <2>3 DEF Trial!Prove, Settled, OnTrial, Image
<1> QED BY <1>2, <1>3 DEF Confirm

\* Outside the last moments of an upload, one runs from the trusted slot.
LEMMA UploadSlot ==
    ASSUME FlashInv, running # None, ~Phase("chosen"), Trusted(running)
    PROVE  /\ running \in OtaSlots /\ Other(running) \in OtaSlots
           /\ Other(running) # running
           /\ ~OnTrial
           /\ running = IF Settled THEN boot_slot ELSE Other(boot_slot)
<1>1. /\ boot_slot \in OtaSlots /\ running \in OtaSlots
      /\ img_state[boot_slot] \in {"undefined", "new", "pending", "valid", "aborted"}
  BY DEF FlashInv, TypeOK
<1> QED BY <1>1, OtherSlot DEF FlashInv, Running, Trusted, Phase, OnTrial, Settled

\* What is written before the choice is written where nobody looks.
LEMMA TrialWrite ==
    ASSUME FlashInv, UploadBegins \/ UploadEnds
    PROVE  UNCHANGED Trial!avars
<1>1. /\ running \in OtaSlots /\ running # None /\ ~Phase("chosen")
      /\ TypeOK /\ boot_slot \in OtaSlots
  BY OtherSlot DEF FlashInv, TypeOK, UploadBegins, UploadEnds, Phase
<1>2. Trusted(running)
  <2>1. CASE UploadBegins
    <3>1. ~(rollback /\ img_state[running] = "pending") /\ upload = None
      BY <2>1 DEF UploadBegins
    <3> QED BY <1>1, <3>1, OtherSlot DEF FlashInv, Slots, Running, Trusted, TypeOK
  <2>2. CASE UploadEnds
    BY <2>2 DEF UploadEnds, Phase, FlashInv, Running
  <2> QED BY <2>1, <2>2
<1>3. \E b : slot' = [slot EXCEPT ![Other(running)] = b]
  BY DEF UploadBegins, UploadEnds
<1>4. slot'[running] = slot[running]
  BY <1>1, <1>2, <1>3, UploadSlot DEF TypeOK
<1>5. UNCHANGED <<boot_slot, img_state, running, rollback>>
  BY DEF UploadBegins, UploadEnds, otadata, uploadOnly
<1> QED BY <1>1, <1>2, <1>4, <1>5, UploadSlot
        DEF Trial!avars, Settled, OnTrial, Image, Other

\* The choice of the slot installs the image that was written.
LEMMA TrialInstall ==
    ASSUME FlashInv, SetBoot
    PROVE  Trial!Install
<1>1. /\ upload # None /\ upload.phase = "written" /\ running # None
      /\ TypeOK /\ Trusted(running) /\ slot[Other(running)] # Blank
  BY DEF SetBoot, Phase, FlashInv, TypeOK, Running
<1>2. /\ running \in OtaSlots /\ Other(running) \in OtaSlots
      /\ Other(running) # running /\ ~OnTrial
      /\ running = IF Settled THEN boot_slot ELSE Other(boot_slot)
  BY <1>1, UploadSlot DEF Phase
<1>3. /\ UNCHANGED <<slot, running, rollback>> /\ boot_slot' = Other(running)
      /\ img_state' = [img_state EXCEPT ![Other(running)] =
                          IF rollback THEN "new" ELSE "undefined"]
  BY DEF SetBoot, uploadOnly
<1>4. /\ img_state'[Other(running)] = IF rollback THEN "new" ELSE "undefined"
      /\ slot[Other(running)] \in Images /\ Other(Other(running)) = running
  BY <1>1, <1>2, <1>3, OtherSlot DEF TypeOK
<1>5. /\ Settled' = ~rollback /\ OnTrial' = rollback
      /\ img_state'[boot_slot'] # "pending" /\ img_state[boot_slot] # "pending"
  BY <1>1, <1>2, <1>3, <1>4 DEF Settled, OnTrial, TypeOK
<1>6. CASE rollback
  BY <1>1, <1>2, <1>3, <1>4, <1>5, <1>6 DEF Trial!Install, Image
<1>7. CASE ~rollback
  BY <1>1, <1>2, <1>3, <1>4, <1>5, <1>7 DEF Trial!Install, Image
<1> QED BY <1>6, <1>7

\* Every step is one of the trial, or none.
LEMMA TrialStep == FlashInv /\ [Next]_vars => [Trial!ANext]_(Trial!avars)
<1> SUFFICES ASSUME FlashInv, [Next]_vars PROVE [Trial!ANext]_(Trial!avars)
  OBVIOUS
<1>1. CASE Bootloader
  BY <1>1, TrialStart DEF Trial!ANext
<1>2. CASE Confirm
  BY <1>2, TrialConfirm DEF Trial!ANext
<1>3. CASE Dies \/ PowerCut \/ Restart
  <2>1. /\ running # None /\ running' = None
        /\ UNCHANGED <<slot, boot_slot, img_state, rollback>>
    BY <1>3 DEF Dies, PowerCut, Restart, Reset, Phase, flash, otadata, FlashInv, TypeOK
  <2> QED BY <2>1, TrialStop DEF Trial!ANext
<1>4. CASE UploadBegins \/ UploadEnds
  BY <1>4, TrialWrite
<1>5. CASE SetBoot
  BY <1>5, TrialInstall DEF Trial!ANext
<1>6. CASE \/ OpenNvs \/ StartServices \/ ChangeSettings \/ UploadFails
           \/ Associated \/ GotIp \/ Disconnected \/ RouterToggles \/ LostIp
           \/ UNCHANGED vars
  <2>1. UNCHANGED <<slot, boot_slot, img_state, rollback, running>>
    BY <1>6 DEF OpenNvs, StartServices, ChangeSettings, UploadFails, Associated, GotIp,
       Disconnected, RouterToggles, LostIp, wifiOnly, uploadOnly, flash, otadata, vars
  <2> QED BY <2>1, TrialStutter
<1> QED BY <1>1, <1>2, <1>3, <1>4, <1>5, <1>6 DEF Next, Start, Wifi, Upload

\* The first power-on is an initial state of the trial.
LEMMA TrialInit == Init => Trial!AInit
<1> SUFFICES ASSUME Init PROVE Trial!AInit
  OBVIOUS
<1>1. /\ boot_slot = 0 /\ img_state[0] = "undefined" /\ slot[0] = Factory
      /\ running = None /\ rollback \in BOOLEAN
  BY DEF Init
<1> QED BY <1>1 DEF Trial!AInit, Settled, OnTrial

\* The start and the update implement ImageTrial: an upload changes the trusted
\* image, or puts one on trial, at one point and whole; an image on trial has one
\* start to be confirmed and is given up otherwise, wherever the power is cut.
THEOREM UpdateIsATrial == Spec => ImplementsTrial
<1> QED BY TrialInit, TrialStep, FlashInvHolds, PTL
        DEF Spec, ImplementsTrial, Trial!ASpec

-----------------------------------------------------------------------------
(* The settings *)

\* The image of slot s can read the settings in flash.
Fits(s) == blob = None \/ blob.layout <= Layout[slot[s]]

\* What is in flash, unless a start erased it, is what the user chose; a short
\* layout has no tail.
BlobIsChosen ==
    IF blob = None THEN erased \/ chosen = Defaults
    ELSE /\ ~erased /\ blob.fields = chosen
         /\ blob.layout = 1 => chosen.tail = Defaults.tail

\* An image that could not be confirmed is a way back to an older one, an upload
\* that is complete has put its image into the slot, and if it was chosen, it is
\* of no shorter layout; every image that may be started can read the settings.
KeptInv ==
    /\ BlobIsChosen
    /\ step \in {"wifi", "serve"} /\ img_state[running] = "pending" => strayed
    /\ Phase("written") => slot[Other(running)] = upload.image
    /\ ~strayed =>
         /\ Phase("chosen") => Layout[slot[running]] <= Layout[slot[boot_slot]]
         /\ img_state[boot_slot] # "aborted" => Fits(boot_slot)
         /\ ~Trusted(boot_slot) => Fits(Other(boot_slot))
    /\ SettingsKept

\* Outside the last moments of an upload, the running slot is the chosen one, or
\* the other after the bootloader gave up on it.
LEMMA RunningSlot ==
    ASSUME FlashInv, running # None, ~Phase("chosen")
    PROVE  \/ running = boot_slot /\ img_state[boot_slot] \notin {"aborted", "new"}
           \/ running = Other(boot_slot) /\ img_state[boot_slot] = "aborted"
BY DEF FlashInv, Running, Phase

\* What a running image loads is what the user chose, if it is there and the
\* image can read it, and the defaults if it was erased.
LEMMA LoadsChosen ==
    ASSUME FlashInv, BlobIsChosen, running # None
    PROVE  /\ erased => Load(Image) = Defaults
           /\ ~erased /\ Fits(running) => Load(Image) = chosen
<1>1. CASE blob = None
  BY <1>1 DEF Load, BlobIsChosen
<1>2. CASE blob # None /\ ~Fits(running)
  BY <1>2 DEF BlobIsChosen
<1>3. CASE blob # None /\ Fits(running)
  <2>1. /\ blob.fields = chosen /\ blob.layout \in {1, 2}
        /\ blob.layout = 1 => chosen.tail = Defaults.tail
        /\ ~erased
    BY <1>3 DEF BlobIsChosen, FlashInv, TypeOK
  <2>2. Layout[Image] \in {1, 2} /\ blob.layout <= Layout[Image]
    BY <1>3, InvGivesBoot
       DEF Fits, Image, FlashInv, TypeOK, RunningImageWhole
  <2>3. chosen \in Fields
    BY DEF FlashInv, TypeOK
  <2>4. CASE blob.layout = Layout[Image]
    BY <1>3, <2>1, <2>2, <2>4 DEF Load
  <2>5. CASE blob.layout = 1 /\ Layout[Image] = 2
    <3>1. [chosen EXCEPT !.tail = Defaults.tail] = chosen
      BY <2>1, <2>3, <2>5 DEF Fields
    <3> QED BY <1>3, <2>1, <2>5, <3>1 DEF Load
  <2> QED BY <2>1, <2>2, <2>4, <2>5
<1> QED BY <1>1, <1>2, <1>3

LEMMA KeptInit == Init => KeptInv
BY OtherSlot DEF Init, KeptInv, BlobIsChosen, Phase, Fits, SettingsKept, Trusted

\* Steps that leave flash and history alone, do not go on with an upload, and do
\* not reach the services.
LEMMA KeptQuiet ==
    ASSUME KeptInv,
           UNCHANGED <<slot, boot_slot, img_state, blob, chosen, strayed, erased>>,
           upload' = upload \/ upload' = None,
           \/ UNCHANGED <<running, step, settings>>
           \/ step' = "off" /\ upload' = None
    PROVE  KeptInv'
BY DEF KeptInv, BlobIsChosen, Phase, Fits, SettingsKept, Trusted

LEMMA KeptStep == FlashInv /\ KeptInv /\ [Next]_vars => KeptInv'
<1> SUFFICES ASSUME FlashInv, KeptInv, [Next]_vars PROVE KeptInv'
  OBVIOUS
<1>0. /\ TypeOK /\ boot_slot \in OtaSlots /\ Other(boot_slot) \in OtaSlots
      /\ Other(boot_slot) # boot_slot /\ RunningImageWhole
  BY InvGivesBoot, OtherSlot DEF FlashInv, TypeOK
<1> USE DEF flash, otadata, wifi, history
<1>1. CASE Bootloader
  <2>1. /\ UNCHANGED <<slot, boot_slot, blob, chosen, strayed, erased>>
        /\ step' = "nvs" /\ upload' = None
    BY <1>0, <1>1 DEF Bootloader, TypeOK
  <2>2. img_state' = [s \in OtaSlots |->
                        IF s = Preferred /\ rollback /\ img_state[s] = "new"
                        THEN "pending" ELSE Judged(s)]
    BY <1>1 DEF Bootloader
  <2>3. img_state'[boot_slot] =
          IF boot_slot = Preferred /\ rollback /\ img_state[boot_slot] = "new"
          THEN "pending" ELSE Judged(boot_slot)
    BY <1>0, <2>2
  <2>4. /\ img_state'[boot_slot] # "aborted" => img_state[boot_slot] # "aborted"
        /\ Trusted(boot_slot) => Trusted(boot_slot)'
    BY <2>1, <2>3 DEF Judged, Trusted
  <2> QED BY <2>1, <2>4 DEF KeptInv, BlobIsChosen, Phase, Fits, SettingsKept
<1>2. CASE Confirm
  <2>1. /\ UNCHANGED <<slot, boot_slot, blob, running, chosen, erased>>
        /\ step' = "wifi" /\ upload' = None /\ running \in OtaSlots
    BY <1>0, <1>2 DEF Confirm, TypeOK
  <2>2. \/ img_state' = img_state /\ strayed'
        \/ img_state' = img_state /\ img_state[running] # "pending" /\ strayed' = strayed
        \/ /\ img_state[running] = "pending" /\ (~strayed' => ~strayed)
           /\ img_state' = [img_state EXCEPT ![running] = "valid"]
    <3>1. CASE img_state[running] = "pending"
      <4>1. PICK ok \in BOOLEAN :
              /\ img_state' = IF ok THEN [img_state EXCEPT ![running] = "valid"]
                              ELSE img_state
              /\ strayed' = (strayed \/ ~ok)
        BY <1>2, <3>1 DEF Confirm
      <4>2. CASE ok
        <5>1. ~strayed' => ~strayed
          BY <4>1, <4>2, Zenon
        <5> QED BY <3>1, <4>1, <4>2, <5>1
      <4>3. CASE ~ok
        <5>1. strayed'
          BY <4>1, <4>3, Zenon
        <5> QED BY <4>1, <4>3, <5>1
      <4> QED BY <4>2, <4>3
    <3>2. CASE img_state[running] # "pending"
      BY <1>2, <3>2 DEF Confirm
    <3> QED BY <3>1, <3>2
  <2>3. img_state'[running] = "pending" => strayed'
    BY <1>0, <2>1, <2>2 DEF TypeOK
  <2>4. ~strayed' =>
          /\ ~strayed
          /\ img_state'[boot_slot] # "aborted" => img_state[boot_slot] # "aborted"
          /\ Trusted(boot_slot) => Trusted(boot_slot)'
    BY <1>0, <1>2, <2>1, <2>2 DEF Trusted, TypeOK, Confirm
  <2> QED BY <2>1, <2>3, <2>4 DEF KeptInv, BlobIsChosen, Phase, Fits, SettingsKept
<1>3. CASE StartServices
  <2>1. /\ UNCHANGED <<slot, boot_slot, img_state, blob, running, upload, chosen,
                       strayed, erased>>
        /\ step = "wifi" /\ settings' = Load(Image) /\ upload = None /\ running # None
    BY <1>0, <1>3 DEF StartServices, TypeOK
  <2>2. ~strayed => Fits(running)
    BY <2>1, RunningSlot DEF KeptInv, Phase, Trusted
  <2>3. SettingsKept'
    BY <2>1, <2>2, LoadsChosen DEF KeptInv, SettingsKept
  <2> QED BY <2>1, <2>3 DEF KeptInv, BlobIsChosen, Phase, Fits, Trusted
<1>4. CASE Dies \/ PowerCut \/ Restart
  BY <1>4, KeptQuiet DEF Dies, PowerCut, Restart, Reset
<1>5. CASE Associated \/ GotIp \/ Disconnected \/ RouterToggles \/ LostIp
  BY <1>5, KeptQuiet DEF Associated, GotIp, Disconnected, RouterToggles, LostIp, wifiOnly
<1>6. CASE UploadFails
  BY <1>6, KeptQuiet DEF UploadFails, uploadOnly
<1>7. CASE UploadBegins \/ UploadEnds
  <2>1. /\ UNCHANGED <<boot_slot, img_state, blob, running, step, settings, chosen,
                       strayed, erased>>
        /\ running \in OtaSlots /\ running # None /\ ~Phase("chosen")
        /\ \E image : slot' = [slot EXCEPT ![Other(running)] = image]
    BY <1>0, <1>7 DEF UploadBegins, UploadEnds, uploadOnly, Phase, TypeOK
  <2>2. Trusted(running) /\ Other(running) \in OtaSlots
    BY <1>0, <1>7, <2>1, OtherSlot, RunningSlot
       DEF UploadBegins, UploadEnds, Phase, FlashInv, Slots, Running, Trusted, TypeOK
  <2>3. slot'[running] = slot[running]
    BY <1>0, <2>1, <2>2, OtherSlot DEF TypeOK
  <2>4. ~Phase("chosen")' /\ (Phase("written")' => slot'[Other(running)] = upload'.image)
    BY <1>0, <1>7, <2>2
       DEF UploadBegins, UploadEnds, Goes, Phase, TypeOK, Uploads
  <2>5. CASE running = boot_slot
    BY <2>1, <2>2, <2>3, <2>4, <2>5 DEF KeptInv, BlobIsChosen, Fits, SettingsKept, Trusted
  <2>6. CASE running = Other(boot_slot) /\ img_state[boot_slot] = "aborted"
    BY <2>1, <2>2, <2>3, <2>4, <2>6 DEF KeptInv, BlobIsChosen, Fits, SettingsKept, Trusted
  <2> QED BY <2>1, <2>5, <2>6, RunningSlot
<1>8. CASE SetBoot
  <2>1. /\ UNCHANGED <<slot, blob, running, step, settings, chosen, erased>>
        /\ boot_slot' = Other(running) /\ Phase("written")
        /\ img_state' = [img_state EXCEPT ![Other(running)] =
                           IF rollback THEN "new" ELSE "undefined"]
        /\ strayed' = (strayed \/ Layout[upload.image] < Layout[Image])
        /\ upload' = [upload EXCEPT !.phase = "chosen"]
    BY <1>8 DEF SetBoot, Goes, uploadOnly
  <2>2. /\ upload # None /\ upload \in Uploads /\ upload.phase = "written"
        /\ running \in OtaSlots /\ running # None /\ step = "serve"
        /\ Other(running) \in OtaSlots /\ Other(running) # running
        /\ Other(Other(running)) = running
    BY <1>0, <2>1, OtherSlot DEF Phase, TypeOK
  <2>3. upload'.phase = "chosen" /\ ~Phase("written")'
    BY <2>1, <2>2 DEF Uploads, Phase
  <2>4. slot[Other(running)] = upload.image /\ upload.image \in Images
    BY <2>1, <2>2 DEF KeptInv, Uploads
  <2>5. img_state'[running] = img_state[running]
    BY <1>0, <2>1, <2>2 DEF TypeOK
  <2>6. ~strayed' => ~strayed /\ Layout[slot[running]] <= Layout[slot[Other(running)]]
    <3>1. slot[running] \in Images
      BY <1>0, <2>2 DEF RunningImageWhole, TypeOK
    <3>2. Layout[slot[running]] \in {1, 2} /\ Layout[upload.image] \in {1, 2}
      BY <2>4, <3>1
    <3>3. ~strayed' => ~strayed /\ ~(Layout[upload.image] < Layout[slot[running]])
      BY <2>1, Zenon DEF Image
    <3> QED BY <2>4, <3>2, <3>3
  <2>7. ~strayed => Fits(running)
    BY <2>1, <2>2, RunningSlot DEF KeptInv, Phase, Trusted
  <2>8. ~strayed' => Fits(running)' /\ Fits(Other(running))'
    <3>1. slot[running] \in Images
      BY <1>0, <2>2 DEF RunningImageWhole, TypeOK
    <3>2. Layout[slot[running]] \in {1, 2} /\ Layout[slot[Other(running)]] \in {1, 2}
      BY <2>4, <3>1
    <3>3. blob # None => blob.layout \in {1, 2}
      BY <1>0 DEF TypeOK
    <3> QED BY <2>1, <2>6, <2>7, <3>2, <3>3 DEF Fits
  <2> QED BY <2>1, <2>2, <2>3, <2>5, <2>6, <2>8
          DEF KeptInv, BlobIsChosen, Phase, SettingsKept
<1>9. CASE ChangeSettings
  <2>1. PICK new \in {f \in Fields : Layout[Image] = 1 => f.tail = Defaults.tail} :
          /\ settings' = new /\ chosen' = new
          /\ blob' = [layout |-> Layout[Image], fields |-> new]
    BY <1>9 DEF ChangeSettings
  <2>2. /\ UNCHANGED <<slot, boot_slot, img_state, running, step, upload>>
        /\ step = "serve" /\ running \in OtaSlots /\ running # None /\ erased' = FALSE
        /\ strayed' = (strayed /\ (upload # None \/ img_state[running] = "pending"))
    BY <1>0, <1>9 DEF ChangeSettings, TypeOK
  <2>3. /\ Layout[slot[running]] \in {1, 2}
        /\ blob' # None /\ blob'.layout = Layout[slot[running]]
    <3>1. slot[running] \in Images
      BY <1>0, <2>2 DEF RunningImageWhole, TypeOK
    <3>2. Layout[Image] \in {1, 2}
      BY <3>1 DEF Image
    <3>3. blob' \in Blobs
      BY <2>1, <3>2
    <3> QED BY <2>1, <3>2, <3>3 DEF Image
  <2>4. BlobIsChosen' /\ SettingsKept'
    BY <2>1, <2>2, <2>3 DEF BlobIsChosen, SettingsKept, Image
  <2>5. /\ img_state[running] = "pending" => strayed /\ strayed'
        /\ ~strayed' => ~strayed \/ upload = None
    <3>1. img_state[running] = "pending" => strayed
      BY <2>2 DEF KeptInv
    <3>2. img_state[running] = "pending" /\ strayed => strayed'
      BY <2>2, Zenon
    <3>3. ~strayed' => ~strayed \/ upload = None
      BY <2>2, Zenon
    <3> QED BY <3>1, <3>2, <3>3
  <2>6. CASE Phase("chosen")
    <3>1. running = Other(boot_slot) /\ upload # None /\ Trusted(running)
      BY <2>6 DEF Phase, FlashInv, Running
    <3>2. ~strayed' => Layout[slot[running]] <= Layout[slot[boot_slot]]
      BY <2>5, <2>6, <3>1 DEF KeptInv
    <3>3. ~strayed' => Fits(boot_slot)' /\ Fits(Other(boot_slot))'
      BY <2>2, <2>3, <3>1, <3>2 DEF Fits
    <3> QED BY <2>2, <2>4, <2>5, <3>2, <3>3 DEF KeptInv, Phase
  <2>7. CASE ~Phase("chosen")
    <3>1. Fits(running)'
      BY <2>2, <2>3 DEF Fits
    <3>2. ~strayed' =>
            /\ img_state[boot_slot] # "aborted" => Fits(boot_slot)'
            /\ ~Trusted(boot_slot) => Fits(Other(boot_slot))'
      <4>1. CASE running = boot_slot /\ img_state[boot_slot] \notin {"aborted", "new"}
        <5>1. ~strayed' => Trusted(boot_slot)
          BY <1>0, <2>5, <4>1 DEF Trusted, TypeOK
        <5> QED BY <2>2, <3>1, <4>1, <5>1 DEF Fits
      <4>2. CASE running = Other(boot_slot) /\ img_state[boot_slot] = "aborted"
        BY <2>2, <3>1, <4>2 DEF Fits
      <4> QED BY <2>2, <2>7, <4>1, <4>2, RunningSlot
    <3> QED BY <2>2, <2>4, <2>5, <2>7, <3>2 DEF KeptInv, Phase, Trusted
  <2> QED BY <2>6, <2>7
<1>10. CASE UNCHANGED vars
  BY <1>10, KeptQuiet DEF vars
<1>11. CASE OpenNvs
  <2>1. /\ UNCHANGED <<slot, boot_slot, img_state, running, upload, chosen, strayed>>
        /\ step' = "start"
        /\ \/ UNCHANGED <<blob, erased>>
           \/ blob' = None /\ erased' = TRUE
    BY <1>11 DEF OpenNvs
  <2> QED BY <2>1 DEF KeptInv, BlobIsChosen, Phase, Fits, SettingsKept, Trusted
<1> QED BY <1>1, <1>2, <1>3, <1>4, <1>5, <1>6, <1>7, <1>8, <1>9, <1>10, <1>11
        DEF Next, Start, Wifi, Upload

\* The user's settings outlive restarts, updates, failed uploads and updates the
\* bootloader takes back, for any set of images: unless she went back to a shorter
\* layout, every image that may be started reads what she chose.  Where a start
\* had to erase NVS they are all lost, and the defaults serve until she chooses
\* again.
THEOREM SettingsAreKept == Spec => []SettingsKept
<1>1. KeptInv => SettingsKept
  BY DEF KeptInv
<1> QED BY <1>1, KeptInit, KeptStep, FlashInvHolds, PTL DEF Spec
=============================================================================
