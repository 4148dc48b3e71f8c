---------------------------- MODULE FirmwareUpdate ----------------------------
(***************************************************************************)
(* From power to service, and from one firmware to the next: the start     *)
(* (aquarium_app.cpp), the wait for Wi-Fi (wifi_station.cpp), the upload   *)
(* of an image to the other OTA slot (firmware_http_update.cpp), and the   *)
(* settings that images of different ages load from one blob in flash      *)
(* (nvs_store.cpp).  Power may be cut at every step.                       *)
(*                                                                         *)
(* Images differ in what they come to and in the settings they know: those *)
(* of layout 2 have new fields at the end of the structure, as model.hpp   *)
(* demands.  httpd has one thread, so there is one upload at a time.       *)
(*                                                                         *)
(* The bootloader, the esp_ota functions and the Wi-Fi driver are external.*)
(***************************************************************************)
EXTENDS Naturals

CONSTANTS
    Images,
    Health,         \* image -> "good", or it dies "early" or "late":
                    \*   before or after the confirmation in start()
    Layout,         \* image -> 1 or 2
    Factory,        \* the image flashed by cable
    Rollbacks,      \* is the bootloader built with rollback?  chosen for good
    Blank,          \* a slot erased, half written or damaged
    None            \* no slot, no blob, no upload

\* What update_post_handler has in hand: its phase and the image that is sent.
Uploads == [phase : {"write", "written", "chosen"}, image : Images]

\* Two fields stand for all: one every layout has, and one that layout 2 adds.
Values   == {"default", "mine"}
Fields   == [base : Values, tail : Values]
Defaults == [base |-> "default", tail |-> "default"]

\* What a save puts into flash.
Blobs == [layout : {1, 2}, fields : Fields]

ASSUME ImagesAssumption ==
    /\ Health \in [Images -> {"good", "early", "late"}]
    /\ Layout \in [Images -> {1, 2}]
    /\ Factory \in Images /\ Blank \notin Images /\ None \notin Images \cup {Blank}
    /\ Rollbacks \subseteq BOOLEAN
    /\ None \notin 0..1 /\ None \notin Uploads /\ None \notin Blobs

OtaSlots == 0..1
Other(s) == 1 - s

VARIABLES
    slot,           \* flash: slot -> image
    boot_slot,      \* otadata: the slot chosen last
    img_state,      \* otadata: slot -> what is known of its image
    blob,           \* nvs: the settings and the layout they were saved in
    step,           \* how far the start has come
    running,        \* the slot that runs
    settings,       \* settings_
    upload,         \* what update_post_handler has in hand
    ap,             \* the access point is there
    sta,            \* the Wi-Fi station
    connected,      \* kConnectedBit
    rollback,       \* the bootloader's configuration
    chosen,         \* history: the settings the user made last
    strayed,        \* history: the user went back to an older layout, or the
                    \* confirmation of an image could not be written
    erased          \* history: a start erased NVS, nothing was saved since

otadata == <<boot_slot, img_state>>
flash   == <<slot, otadata, blob>>
wifi    == <<ap, sta, connected>>
history == <<chosen, strayed, erased>>
vars    == <<flash, step, running, settings, upload, wifi, rollback, history>>

Image == slot[running]

-----------------------------------------------------------------------------
(* The bootloader *)

\* An image that was to prove itself and did not is given up.
Judged(s) == IF rollback /\ img_state[s] = "pending" THEN "aborted" ELSE img_state[s]

Preferred ==
    IF Judged(boot_slot) # "aborted" THEN boot_slot
    ELSE IF Judged(Other(boot_slot)) # "aborted" THEN Other(boot_slot) ELSE 0

Bootable == IF slot[Preferred] # Blank THEN Preferred ELSE Other(Preferred)

Bootloader ==
    /\ step = "off"
    /\ slot[Bootable] # Blank
    /\ running' = Bootable
    /\ img_state' = [s \in OtaSlots |->
                       IF s = Preferred /\ rollback /\ img_state[s] = "new"
                       THEN "pending" ELSE Judged(s)]
    /\ step' = "nvs"
    /\ UNCHANGED <<slot, boot_slot, blob, settings, upload, wifi, rollback, history>>

-----------------------------------------------------------------------------
(* The start *)

\* nvs_flash_init may answer, at any start, that the partition has no free pages
\* or was written by a newer NVS, as an image that is given up can leave it: then
\* all of it is erased.  Any other error aborts, as PowerCut does.
OpenNvs ==
    /\ step = "nvs" /\ step' = "start"
    /\ \/ UNCHANGED <<blob, erased>>
       \/ blob' = None /\ erased' = TRUE
    /\ UNCHANGED <<slot, otadata, running, settings, upload, wifi, rollback, chosen,
                   strayed>>

\* ota_mark_app_valid_if_needed, then wifi_init_sta.  Should the confirmation
\* fail, the start goes on.
Confirm ==
    /\ step = "start" /\ Health[Image] # "early"
    /\ IF img_state[running] = "pending"
       THEN \E ok \in BOOLEAN :
              /\ img_state' = IF ok THEN [img_state EXCEPT ![running] = "valid"]
                              ELSE img_state
              /\ strayed' = (strayed \/ ~ok)
       ELSE UNCHANGED <<img_state, strayed>>
    /\ step' = "wifi" /\ sta' = "connecting" /\ connected' = FALSE
    /\ UNCHANGED <<slot, boot_slot, blob, running, settings, upload, ap, rollback,
                   chosen, erased>>

\* Mutant: a blob of another size is not read.
Load_SameSize(img) ==
    IF blob = None \/ blob.layout # Layout[img] THEN Defaults ELSE blob.fields

\* NvsSettingsStore::load.  A longer blob does not fit the buffer; of a shorter
\* one the fields at the end keep their defaults.
Load(img) ==
    IF blob = None \/ blob.layout > Layout[img] THEN Defaults
    ELSE IF blob.layout < Layout[img] THEN [blob.fields EXCEPT !.tail = Defaults.tail]
    ELSE blob.fields

\* wifi_wait_connected returns: load the settings, start all services.
StartServices ==
    /\ step = "wifi" /\ connected
    /\ step' = "serve"
    /\ settings' = Load(Image)
    /\ UNCHANGED <<flash, running, upload, wifi, rollback, history>>

\* What a reset leaves of the RAM.
Reset ==
    /\ step' = "off" /\ running' = None
    /\ settings' = Defaults /\ upload' = None
    /\ sta' = "off" /\ connected' = FALSE

Dies ==
    /\ \/ step = "start" /\ Health[Image] = "early"
       \/ step \in {"wifi", "serve"} /\ Health[Image] = "late"
    /\ Reset
    /\ UNCHANGED <<flash, ap, rollback, history>>

PowerCut ==
    /\ step # "off"
    /\ Reset
    /\ UNCHANGED <<flash, ap, rollback, history>>

-----------------------------------------------------------------------------
(* Wi-Fi: on_wifi and on_ip *)

wifiOnly == UNCHANGED <<flash, step, running, settings, upload, rollback, history>>

RouterToggles ==
    /\ ap' = ~ap
    /\ UNCHANGED <<sta, connected>> /\ wifiOnly

Associated ==
    /\ sta = "connecting" /\ ap
    /\ sta' = "linked"
    /\ UNCHANGED <<ap, connected>> /\ wifiOnly

GotIp ==
    /\ sta = "linked" /\ ap /\ ~connected
    /\ connected' = TRUE
    /\ UNCHANGED <<ap, sta>> /\ wifiOnly

\* Mutant: the loss of the access point leaves the bit set.
Disconnected_KeepsBit ==
    /\ sta = "linked" /\ ~ap
    /\ sta' = "connecting"
    /\ UNCHANGED <<ap, connected>> /\ wifiOnly

\* Mutant: no new attempt after a loss.
Disconnected_NoRetry ==
    /\ sta = "linked" /\ ~ap
    /\ sta' = "idle" /\ connected' = FALSE
    /\ UNCHANGED ap /\ wifiOnly

\* The station tries again at once; attempts that fail come here, too.
Disconnected ==
    /\ sta = "linked" /\ ~ap
    /\ sta' = "connecting" /\ connected' = FALSE
    /\ UNCHANGED ap /\ wifiOnly

LostIp ==
    /\ sta = "linked" /\ connected
    /\ connected' = FALSE
    /\ UNCHANGED <<ap, sta>> /\ wifiOnly

-----------------------------------------------------------------------------
(* Service *)

\* A setting is changed and saved (DeviceService deals with failing saves).
\* With it the user has made do with what the image had loaded.
ChangeSettings ==
    /\ step = "serve"
    /\ \E new \in {f \in Fields : Layout[Image] = 1 => f.tail = Defaults.tail} :
         /\ settings' = new
         /\ chosen' = new
         /\ blob' = [layout |-> Layout[Image], fields |-> new]
    /\ strayed' = (strayed /\ (upload # None \/ img_state[running] = "pending"))
    /\ erased' = FALSE
    /\ UNCHANGED <<slot, otadata, step, running, upload, wifi, rollback>>

\* Phases of update_post_handler.
Phase(p) == upload # None /\ upload.phase = p
Goes(p)  == upload' = [upload EXCEPT !.phase = p]
uploadOnly == UNCHANGED <<blob, step, running, settings, wifi, rollback, chosen,
                          erased>>

\* Mutant: the slot to write is the one that was booted.
UploadBegins_SameSlot ==
    /\ step = "serve" /\ upload = None
    /\ ~(rollback /\ img_state[running] = "pending")
    /\ slot' = [slot EXCEPT ![running] = Blank]
    /\ \E img \in Images : upload' = [phase |-> "write", image |-> img]
    /\ UNCHANGED <<otadata, strayed>> /\ uploadOnly

\* esp_ota_begin erases the other slot.  It refuses while the running image has
\* yet to be confirmed.
UploadBegins ==
    /\ step = "serve" /\ upload = None
    /\ ~(rollback /\ img_state[running] = "pending")
    /\ slot' = [slot EXCEPT ![Other(running)] = Blank]
    /\ \E img \in Images : upload' = [phase |-> "write", image |-> img]
    /\ UNCHANGED <<otadata, strayed>> /\ uploadOnly

\* The connection breaks, the body ends early, a write fails, the image proves
\* invalid at the end, or the choice of the boot slot fails.
UploadFails ==
    /\ Phase("write") \/ Phase("written")
    /\ upload' = None
    /\ UNCHANGED <<slot, otadata, strayed>> /\ uploadOnly

\* The last chunk is written and esp_ota_end finds a valid image.
UploadEnds ==
    /\ Phase("write") /\ Goes("written")
    /\ slot' = [slot EXCEPT ![Other(running)] = upload.image]
    /\ UNCHANGED <<otadata, strayed>> /\ uploadOnly

\* Mutant: the slot is chosen before its image is complete.
SetBoot_Unfinished ==
    /\ Phase("write") \/ Phase("written")
    /\ Goes("chosen")
    /\ boot_slot' = Other(running)
    /\ img_state' = [img_state EXCEPT ![Other(running)] =
                       IF rollback THEN "new" ELSE "undefined"]
    /\ strayed' = (strayed \/ Layout[upload.image] < Layout[Image])
    /\ UNCHANGED slot /\ uploadOnly

SetBoot ==
    /\ Phase("written") /\ Goes("chosen")
    /\ boot_slot' = Other(running)
    /\ img_state' = [img_state EXCEPT ![Other(running)] =
                       IF rollback THEN "new" ELSE "undefined"]
    /\ strayed' = (strayed \/ Layout[upload.image] < Layout[Image])
    /\ UNCHANGED slot /\ uploadOnly

\* "OK rebooting", 300 ms, esp_restart.
Restart ==
    /\ Phase("chosen")
    /\ Reset
    /\ UNCHANGED <<flash, ap, rollback, history>>

-----------------------------------------------------------------------------
Init ==
    /\ slot = [s \in OtaSlots |-> IF s = 0 THEN Factory ELSE Blank]
    /\ boot_slot = 0 /\ img_state = [s \in OtaSlots |-> "undefined"]
    /\ blob = None
    /\ step = "off" /\ running = None /\ settings = Defaults /\ upload = None
    /\ ap = FALSE /\ sta = "off" /\ connected = FALSE
    /\ rollback \in Rollbacks
    /\ chosen = Defaults /\ strayed = FALSE /\ erased = FALSE

Start  == Bootloader \/ OpenNvs \/ Confirm \/ StartServices \/ Dies
Wifi   == Associated \/ GotIp \/ Disconnected
Upload == UploadBegins \/ UploadEnds \/ UploadFails \/ SetBoot \/ Restart

Next == Start \/ Wifi \/ Upload \/ ChangeSettings
        \/ PowerCut \/ RouterToggles \/ LostIp

Spec == Init /\ [][Next]_vars

(* Fairness: what is started goes on; an address that is asked for again and *)
(* again comes at last.                                                      *)
Fairness == WF_vars(Start) /\ WF_vars(Wifi) /\ SF_vars(StartServices)
            /\ WF_vars(Restart)

FairSpec == Spec /\ Fairness

-----------------------------------------------------------------------------
\* Every variable keeps its type; the bit says that there is an address.
TypeOK ==
    /\ slot \in [OtaSlots -> Images \cup {Blank}]
    /\ boot_slot \in OtaSlots
    /\ img_state \in [OtaSlots -> {"undefined", "new", "pending", "valid", "aborted"}]
    /\ blob # None => blob \in Blobs
    /\ step \in {"off", "nvs", "start", "wifi", "serve"}
    /\ running \in OtaSlots \cup {None} /\ (running = None <=> step = "off")
    /\ settings \in Fields /\ chosen \in Fields
    /\ upload # None => upload \in Uploads /\ step = "serve"
    /\ sta \in {"off", "connecting", "linked"}
    /\ ap \in BOOLEAN /\ connected \in BOOLEAN
    /\ rollback \in BOOLEAN /\ strayed \in BOOLEAN /\ erased \in BOOLEAN
    /\ connected => sta = "linked"

\* Whenever the power is cut, before, during or after an upload, the slot that
\* the bootloader prefers holds a whole image: the board starts again, and
\* without falling back on the other slot.
AlwaysBootable == slot[Preferred] # Blank

\* No upload touches the image that runs.
RunningImageWhole == running # None => slot[running] # Blank

\* The user's settings outlive restarts, updates to a longer layout, failed
\* uploads and updates that the bootloader takes back, unless the user went
\* back to a shorter layout.  ("New fields only at the end, or the migration of
\* NVS breaks", model.hpp:100.)  Where a start had to erase NVS, the board serves
\* with the defaults, all of them, until something is saved again.
SettingsKept ==
    step = "serve" => IF erased THEN settings = Defaults
                      ELSE strayed \/ settings = chosen

\* The image that runs, or would, is beyond help: it dies after it has been
\* confirmed, or nothing takes it back.
Doomed ==
    LET image == slot[IF running = None THEN Bootable ELSE running]
    IN  Health[image] = "late" \/ (Health[image] = "early" /\ ~rollback)

\* Once the access point stays and the power holds, the board serves again and
\* again, also after an image that died early.
ServesAgain ==
    <>[]ap /\ <>[][~PowerCut]_vars => []<>(step = "serve" \/ Doomed)

\* The trusted image is the one in the slot chosen last, unless that has yet to
\* be confirmed or was given up.
Settled == img_state[boot_slot] \in {"undefined", "valid"}
OnTrial == img_state[boot_slot] \in {"new", "pending"}

Trial == INSTANCE ImageTrial
    WITH Early     <- {image \in Images : Health[image] = "early"},
         Nothing   <- None,
         trials    <- rollback,
         current   <- slot[IF Settled THEN boot_slot ELSE Other(boot_slot)],
         candidate <- IF OnTrial THEN slot[boot_slot] ELSE None,
         tried     <- img_state[boot_slot] = "pending",
         run       <- IF running = None THEN None ELSE Image

\* The start and the update implement ImageTrial: a new image takes over at one
\* point of the upload, whole, has one start to be confirmed, and is given up
\* for the trusted one otherwise, wherever the power is cut.
ImplementsTrial == Trial!ASpec
=============================================================================
