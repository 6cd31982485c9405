----------------------------- MODULE IptsdGuard -----------------------------
(***************************************************************************)
(* The touch workaround's script, hardware/iptsd/hibermachy-iptsd-guard:   *)
(* hold masks the touch daemon's unit, records that the mask is its own,   *)
(* and stops the daemon; restore takes back a mask that is on record.      *)
(***************************************************************************)
VARIABLES
  mask,       \* /run/systemd/system/iptsd@.service: whose, or "none"
  recorded,   \* $state/mask-owned: the mask that it names, "blank" if it
              \* names none, "none" if it is not there
  masked,     \* systemd knows the mask
  daemon,     \* iptsd runs
  touch,      \* the script's next step, or how it ended
  stranded    \* of the last mask made: it was not put on record, or could
              \* not be removed

touchState == <<mask, recorded, masked, daemon, stranded>>
touchVars == <<touchState, touch>>

Owners == {"none", "guard", "administrator"}

TouchTypeOK ==
  /\ mask \in Owners /\ recorded \in Owners \cup {"blank"}
  /\ masked \in BOOLEAN /\ daemon \in BOOLEAN /\ stranded \in BOOLEAN
  /\ touch \in {"mask", "record", "reload", "stop", "unmask", "unblock", "start", "off", "ok", "failed"}

\* hold: nobody may have masked or overridden the unit before.
Mask ==
  /\ touch = "mask"
  /\ \/ mask = "none" /\ recorded = "none" /\ mask' = "guard" /\ touch' = "record" /\ stranded' = FALSE
     \/ UNCHANGED <<mask, stranded>> /\ touch' = "failed"
  /\ UNCHANGED <<recorded, masked, daemon>>

\* The shell may not make the file, or make it and write nothing into it, and
\* the script may be killed before.
Record ==
  /\ touch = "record"
  /\ \/ recorded' = mask /\ touch' = "reload" /\ UNCHANGED stranded
     \/ recorded' \in {"none", "blank"} /\ touch' = "failed" /\ stranded' = TRUE
  /\ UNCHANGED <<mask, masked, daemon>>

\* daemon-reload may have had its effect although it failed.
Reload ==
  /\ touch = "reload"
  /\ \/ masked' = (mask # "none") /\ touch' \in {"stop", "failed"}
     \/ UNCHANGED masked /\ touch' = "failed"
  /\ UNCHANGED <<mask, recorded, daemon, stranded>>

\* The daemon is stopped and must be gone.
Stop ==
  /\ touch = "stop"
  /\ daemon' \in {daemon, FALSE}
  /\ touch' \in {"failed"} \cup (IF daemon' THEN {} ELSE {"ok"})
  /\ UNCHANGED <<mask, recorded, masked, stranded>>

\* restore: a mask other than the one on record is the administrator's and
\* stays; the script may be killed before it has removed its own, or after.
Unmask ==
  /\ touch = "unmask"
  /\ \/ recorded = "none" /\ touch' = "ok" /\ UNCHANGED <<mask, stranded>>
     \/ recorded \notin {"none", mask} /\ touch' = "failed" /\ UNCHANGED <<mask, stranded>>
     \/ recorded = mask /\ mask # "none" /\
          \/ mask' = "none" /\ touch' \in {"unblock", "failed"} /\ UNCHANGED stranded
          \/ UNCHANGED mask /\ touch' = "failed" /\ stranded' = TRUE
  /\ UNCHANGED <<recorded, masked, daemon>>

Unblock ==
  /\ touch = "unblock"
  /\ \/ masked' = (mask # "none") /\ recorded' = "none" /\ touch' = "start"
     \/ masked' \in {masked, mask # "none"} /\ UNCHANGED recorded /\ touch' = "failed"
  /\ UNCHANGED <<mask, daemon, stranded>>

\* The daemon is started and must be there; perhaps there is no device.
Start ==
  /\ touch = "start"
  /\ daemon' \in {daemon, TRUE}
  /\ touch' \in {"failed"} \cup (IF daemon' THEN {"ok"} ELSE {})
  /\ UNCHANGED <<mask, recorded, masked, stranded>>

TouchStep == Mask \/ Record \/ Reload \/ Stop \/ Unmask \/ Unblock \/ Start

\* udev starts the daemon unless its unit is masked.
Udev ==
  /\ ~daemon /\ ~masked
  /\ daemon' = TRUE
  /\ UNCHANGED <<mask, recorded, masked, touch, stranded>>
=============================================================================
