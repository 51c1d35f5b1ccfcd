----------------------------- MODULE MCVolumes -----------------------------
(* Volumes with three slots, an SD card, a RAM disk and one USB drive.      *)
EXTENDS Volumes

CONSTANTS msc1

MCDrives == <<msc1>>
=============================================================================
