----------------------------- MODULE MCHotPlug -----------------------------
(***************************************************************************)
(* Instance of HotPlug: two plugs; a clamp, an EMOB without clamp EEPROM,  *)
(* and one with it; one clamp type that uses the secondary channel.        *)
(***************************************************************************)
EXTENDS HotPlug

CONSTANTS c1, c2, plainClamp, plainEmob, emobClamp, single, two

MCChannels == {c1, c2}
MCDevices == {plainClamp, plainEmob, emobClamp}
MCWithEeprom == {plainClamp, emobClamp}
MCWithCtrl == {plainEmob, emobClamp}
MCTypes == {single, two}
MCTwoChannel == {two}
=============================================================================
