---------------------------- MODULE MCOmemoSend -----------------------------
(* Two messages to a buddy, or one to a room that lists the buddy twice,   *)
(* for TLC.                                                                *)
EXTENDS OmemoSend

CONSTANTS direct, another, room, buddy, me, first, again, own, d1, this

MCParentOf(l) == IF l = own THEN me ELSE buddy
MCDevicesOf(p) == IF p = me THEN {this} ELSE {d1}
MCRecipients(s) == IF s = room THEN <<first, again>> ELSE <<first>>
MCBatches == {{direct, another}, {room}}
=============================================================================
