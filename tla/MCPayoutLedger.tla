--------------------------- MODULE MCPayoutLedger ---------------------------
(***************************************************************************)
(* Small instances of PayoutLedger.                                        *)
(***************************************************************************)
EXTENDS PayoutLedger

CONSTANTS ta1, ta2, get1, get2

(* One download at a time, of any months, while rates change, while the work
   changes, or while records are lost; every month can be sent back. *)
Repriced  == {"export", "slices", "sendback", "rate"}
Reworked  == {"export", "slices", "sendback", "log"}
Forgotten == {"export", "slices", "sendback", "lose"}

(* Two at once, while the rate, the lump or its weights move. *)
AtOnce    == {"export", "two", "rate"}
Lumped    == {"export", "two", "slices", "lump"}
Weighed   == {"export", "two", "slices", "weigh"}

(* The shares of several people, whatever they worked. *)
Shared    == {"log", "staff", "rate"}

All == {Repriced, Reworked, Forgotten, AtOnce, Lumped, Weighed, Shared}
=============================================================================
