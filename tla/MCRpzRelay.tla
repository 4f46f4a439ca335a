----------------------------- MODULE MCRpzRelay -----------------------------
(* Finite instances of RpzRelay.  Serials wrap at 16 and one of them is 0;   *)
(* on the way from version 0 to 2 one domain comes and goes.                 *)
EXTENDS RpzRelay, TLC

CONSTANTS a, b, c

MCSerialOf == (0 :> 3) @@ (1 :> 5) @@ (2 :> 7) @@ (3 :> 10) @@ (4 :> 0) @@ (5 :> 1)
MCZone == (0 :> {a}) @@ (1 :> {a, b}) @@ (2 :> {c}) @@ (3 :> {a, c}) @@ (4 :> {}) @@ (5 :> {b})
MCBootList == {b, c}

\* Every start whose bootstrap, if it comes to one, happens without a serial.
MCStarts == [disk : {"empty"}, url : BOOLEAN] \cup [disk : {"kept", "rawless"}, url : {FALSE}]

\* The raw file was lost, the state was not, and there is a bootstrap URL.
MCLostRaw == [disk : {"rawless"}, url : {TRUE}]
=============================================================================
