----------------------------- MODULE MCChannel -----------------------------
(* Instances of Channel for TLC. *)
EXTENDS Channel, TLC

CONSTANTS a, b

MCEnd == {a, b}

(* Bits for bytes and two of them in a header.  Two messages make a stream *)
(* of up to six bytes, longer than a window of four, and packets of two    *)
(* bytes split the header of the second one.                               *)
MCMessage == {<<>>, <<1>>}
TwiceOneWay == (a :> 2) @@ (b :> 0)

(* With losses: one message of three bytes, one more than the window.      *)
OneMessage == {<<1>>}
OnceOneWay == (a :> 1) @@ (b :> 0)
=============================================================================
