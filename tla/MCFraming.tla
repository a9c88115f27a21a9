------------------------------ MODULE MCFraming -----------------------------
(***************************************************************************)
(* A small instance of Framing: payloads of up to two bytes, one of which  *)
(* is the start bytes themselves; wake bytes and a header with a bad length*)
(* as noise.                                                               *)
(***************************************************************************)
EXTENDS Framing

SmallPayload == {<<>>, <<7>>, <<START1, START2>>}
WakeBytes == <<START2, START2, START2>>
BadHeader == <<START1, START2, 255, 255>>
SmallNoise == {WakeBytes, BadHeader}
==============================================================================
