---------------------------- MODULE MCAgiService ----------------------------
(* Two clients, which contend for the one job slot while each holds one of *)
(* the two request slots.  A client asks again once it has been answered,  *)
(* so a slot that is lost is missed by a later request.                    *)
EXTENDS AgiService

MCReqs == {"r1", "r2"}
=============================================================================
