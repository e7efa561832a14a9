----------------------------- MODULE MCRequest -----------------------------
(***************************************************************************)
(* Two concurrent requests, one for text, against a limiter that grants at *)
(* most one request before a tick.  Retry-After is absent, zero, or far    *)
(* longer than the cap.                                                    *)
(***************************************************************************)
EXTENDS Request

CONSTANTS c1, c2

MCCalls == {c1, c2}
MCRaw == {c2}
MCWaits == {0, 8}
=============================================================================
