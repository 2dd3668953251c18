------------------------------- MODULE MCApp -------------------------------
(***************************************************************************)
(* Two requests at a time, so that a probe runs beside a handler.          *)
(***************************************************************************)
EXTENDS App

CONSTANTS h1, h2
MCHandlers == {h1, h2}
=============================================================================
