---------------------------- MODULE MCGlukClock ----------------------------
(* A small calendar for GlukClock: every carry and the leap day come up. *)
EXTENDS GlukClock

MCDays == <<1, 2>>

\* Once AVR and chip have gone apart, what follows until the next start-up
\* tells nothing about them.
Together == ~apart
=============================================================================
