------------------------------- MODULE MCGPIO -------------------------------
(* Small instances of GPIO.                                                *)
EXTENDS GPIO
=============================================================================
