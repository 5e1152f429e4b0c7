---------------------------- MODULE MCGpioLines ----------------------------
(* A small instance of GpioLines: two chips with a label each, of which    *)
(* one is also the name of another device.                                 *)
EXTENDS GpioLines
CONSTANTS chip1, chip2, bank1, bank2

MCLabel == [c \in {chip1, chip2} |-> IF c = chip1 THEN bank1 ELSE bank2]
MCOrder == [c \in {chip1, chip2} |-> IF c = chip1 THEN 1 ELSE 2]
=============================================================================
