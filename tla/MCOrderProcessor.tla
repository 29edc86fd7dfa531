-------------------------- MODULE MCOrderProcessor --------------------------
(***************************************************************************)
(* OrderProcessor for TLC: orders around the edges of what is valid.        *)
(* Books have the ticks 0, 1 and 2, so the highest valid price is 20.  The  *)
(* slots of the pool are taken as in MCMatchingEngine.                      *)
(***************************************************************************)
EXTENDS OrderProcessor, MCMatchingEngine

Msg(instrument, side, quantity, price) ==
    [instrument |-> instrument, side |-> side, quantity |-> quantity,
     price |-> price]

\* Accepted: both sides, two sizes, at whole ticks and between them.
MCValid(rose) ==
    {Msg(rose, 1, 20, 10), Msg(rose, 1, 10, 16), Msg(rose, 2, 10, 4),
     Msg(rose, 2, 20, 20)}

\* Refused: for the instrument, the side, the size and the price.
MCInvalid(rose) ==
    {Msg("unknown", 1, 10, -16), Msg(rose, 3, 10, 10), Msg(rose, 2, 65546, 10),
     Msg(rose, 1, 10, 26)}

\* A second instrument, for which there is one order: it never meets the others.
MCInstruments == {"Rose", "Lily"}
MCMessages == MCValid("Rose") \cup MCInvalid("Rose") \cup {Msg("Lily", 2, 10, 10)}

LeastSlotProcessorSpec ==
    ProcessorInit /\ [][ProcessorNext /\ LeastSlotTaken]_processorVars
=============================================================================
