---------------------------- MODULE MCEventPipeline ----------------------------
(* Model checking of EventPipeline: the candle's way, and the two consumers *)
(* that write row by row, each looked at by itself.                         *)
EXTENDS EventPipeline

OneWayAtATime == {{"candle-builder", "candle-writer"}, {"trade-writer"}, {"order-writer"}}

=============================================================================
