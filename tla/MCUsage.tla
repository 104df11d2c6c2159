------------------------------ MODULE MCUsage ------------------------------
(* A bounded instance of Usage for TLC: an hour is two ticks and a day two *)
(* hours; offsets fall between hours too.  Two records share a row, or     *)
(* differ in device and billing, or one is malformed, undated or dated     *)
(* ahead.                                                                  *)
EXTENDS Usage

Content(tokens, cost, device, billing, clock) ==
    [llm |-> TRUE, tokens |-> tokens, cost |-> cost, device |-> device,
     billing |-> billing, clock |-> clock]

Priced == Content(1, <<0, 4, 9>>, 1, "api", "right")

Unpriced == Content(1, <<>>, 2, "subscription", "right")

Undated == Content(0, <<0, 5, 5>>, 0, "subscription", "none")

Ahead == Content(1, <<0, 9, 4>>, 0, "api", "ahead")

Malformed == Content(1, <<-1>>, 1, "api", "right")

Excess == Content(2, <<0, 1>>, 1, "api", "right")

Web == [Priced EXCEPT !.llm = FALSE]

MCLogs == {<<Priced, Priced>>, <<Unpriced, Undated>>, <<Ahead, Malformed>>, <<Excess, Web>>}

MCOffsets == {-3, 0}
=============================================================================
