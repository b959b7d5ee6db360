------------------------- MODULE MCADCDecompressor -------------------------
(* Model checking of ADCDecompressor: a window of 2 * 3 + 2 bytes over runs *)
(* of up to twelve bytes, so that it moves on twice, read in pieces of up   *)
(* to seven bytes.                                                          *)
EXTENDS ADCDecompressor

Plain(n)      == [in |-> n + 1, out |-> n, back |-> Own]
Copy(n, back) == [in |-> 2, out |-> n, back |-> back]

\* Runs whose phrases fill the window exactly, overrun it, repeat one byte,
\* and copy from as far back as they can.
MCStreams ==
  { <<Plain(2), Plain(2), Plain(2), Plain(2), Plain(2), Plain(2)>>,
    <<Plain(2), Copy(2, 1), Copy(2, 2), Copy(2, 2), Copy(2, 2), Copy(2, 2)>>,
    <<Plain(1), Copy(2, 0), Copy(2, 2), Plain(1), Copy(2, 2), Copy(2, 2), Copy(2, 2)>>,
    <<Plain(2), Plain(1), Copy(2, 2), Copy(2, 1), Copy(1, 2), Plain(2), Copy(2, 2)>> }

\* All requests but those at an offset inside the half of the window that
\* is dropped before they are satisfied.
MCRequests ==
  { r \in [offset : 0 .. 7, count : 1 .. 10] :
      r.offset + r.count <= 12 /\ (r.offset % W = 0 \/ (r.offset % W) + r.count <= 2 * W) }
=============================================================================
