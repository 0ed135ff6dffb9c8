----------------------------- MODULE MCDeviceBatch -----------------------------
(* Three full buffers, a view of the second half of the first, three short    *)
(* buffers and one handle to make.                                            *)
EXTENDS DeviceBatch

Whole(h)  == [res |-> h, lo |-> 0, n |-> 2]
Short(h)  == [res |-> h, lo |-> 0, n |-> 1]

MCBuffers ==
  [h \in 1 .. 7 |-> IF h = 4 THEN [res |-> 1, lo |-> 1, n |-> 1]
                    ELSE IF h \in {5, 6, 7} THEN Short(h) ELSE Whole(h)]

\* Operand lists of the backend's calls: repeated operands and views where the
\* graphs have them (Add(x, x), Split views into concat and conv).
MCArgs ==
  [relu            |-> {<<1, 2>>},
   unary           |-> {<<1, 2>>, <<4, 8>>},
   table           |-> {<<3, 1>>},
   binary          |-> {<<2, 2, 3>>, <<1, 4, 3>>},
   conv2d          |-> {<<4, 2, 5, 3>>},
   conv_silu       |-> {<<1, 2, 5, 3>>},
   c2f             |-> {<<1, 2, 5, 3, 6, 7>>},
   sppf            |-> {<<4, 2, 5, 3>>},
   concat          |-> {<<1, 4, 2, 3>>},
   concat_conv     |-> {<<1, 4, 2, 5, 3>>},
   concat_int8     |-> {<<1, 1, 2, 5, 6, 3>>},
   concat_residual |-> {<<1, 4, 4, 1, 2, 5, 3>>},
   decode_filter   |-> {<<1, 2, 5>>},
   decode_nms      |-> {<<1, 2, 5, 3, 6, 7>>},
   head_nms        |-> {<<4, 2, 5, 3, 6, 7>>}]

\* The decode of a view instead of a whole buffer.
MCViewArgs == [MCArgs EXCEPT !["decode_filter"] = {<<4, 2, 5>>}]
================================================================================
