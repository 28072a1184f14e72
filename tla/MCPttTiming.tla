--------------------------- MODULE MCPttTiming ----------------------------
(* A buffer of four samples and a burst of three symbols that goes over    *)
(* the subframe's end, two buffers on their way; the offset and the        *)
(* advance, which may be more than a buffer, change twice.                 *)
EXTENDS PttTiming
===========================================================================
