---------------------------- MODULE MCFwuClient ----------------------------
EXTENDS FwuClient

\* Two images: 1, 2; DUMMY_START is 3, DUMMY_END 4, UNKNOWN 5, BADHEADER 0.
MCCapsules == {<<3, 1, 2, 4>>,     \* a full update
               <<3, 2, 4>>}        \* a partial one
\* And some that are not as expected: no end, an unknown payload, a header that
\* is not supported, the same image twice.
MCOddCapsules == MCCapsules \cup
    {<<3, 1>>, <<3, 1, 5, 4>>, <<3, 1, 0, 4>>, <<3, 1, 1, 4>>}
===============================================================================
