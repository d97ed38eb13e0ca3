--------------------------- MODULE MCAntiEntropy ---------------------------
(* A small instance of AntiEntropy.  The rows of a segment are one word, or    *)
(* the two hashes of that word, and only the first and the last segment of a   *)
(* table vary.                                                                 *)
EXTENDS AntiEntropy

CONSTANT word

MCContent == {<<word>>, <<Blake3(<<word>>), Blake3(<<word>>)>>}

MCTable ==
    {t \in UNION {[1 .. n -> MCContent] : n \in 0 .. MaxSegments} :
        \A i \in 2 .. Len(t) - 1 : t[i] = <<word>>}
=============================================================================
