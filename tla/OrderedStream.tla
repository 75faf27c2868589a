--------------------------- MODULE OrderedStream ---------------------------
(***************************************************************************)
(* What both pipelines promise, whatever the threads do: chunks leave a    *)
(* source and reach a sink in the order of their indexes, none missing and *)
(* none twice, and the sink is committed (ShardWriter::finish() when       *)
(* sealing, ArchiveReader::finish() when extracting) only if the source    *)
(* ended successfully and every chunk of it has arrived.                   *)
(***************************************************************************)
EXTENDS Naturals

VARIABLES emitted,    \* chunks the source has handed over
          complete,   \* the source ended without an error
          delivered,  \* chunks 0 .. delivered-1 have reached the sink
          outcome     \* "open", "committed" or "abandoned"

svars == <<emitted, complete, delivered, outcome>>

Init ==
    /\ emitted = 0
    /\ complete = FALSE
    /\ delivered = 0
    /\ outcome = "open"

Emit ==
    /\ outcome = "open" /\ ~complete
    /\ emitted' = emitted + 1
    /\ UNCHANGED <<complete, delivered, outcome>>

Complete ==
    /\ outcome = "open" /\ ~complete
    /\ complete' = TRUE
    /\ UNCHANGED <<emitted, delivered, outcome>>

Deliver ==
    /\ outcome = "open" /\ delivered < emitted
    /\ delivered' = delivered + 1
    /\ UNCHANGED <<emitted, complete, outcome>>

Commit ==
    /\ outcome = "open" /\ complete /\ delivered = emitted
    /\ outcome' = "committed"
    /\ UNCHANGED <<emitted, complete, delivered>>

Abandon ==
    /\ outcome = "open"
    /\ outcome' = "abandoned"
    /\ UNCHANGED <<emitted, complete, delivered>>

Next == Emit \/ Complete \/ Deliver \/ Commit \/ Abandon

Spec == Init /\ [][Next]_svars
=============================================================================
