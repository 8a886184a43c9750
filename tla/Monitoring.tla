----------------------------- MODULE Monitoring -----------------------------
(***************************************************************************)
(* One viewer of the monitoring page: iter_mjpeg_frames sends a picture in *)
(* every interval of its own, whatever the renderer of OutputRenderer has  *)
(* written by then, and the raw frame as long as it has written nothing.   *)
(* Pictures are sent at any time: neither interval is modelled.            *)
(***************************************************************************)
EXTENDS OutputRenderer

VARIABLES view,    \* picture sent last: [raw, from], from "none", the "raw" slot,
                   \* or the output slot: "plain" or with "boxes"
          looking  \* _read_display_frame has found the output slot empty

pageVars == <<vars, view, looking>>

InitPage ==
    /\ Init
    /\ view = [raw |-> 0, from |-> "none"]
    /\ looking = FALSE
-----------------------------------------------------------------------------
Serve == Next /\ UNCHANGED <<view, looking>>

\* The output slot has been written, so its sequence is not 0.
Rendered == shown # Blank

SendOutput ==
    /\ ~looking
    /\ Rendered
    /\ view' = [raw |-> shown.raw, from |-> IF shown.boxes = 0 THEN "plain" ELSE "boxes"]
    /\ UNCHANGED <<vars, looking>>

FindEmpty ==
    /\ ~looking
    /\ ~Rendered
    /\ looking' = TRUE
    /\ UNCHANGED <<vars, view>>

\* Mutant of SendRaw: the raw frame is sent whenever it is newer.
SendNewer ==
    /\ looking \/ slot > view.raw
    /\ looking' = FALSE
    /\ view' = IF slot = 0 THEN view ELSE [raw |-> slot, from |-> "raw"]
    /\ UNCHANGED vars

\* The raw slot is read later; nothing is sent if it is empty too.
SendRaw ==
    /\ looking
    /\ looking' = FALSE
    /\ view' = IF slot = 0 THEN view ELSE [raw |-> slot, from |-> "raw"]
    /\ UNCHANGED vars

NextPage == Serve \/ SendOutput \/ FindEmpty \/ SendRaw

PageSpec == InitPage /\ [][NextPage]_pageVars
-----------------------------------------------------------------------------
\* What a viewer sees never jumps back in time, except where the code has to switch:
\* from the raw frame to the first picture rendered with a delay, and in
\* inference_only from raw pictures to the first result.  Once it has shown
\* rendered pictures it never falls back to raw frames.
ViewerNeverGoesBack ==
    [][ /\ \/ view'.raw >= view.raw
           \/ view.from = "raw" /\ view'.from \in {"plain", "boxes"}
           \/ mode = "inference_only" /\ view.from = "plain" /\ view'.from = "boxes"
        /\ view.from \in {"plain", "boxes"} => view'.from # "raw" ]_pageVars
=============================================================================
