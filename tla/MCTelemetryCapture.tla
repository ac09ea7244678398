------------------------- MODULE MCTelemetryCapture -------------------------
(* Values for the constants of TelemetryCapture.                           *)
EXTENDS TelemetryCapture

CONSTANT c1

(* States are one to TLC if they differ only in what nothing reads again:  *)
(* the mode once no call can take it (but for whether it changed during a  *)
(* call), the time a call or its service began once that is over, what was *)
(* replied to a call that had failed before, and the dependency's own      *)
(* lines, which no capture of the API's asks for.                          *)
Noticed == IF \E c \in Call : served[c] = NULL THEN mode
           ELSE {c \in Call : served[c].reply = NULL /\ served[c].mode # mode}
Serves(c) == IF served[c] = NULL \/ served[c].reply = NULL THEN served[c]
             ELSE IF call[c].status \in {503, 504} THEN << >>
             ELSE << served[c].mode, served[c].reply >>
Asks(c) == << call[c].pc, call[c].status, IF call[c].pc = "ANSWERED" THEN NULL ELSE call[c].since >>
Asked(line) == line.service = API
CaptureView == << clock, [c \in Call |-> << Asks(c), Serves(c) >>], SelectSeq(lines, Asked), spans,
                  Noticed >>
=============================================================================
