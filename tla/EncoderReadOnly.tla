--------------------------- MODULE EncoderReadOnly ----------------------------
(***************************************************************************)
(* docs/DEVELOPMENT.zh-CN.md:96: encoder_mode monitor is read-only.  It may *)
(* record faults, and changes no motion, no path and no answer: with the   *)
(* encoder's own variables hidden, what the driver does in monitor mode it *)
(* could do with the mode off.                                             *)
(***************************************************************************)
EXTENDS EncoderGuard

Off == INSTANCE EncoderGuard
         WITH Modes <- {"off"}, mode <- "off",
              watched <- FALSE, motionFault <- FALSE, runtimeFault <- FALSE

\* In monitor mode every behaviour is one of the mode off, and in particular
\* no answer of a command depends on what the encoder saw (encoder_mode).
MonitorIsReadOnly ==
  /\ mode = "monitor" => Off!Init
  /\ [][mode = "monitor" => [Off!Next]_(Off!vars)]_vars
=============================================================================
